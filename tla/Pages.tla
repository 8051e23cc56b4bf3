-------------------------------- MODULE Pages --------------------------------
(***************************************************************************)
(* An asset's page under its owner's editing (asset/blocks.go over           *)
(* internal/block): placed from a file or from nothing, then saved block by   *)
(* block, added to, arranged, emptied, and its blocks' content moved.         *)
(* Each edit runs under the asset's row lock, so edits follow one another;     *)
(* what one leaves is what the next is checked against.  A refused edit        *)
(* changes nothing.  The page is a sequence: a block's position is its place.  *)
(* What else an edit writes (sealed text, preserved rows, projections and the  *)
(* content generation) is AssetLife's.                                         *)
(***************************************************************************)
EXTENDS PageCatalog

CONSTANTS
    PageKinds,      \* the kinds a page is started for
    Sources(_),     \* the elements files of a kind bring, each a list
    Tray,           \* the definitions a creator asks the add tray for
    Retags,         \* the roles a creator's save may give an element
    SavedWidths,    \* the widths a save or an arrangement asks for
    MaxEdits        \* bound: edits of one page

(* A page is of a kind with a catalog, and a file brings roles, types and counts. *)
ASSUME PagesAssumption ==
    /\ PageKinds \subseteq Kinds /\ MaxEdits \in Nat
    /\ \A k \in PageKinds : Sources(k) \subseteq Seq([role : STRING, type : STRING, items : Nat])

VARIABLES
    kind,
    page,       \* asset_blocks, in page order
    edits       \* edits so far; the ids an edit mints begin with its number

vars == <<kind, page, edits>>

(* prepareIngest and StartFromNothing: elements within their limits, each with a *)
(* place.  Only the structure of the blocks is checked (insertBlocks).           *)
Placeable(k, tagged) ==
    /\ ValidateContentLimits(tagged) /\ HasPlaceForAll(k, tagged)
    /\ LET placed == Place(k, tagged, 0) IN \A i \in DOMAIN placed : ValidateStructure(placed[i])

Init ==
    /\ kind \in PageKinds /\ edits = 0
    /\ \E tagged \in Sources(kind) : Placeable(kind, tagged) /\ page = Place(kind, tagged, 0)

(* Every edit ends with the page it leaves. *)
Saves(after) ==
    /\ edits < MaxEdits /\ edits' = edits + 1
    /\ page' = after
    /\ UNCHANGED kind

(* A replacement file: the page is placed afresh. *)
Replace(tagged) ==
    /\ Placeable(kind, tagged)
    /\ Saves(Place(kind, tagged, edits + 1))

AddBlock(id, start) ==
    /\ OffersBlock(kind, id, start, page)
    /\ LET added == NewBlock(kind, id, start, edits + 1)
           after == Append(page, added)
       IN /\ ValidateStructure(added) /\ ValidateBuilderConstraints(kind, after, after)
          /\ Saves(after)

(* SaveBlock: layout, width and elements are the request's, whatever it holds. *)
SaveBlock(n, update) ==
    /\ n \in DOMAIN page
    /\ LET saved == [page[n] EXCEPT !.layout = update.layout, !.width = update.width,
                                    !.elements = update.elements]
           after == [page EXCEPT ![n] = saved]
       IN /\ ValidateStructure(saved) /\ ValidateBuilderConstraints(kind, page, after)
          /\ Saves(after)

MayHide(b) ==
    LET d == Definition(kind, b.definition) IN ~d.required \/ d.hideable

Arranged(order, hidden, widths) ==
    [i \in DOMAIN page |->
        [page[order[i]] EXCEPT !.hidden = order[i] \in hidden, !.width = widths[order[i]]]]

(* ArrangeBlocks: every block once, in the order asked for. *)
ArrangeBlocks(order, hidden, widths) ==
    /\ Cardinality(Images(order)) = Len(order) /\ \A n \in hidden : MayHide(page[n])
    /\ ValidateBuilderConstraints(kind, page, Arranged(order, hidden, widths))
    /\ Saves(Arranged(order, hidden, widths))

Dropping(s, n) == SubSeq(s, 1, n - 1) \o SubSeq(s, n + 1, Len(s))
Without(n) == Dropping(page, n)

RemoveBlock(n) ==
    /\ n \in DOMAIN page /\ ~Definition(kind, page[n].definition).required
    /\ ValidateBuilderConstraints(kind, page, Without(n))
    /\ Saves(Without(n))

RemovalRefused(n) == Definition(kind, page[n].definition).required /\ UNCHANGED vars

(* The slots of a block's layout nobody sits in, in order. *)
FreeSlots(b) ==
    SelectSeq(Slots(b.layout), LAMBDA s : \A e \in Images(b.elements) : e.slot # s)

(* Mutant: what does not fit stays behind, in the block that goes. *)
MovedWhatFits(from, to) ==
    LET free == FreeSlots(to)
    IN to.elements \o [i \in DOMAIN from.elements \cap DOMAIN free |->
                          [from.elements[i] EXCEPT !.slot = free[i]]]
Moved(from, to) ==
    LET free == FreeSlots(to)
    IN to.elements \o [i \in DOMAIN from.elements |->
            [from.elements[i] EXCEPT !.slot = IF i \in DOMAIN free THEN free[i] ELSE "none"]]

(* MoveBlockContent: the elements take the free slots, and their block goes.  A  *)
(* destination without room is refused.                                        *)
MoveBlockContent(n, m) ==
    /\ {n, m} \subseteq DOMAIN page /\ n # m
    /\ ~Definition(kind, page[n].definition).required
    /\ \A e \in Images(page[n].elements) : ~PinnedIn(kind, page[n].definition, e.role)
    /\ page[n].elements # <<>>
    /\ LET to    == [page[m] EXCEPT !.elements = Moved(page[n], page[m])]
           after == [i \in DOMAIN Without(n) |->
                        IF Without(n)[i].id = to.id THEN to ELSE Without(n)[i]]
       IN /\ ValidateStructure(to) /\ ValidateBuilderConstraints(kind, page, after)
          /\ Saves(after)

-----------------------------------------------------------------------------
(* What a save may send for a block: its elements in the slots of a layout, in  *)
(* order or two of them exchanged, and then one of them left out, filled or     *)
(* emptied, tagged otherwise or retyped, or one added that another block holds,  *)
(* that was never on the page.                                                *)
Layouts(b) == Images(Definition(kind, b.definition).layouts) \cup {"ring"}
SlotAt(layout, i) == IF i \in DOMAIN Slots(layout) THEN Slots(layout)[i] ELSE "none"
Seated(elements, layout, order) ==
    [i \in DOMAIN elements |-> [elements[i] EXCEPT !.slot = SlotAt(layout, order[i])]]
Orders(elements) ==
    LET same == [i \in DOMAIN elements |-> i]
    IN {same} \cup (IF Len(elements) > 1 THEN {[same EXCEPT ![1] = 2, ![2] = 1]} ELSE {})
Retyped(e) == [e EXCEPT !.type = "link_list", !.option = None, !.role = None]
Strangers == {e \in Elements(page) \cup {[id |-> <<0>>, type |-> "prose", role |-> None, slot |-> "none",
                                          option |-> "rich", items |-> 0]} : e.role \in Retags}
Changes(elements) ==
    {elements}
    \cup {Dropping(elements, i) : i \in DOMAIN elements}
    \cup {[elements EXCEPT ![i].items = k] : i \in DOMAIN elements, k \in 0 .. MaxCollectionItems + 1}
    \cup {[elements EXCEPT ![i].role = r] : i \in DOMAIN elements, r \in Retags}
    \cup {[elements EXCEPT ![i] = Retyped(@)] : i \in DOMAIN elements}
    \cup {Append(elements, e) : e \in Strangers}

AsItIs == [i \in DOMAIN page |-> i]
HiddenNow == {i \in DOMAIN page : page[i].hidden}
WidthsNow == [i \in DOMAIN page |-> page[i].width]

Edit ==
    \/ \E tagged \in Sources(kind) : Replace(tagged)
    \/ \E id \in {t \in Tray : InCatalog(kind, t)} :
         \E start \in Starts(Definition(kind, id)) : AddBlock(id, start)
    \/ \E n \in DOMAIN page : \E layout \in Layouts(page[n]), width \in SavedWidths \cup {page[n].width} :
         \E changed \in Changes(page[n].elements) : \E order \in Orders(changed) :
           SaveBlock(n, [layout |-> layout, width |-> width,
                         elements |-> Seated(changed, layout, order)])
    \/ \E n, m \in DOMAIN page :
         \/ ArrangeBlocks([AsItIs EXCEPT ![n] = m, ![m] = n], HiddenNow, WidthsNow)
         \/ MoveBlockContent(n, m)
    \/ \E n \in DOMAIN page :
         \/ RemoveBlock(n)
         \/ \E hidden \in SUBSET {n}, width \in SavedWidths :
              ArrangeBlocks(AsItIs, hidden \cup (HiddenNow \ {n}), [WidthsNow EXCEPT ![n] = width])

Next ==
    \/ edits < MaxEdits /\ Edit
    \/ \E n \in DOMAIN page : RemovalRefused(n)

Spec == Init /\ [][Next]_vars

-----------------------------------------------------------------------------
(* Types: every block is of the kind's catalog, in a layout and a width Illarin  *)
(* defines, and holds elements of its vocabulary; ids are minted, a block's from   *)
(* the edit that made it and its place there, an element's from its block's.       *)
LayoutNames == {"single", "duo", "main-aside", "trio", "stack-2", "stack-3"}
DefinitionIds == UNION {{d.id : d \in Images(Catalog(k))} : k \in Kinds}
Element ==
    [id : Seq(Nat), type : Types, role : DOMAIN RoleTypes \cup {None},
     slot : UNION {Images(Slots(l)) : l \in LayoutNames},
     option : UNION {OptionsOf(t) : t \in Types}, items : Nat]
Block ==
    [id : Nat \X Nat, definition : DefinitionIds, hidden : BOOLEAN, layout : LayoutNames,
     width : {"full", "two_thirds", "half", "third"}, elements : Seq(Element)]
TypeOK ==
    /\ kind \in Kinds /\ edits \in 0 .. MaxEdits /\ page \in Seq(Block)
    /\ \A i \in DOMAIN page : InCatalog(kind, page[i].definition)

(* No sequence of legal edits, and no file, leaves a page the next save is refused  *)
(* on for something it did not touch: import checks only the structure of the blocks *)
(* it places, a save only the structure of the block it saves, and an arrangement    *)
(* none, and still the whole page keeps every rule (ValidateStructure,               *)
(* ValidateBuilderConstraints).                                                    *)
PageIsEditable ==
    /\ \A i \in DOMAIN page : ValidateStructure(page[i])
    /\ ValidateBuilderConstraints(kind, page, page)

(* What the kind requires stays on the page through every edit: each required block,  *)
(* once, with the elements pinned to it, and shown where it is always shown.          *)
RequiredStays ==
    \A d \in Images(Catalog(kind)) : d.required =>
        \E i \in DOMAIN page :
            /\ page[i].definition = d.id /\ (page[i].hidden => d.hideable)
            /\ \A e \in Images(d.elements) : e.pinned =>
                 \E c \in Images(page[i].elements) : c.role = e.role /\ c.type = e.type

(* A page no edit can get stuck on: its rules hold as a whole and what its kind     *)
(* requires is there, although no one operation checks either (SaveBlock,           *)
(* ArrangeBlocks, MoveBlockContent, insertBlocks).                                 *)
PageSound == TypeOK /\ PageIsEditable /\ RequiredStays

(* ContentFloor *)
UnmetOn(p) ==
    {r \in ContentFloors(kind) : \A e \in Elements(p) : e.role = r => e.items = 0}

(* A draft that may not be published yet always names a block to fill it in: the     *)
(* publish floor asks for no role its creator has lost the element of, so one save     *)
(* of that block meets it (ContentFloor's BlockID is never nil).                      *)
FloorCanBeMet ==
    \A r \in UnmetOn(page) : \E n \in DOMAIN page, i \in 1 .. 3 :
        /\ i \in DOMAIN page[n].elements /\ page[n].elements[i].role = r
        /\ LET filled == [page EXCEPT ![n].elements[i].items = 1]
           IN /\ ValidateStructure(filled[n]) /\ ValidateBuilderConstraints(kind, page, filled)
              /\ r \notin UnmetOn(filled)

(* A block that goes takes all of its elements with it or, where their content is      *)
(* moved (MoveBlockContent), none; and nothing else on the page changes with it.       *)
Body(e) == <<e.id, e.type, e.role, e.items>>
Ids(p) == {e.id : e \in Elements(p)}
Bodies(p) == {Body(e) : e \in Elements(p)}
AllOrNothing ==
    [][ Ids(page') \subseteq Ids(page) => \A n \in DOMAIN page :
          (\A i \in DOMAIN page' : page'[i].id # page[n].id) =>
              LET own == {Body(e) : e \in Images(page[n].elements)}
              IN Bodies(page') \in {Bodies(page), Bodies(page) \ own} ]_vars
=============================================================================
