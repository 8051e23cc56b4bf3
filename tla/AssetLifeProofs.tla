-------------------------- MODULE AssetLifeProofs --------------------------
(* Proofs about one asset under its owner's editing, for any number of     *)
(* open pages, texts, replacement files, edits and deploys.                *)
EXTENDS AssetLife, FiniteSetTheorems, TLAPS

Text == Texts \cup {"none", "blank", "prose"}
Element == [block : Blocks, text : Text, sealed : BOOLEAN]
Row == [position : Nat, hidden : BOOLEAN]

(* The tabs and the projections are records.                               *)
Shapes ==
    /\ \A t \in Tabs : tab[t] = [step |-> tab[t].step, before |-> tab[t].before,
                                 view |-> tab[t].view]
    /\ proj = [export |-> proj.export, facets |-> proj.facets]

(* FOR UPDATE: an edit under way holds the row, on an asset that may be    *)
(* edited, and its first digest is still what a download would carry.      *)
EditHoldsRow ==
    \A t \in Tabs : tab[t].step = "editing" =>
        lock = t /\ Editable /\ tab[t].before = {Fingerprint}

LifeInv ==
    /\ BlocksSound /\ SealedIsHeld /\ ProjectionsFollowPage
    /\ Shapes /\ EditHoldsRow

-----------------------------------------------------------------------------
(* Positions.  There are at most three blocks, core among them.            *)
LEMMA PageSizes ==
    ASSUME NEW D, D \subseteq Blocks, "core" \in D
    PROVE  /\ IsFiniteSet(D)
           /\ \/ D = {"core"} /\ Cardinality(D) = 1
              \/ \E x \in Optional : D = {"core", x} /\ Cardinality(D) = 2
              \/ D = Blocks /\ Cardinality(D) = 3
<1>1. D = {"core"} \/ (\E x \in Optional : D = {"core", x}) \/ D = Blocks
  BY DEF Blocks, Optional
<1>2. Cardinality({"core"}) = 1 /\ IsFiniteSet({"core"})
  BY FS_Singleton
<1>3. ASSUME NEW x \in Optional
      PROVE  Cardinality({"core", x}) = 2 /\ IsFiniteSet({"core", x})
  <2>1. {"core", x} = {"core"} \cup {x} /\ x \notin {"core"}
    BY DEF Optional
  <2> QED
    BY <1>2, <2>1, FS_AddElement
<1>4. Cardinality(Blocks) = 3 /\ IsFiniteSet(Blocks)
  <2>1. Blocks = {"core", "nudges"} \cup {"custom"} /\ "custom" \notin {"core", "nudges"}
    BY DEF Blocks
  <2>2. Cardinality({"core", "nudges"}) = 2 /\ IsFiniteSet({"core", "nudges"})
    BY <1>3 DEF Optional
  <2>3. Cardinality({"core", "nudges"} \cup {"custom"}) = 2 + 1
        /\ IsFiniteSet({"core", "nudges"} \cup {"custom"})
    BY <2>1, <2>2, FS_AddElement
  <2> QED
    BY <2>1, <2>3
<1> QED
  BY <1>1, <1>2, <1>3, <1>4

Positions(r) == {r[b].position : b \in DOMAIN r}

RowsInOrder(r) ==
    /\ r \in [DOMAIN r -> Row] /\ DOMAIN r \subseteq Blocks /\ "core" \in DOMAIN r
    /\ Positions(r) = 0 .. Cardinality(DOMAIN r) - 1

(* A block added at the foot of the page (AddBlock). *)
LEMMA AddedInOrder ==
    ASSUME RowsInOrder(rows), NEW b \in Optional \ DOMAIN rows, NEW r,
           r = [x \in DOMAIN rows \cup {b} |->
                  IF x = b THEN [position |-> Cardinality(DOMAIN rows), hidden |-> FALSE]
                  ELSE rows[x]]
    PROVE  RowsInOrder(r)
<1>1. DOMAIN r = DOMAIN rows \cup {b} /\ DOMAIN r \subseteq Blocks /\ "core" \in DOMAIN r
  BY DEF RowsInOrder, Optional, Blocks
<1>2. Cardinality(DOMAIN rows) \in Nat /\ Cardinality(DOMAIN r) = Cardinality(DOMAIN rows) + 1
  <2>1. IsFiniteSet(DOMAIN rows) /\ Cardinality(DOMAIN rows) \in Nat
    BY PageSizes, FS_CardinalityType DEF RowsInOrder
  <2> QED
    BY <1>1, <2>1, FS_AddElement
<1>3. r \in [DOMAIN r -> Row]
  BY <1>1, <1>2 DEF RowsInOrder, Row
<1>4. Positions(r) = Positions(rows) \cup {Cardinality(DOMAIN rows)}
  <2>1. \A x \in DOMAIN rows : r[x] = rows[x]
    OBVIOUS
  <2>2. r[b].position = Cardinality(DOMAIN rows)
    OBVIOUS
  <2> QED
    BY <1>1, <2>1, <2>2 DEF Positions
<1>5. \A n \in Nat : (0 .. n - 1) \cup {n} = 0 .. (n + 1) - 1
  OBVIOUS
<1> QED
  BY <1>1, <1>2, <1>3, <1>4, <1>5 DEF RowsInOrder

(* deleteBlockAndClosePositions leaves no gap. *)
LEMMA ClosedInOrder ==
    ASSUME RowsInOrder(rows), NEW b \in Optional \cap DOMAIN rows
    PROVE  RowsInOrder(ClosePositions(b))
<1> DEFINE r == ClosePositions(b)
<1>1. DOMAIN r = DOMAIN rows \ {b} /\ DOMAIN r \subseteq Blocks /\ "core" \in DOMAIN r
  BY DEF RowsInOrder, Optional, ClosePositions
<1>2. \A x \in DOMAIN rows : rows[x] \in Row
  BY DEF RowsInOrder
<1>3. \A x \in DOMAIN r :
        /\ r[x].position = (IF rows[x].position > rows[b].position
                            THEN rows[x].position - 1 ELSE rows[x].position)
        /\ r[x] \in Row
  BY <1>2 DEF ClosePositions, Row
<1>4. r \in [DOMAIN r -> Row]
  BY <1>3 DEF ClosePositions
<1> HIDE DEF r
<1>5. CASE DOMAIN rows = {"core", b}
  <2>1. Cardinality(DOMAIN rows) = 2 /\ Cardinality(DOMAIN r) = 1 /\ DOMAIN r = {"core"}
    <3>1. DOMAIN r = {"core"} /\ DOMAIN rows # {"core"} /\ DOMAIN rows # Blocks
          /\ Blocks # {"core"} /\ \A x \in Optional : {"core"} # {"core", x}
      BY <1>1, <1>5 DEF Optional, Blocks
    <3> QED
      BY <1>1, <3>1, PageSizes DEF RowsInOrder
  <2>2. {rows["core"].position, rows[b].position} = 0 .. 1
    <3>1. Positions(rows) = {rows["core"].position, rows[b].position}
      BY <1>5 DEF Positions
    <3> QED
      BY <2>1, <3>1 DEF RowsInOrder
  <2>3. Positions(r) = {r["core"].position}
    BY <2>1 DEF Positions
  <2>4. r["core"].position = 0
    BY <1>2, <1>3, <1>5, <2>1, <2>2 DEF Row
  <2> QED
    BY <1>1, <1>4, <2>1, <2>3, <2>4 DEF RowsInOrder, r
<1>6. CASE DOMAIN rows = Blocks
  <2> PICK c \in Optional : c # b
    BY DEF Optional
  <2>1. Blocks = {"core", b, c} /\ DOMAIN r = {"core", c}
    BY <1>1, <1>6 DEF Blocks, Optional
  <2>2. Cardinality(DOMAIN rows) = 3 /\ Cardinality(DOMAIN r) = 2
    <3>1. DOMAIN r # {"core"} /\ DOMAIN r # Blocks /\ Blocks # {"core"}
          /\ \A x \in Optional : Blocks # {"core", x}
      BY <2>1 DEF Optional, Blocks
    <3> QED
      BY <1>1, <1>6, <3>1, PageSizes
  <2>3. {rows["core"].position, rows[b].position, rows[c].position} = 0 .. 2
    <3>1. Positions(rows) = {rows["core"].position, rows[b].position, rows[c].position}
      BY <1>6, <2>1 DEF Positions
    <3> QED
      BY <2>2, <3>1, SMTT(30) DEF RowsInOrder
  <2>4. Positions(r) = {r["core"].position, r[c].position}
    BY <2>1 DEF Positions
  <2>5. {r["core"].position, r[c].position} = 0 .. 1
    <3> DEFINE p == rows["core"].position  q == rows[b].position  o == rows[c].position
    <3>1. p \in Nat /\ q \in Nat /\ o \in Nat /\ {p, q, o} = 0 .. 2
      BY <1>2, <1>6, <2>1, <2>3 DEF Row
    <3>2. r["core"].position = (IF p > q THEN p - 1 ELSE p)
          /\ r[c].position = (IF o > q THEN o - 1 ELSE o)
      BY <1>3, <2>1
    <3> HIDE DEF p, q, o
    <3>3. 0 \in {p, q, o} /\ 1 \in {p, q, o} /\ 2 \in {p, q, o}
      <4>1. 0 \in 0 .. 2 /\ 1 \in 0 .. 2 /\ 2 \in 0 .. 2
        OBVIOUS
      <4> QED
        BY <3>1, <4>1
    <3>4. 0 .. 1 = {0, 1}
      OBVIOUS
    <3> QED
      BY <3>1, <3>2, <3>3, <3>4
  <2> QED
    BY <1>1, <1>4, <2>2, <2>4, <2>5, SMTT(30) DEF RowsInOrder, r
<1>7. DOMAIN rows = {"core", b} \/ DOMAIN rows = Blocks
  <2>1. b # "core" /\ b \in DOMAIN rows
    BY DEF Optional
  <2> QED
    BY <2>1, PageSizes DEF RowsInOrder
<1> QED
  BY <1>5, <1>6, <1>7 DEF r

(* A one-to-one arrangement of the positions takes them all. *)
LEMMA ArrangedInOrder ==
    ASSUME RowsInOrder(rows), NEW hidden, NEW r,
           NEW order \in [DOMAIN rows -> 0 .. Cardinality(DOMAIN rows) - 1],
           \A b, c \in DOMAIN rows : order[b] = order[c] => b = c,
           r = [b \in DOMAIN rows |-> [position |-> order[b], hidden |-> b \in hidden]]
    PROVE  RowsInOrder(r)
<1>1. DOMAIN r = DOMAIN rows /\ r \in [DOMAIN r -> Row]
  <2>1. Cardinality(DOMAIN rows) \in Nat
    BY PageSizes DEF RowsInOrder
  <2>2. \A b \in DOMAIN rows : r[b] \in Row
    <3>1. \A b : (b \in hidden) \in BOOLEAN
      OBVIOUS
    <3>2. \A b \in DOMAIN rows : order[b] \in Nat
      BY <2>1
    <3> QED
      BY <3>1, <3>2 DEF Row
  <2> QED
    BY <2>2
<1>2. Positions(r) = {order[b] : b \in DOMAIN rows}
  BY DEF Positions
<1>3. {order[b] : b \in DOMAIN rows} = 0 .. Cardinality(DOMAIN rows) - 1
  <2>1. CASE DOMAIN rows = {"core"} /\ Cardinality(DOMAIN rows) = 1
    <3>1. order["core"] \in 0 .. 0
      BY <2>1
    <3>2. {order[b] : b \in DOMAIN rows} = {order["core"]} /\ 0 .. 0 = {0}
      BY <2>1
    <3> QED
      BY <2>1, <3>1, <3>2
  <2>2. ASSUME NEW x \in Optional, DOMAIN rows = {"core", x}, Cardinality(DOMAIN rows) = 2
        PROVE  {order[b] : b \in DOMAIN rows} = 0 .. Cardinality(DOMAIN rows) - 1
    <3>1. order["core"] \in 0 .. 1 /\ order[x] \in 0 .. 1 /\ order["core"] # order[x]
      BY <2>2 DEF Optional
    <3>2. {order[b] : b \in DOMAIN rows} = {order["core"], order[x]} /\ 0 .. 1 = {0, 1}
      BY <2>2
    <3> QED
      BY <2>2, <3>1, <3>2
  <2>3. CASE DOMAIN rows = Blocks /\ Cardinality(DOMAIN rows) = 3
    <3> DEFINE p == order["core"]  q == order["nudges"]  o == order["custom"]
    <3>1. p \in 0 .. 2 /\ q \in 0 .. 2 /\ o \in 0 .. 2 /\ p # q /\ p # o /\ q # o
      BY <2>3 DEF Blocks
    <3>2. {order[b] : b \in DOMAIN rows} = {p, q, o} /\ 0 .. 2 = {0, 1, 2}
      BY <2>3 DEF Blocks
    <3> HIDE DEF p, q, o
    <3>3. {p, q, o} = {0, 1, 2}
      BY <3>1
    <3> QED
      BY <2>3, <3>2, <3>3
  <2> QED
    BY <2>1, <2>2, <2>3, PageSizes DEF RowsInOrder
<1> QED
  BY <1>1, <1>2, <1>3 DEF RowsInOrder

-----------------------------------------------------------------------------
(* Elements.                                                               *)
Placed(p, D) ==
    /\ p \in [DOMAIN p -> Element] /\ DOMAIN p \subseteq Elements
    /\ \A e \in DOMAIN p : p[e].block \in D /\ (p[e].block = "core" <=> e = "prompts")
    /\ "prompts" \in DOMAIN p

(* A page whose sealed fragment may still hold any text, in X.             *)
PlacedUnsealed(p, D, X) ==
    /\ p \in [DOMAIN p -> [block : Blocks, text : X, sealed : BOOLEAN]]
    /\ DOMAIN p \subseteq Elements
    /\ \A e \in DOMAIN p : /\ p[e].block \in D /\ (p[e].block = "core" <=> e = "prompts")
                           /\ ~p[e].sealed => p[e].text \in Text
    /\ "prompts" \in DOMAIN p

HeldTexts == Text \cup {payload[revision].text}

(* RestorePromptFragments moves nothing, and writes only in sealed rows.   *)
LEMMA RestoredIsPlaced ==
    ASSUME NEW D, Placed(els, D)
    PROVE  /\ PlacedUnsealed(RestoredPage, D, HeldTexts) /\ DOMAIN RestoredPage = DOMAIN els
           /\ \A e \in DOMAIN els : RestoredPage[e] \in [block : Blocks, text : HeldTexts, sealed : BOOLEAN]
           /\ \A e \in DOMAIN els : /\ RestoredPage[e].block = els[e].block
                                    /\ RestoredPage[e].sealed = els[e].sealed
                                    /\ ~els[e].sealed => RestoredPage[e].text = els[e].text
<1>1. \A e \in DOMAIN els : els[e] \in Element /\ Restored(e) \in HeldTexts
                            /\ (~els[e].sealed => Restored(e) = els[e].text)
  BY DEF Placed, Restored, HeldTexts, Element
<1>2. DOMAIN RestoredPage = DOMAIN els
      /\ \A e \in DOMAIN els : RestoredPage[e] = [els[e] EXCEPT !.text = Restored(e)]
  BY DEF RestoredPage
<1>3. \A e \in DOMAIN els : /\ RestoredPage[e].block = els[e].block
                            /\ RestoredPage[e].sealed = els[e].sealed
                            /\ RestoredPage[e].text = Restored(e)
                            /\ RestoredPage[e] \in [block : Blocks, text : HeldTexts, sealed : BOOLEAN]
  BY <1>1, <1>2 DEF Element
<1>4. RestoredPage \in [DOMAIN els -> [block : Blocks, text : HeldTexts, sealed : BOOLEAN]]
  BY <1>3 DEF RestoredPage
<1> QED
  BY <1>1, <1>2, <1>3, <1>4 DEF Placed, PlacedUnsealed, Element

(* SyncPromptFragments blanks what is sealed, keeps its text aside, and    *)
(* leaves a policy exactly where there is something to keep.               *)
LEMMA SyncKeeps ==
    ASSUME NEW elements, NEW X, NEW D, PlacedUnsealed(elements, D, X), apps \subseteq Apps,
           NEW supplied \in {{}, {{}}, {Apps}}, SyncPromptFragments(elements, supplied),
           revision' = revision
    PROVE  Placed(els', D) /\ SealedIsHeld' /\ apps' \subseteq Apps /\ DOMAIN els' = DOMAIN elements
<1>1. els' = Blanked(elements) /\ DOMAIN els' = DOMAIN elements
  BY DEF SyncPromptFragments, Blanked
<1>2. \A e \in DOMAIN els' :
        /\ els'[e] \in Element /\ els'[e].block = elements[e].block
        /\ els'[e].sealed = elements[e].sealed /\ (els'[e].sealed => els'[e].text = "blank")
  <2> SUFFICES ASSUME NEW e \in DOMAIN elements
               PROVE  /\ els'[e] \in Element /\ els'[e].block = elements[e].block
                      /\ els'[e].sealed = elements[e].sealed
                      /\ (els'[e].sealed => els'[e].text = "blank")
    BY <1>1
  <2>1. elements[e] \in [block : Blocks, text : X, sealed : BOOLEAN]
        /\ (~elements[e].sealed => elements[e].text \in Text)
    BY DEF PlacedUnsealed
  <2>2. els'[e] = IF elements[e].sealed THEN [elements[e] EXCEPT !.text = "blank"] ELSE elements[e]
    BY <1>1 DEF Blanked
  <2> QED
    BY <2>1, <2>2 DEF Element, Text
<1>3. els' \in [DOMAIN els' -> Element]
  BY <1>1, <1>2 DEF Blanked
<1>4. Placed(els', D)
  BY <1>1, <1>2, <1>3 DEF Placed, PlacedUnsealed
<1>5. Sealed(els') = Sealed(elements)
  BY <1>1, <1>2 DEF Sealed
<1>6. UNION supplied \subseteq Apps /\ PolicyFor(supplied) \subseteq Apps
  BY DEF PolicyFor
<1>7. CASE Sealed(elements) = {} /\ payload' = <<>> /\ apps' = {}
  BY <1>2, <1>4, <1>5, <1>1, <1>7 DEF SealedIsHeld
<1>8. CASE /\ Sealed(elements) # {} /\ PolicyFor(supplied) # {}
           /\ apps' = PolicyFor(supplied)
           /\ payload' = Payload(revision, elements["prompts"].text, KeyOf(revision))
  <2>1. DOMAIN payload' = {revision}
    BY <1>8 DEF Payload
  <2> QED
    BY <1>2, <1>4, <1>5, <1>1, <1>6, <1>8, <2>1 DEF SealedIsHeld
<1> QED
  BY <1>7, <1>8 DEF SyncPromptFragments

-----------------------------------------------------------------------------
(* The page: its rows, elements, sealed text, policy and preserved data.   *)
PageOK ==
    /\ RowsInOrder(rows) /\ Placed(els, DOMAIN rows)
    /\ SealedIsHeld /\ apps \subseteq Apps /\ PreservedIsOwned

LEMMA PageRestated ==
    PageOK <=> /\ rows \in [DOMAIN rows -> Row] /\ DOMAIN rows \subseteq Blocks
               /\ els \in [DOMAIN els -> Element] /\ DOMAIN els \subseteq Elements
               /\ PageInOrder /\ SealedIsHeld /\ apps \subseteq Apps /\ PreservedIsOwned
<1>1. ASSUME NEW e \in DOMAIN els PROVE e \in In(els[e].block)
  BY DEF In
<1>2. In("core") = {"prompts"} <=>
        "prompts" \in DOMAIN els /\ \A e \in DOMAIN els : els[e].block = "core" <=> e = "prompts"
  BY DEF In
<1>3. Positions(rows) = {rows[b].position : b \in DOMAIN rows}
  BY DEF Positions
<1> QED
  BY <1>2, <1>3 DEF PageOK, RowsInOrder, Placed, PageInOrder

LEMMA SaveCoreKeepsPage ==
    ASSUME PageOK, NEW t,
           \E text \in Texts \cup {"none", "blank"}, sealed \in BOOLEAN,
              supplied \in {{}, {{}}, {Apps}} : SaveCore(t, text, sealed, supplied)
    PROVE  PageOK'
<1> PICK text \in Texts \cup {"none", "blank"}, sealed \in BOOLEAN,
         supplied \in {{}, {{}}, {Apps}} : SaveCore(t, text, sealed, supplied)
  BY Zenon
<1> DEFINE X == HeldTexts
           new == [RestoredPage EXCEPT !["prompts"] = Body("core", text, sealed)]
<1>1. PlacedUnsealed(RestoredPage, DOMAIN rows, X)
  BY RestoredIsPlaced DEF PageOK
<1>2. Body("core", text, sealed) \in [block : Blocks, text : X, sealed : BOOLEAN]
      /\ Body("core", text, sealed).block = "core" /\ Body("core", text, sealed).text \in Text
  BY DEF Body, HeldTexts, Text, Blocks
<1>3. DOMAIN new = DOMAIN RestoredPage
      /\ new \in [DOMAIN new -> [block : Blocks, text : X, sealed : BOOLEAN]]
  BY <1>1, <1>2 DEF PlacedUnsealed
<1>4. \A e \in DOMAIN new : new[e] = IF e = "prompts" THEN Body("core", text, sealed)
                                     ELSE RestoredPage[e]
  BY <1>1 DEF PlacedUnsealed
<1>5. PlacedUnsealed(new, DOMAIN rows, X)
  <2> HIDE DEF new, X
  <2> QED
    BY <1>1, <1>2, <1>3, <1>4 DEF PlacedUnsealed, PageOK, RowsInOrder
<1>6. rows' = rows /\ SyncPromptFragments(new, supplied) /\ revision' = revision
      /\ DropUnownedPreservedData
  BY DEF SaveCore, Saved
<1> HIDE DEF new, X
<1>7. Placed(els', DOMAIN rows) /\ SealedIsHeld' /\ apps' \subseteq Apps
  BY <1>5, <1>6, SyncKeeps DEF PageOK
<1> QED
  BY <1>6, <1>7 DEF PageOK, DropUnownedPreservedData, PreservedIsOwned

LEMMA SaveOptionalKeepsPage ==
    ASSUME PageOK, NEW t, NEW b \in Optional, NEW kept \in SUBSET Elements,
           NEW text \in {"none", "prose"}, SaveOptional(t, b, kept, text)
    PROVE  PageOK'
<1> DEFINE X == HeldTexts
           new == [e \in (DOMAIN els \ In(b)) \cup kept |->
                      IF e \in kept THEN Body(b, text, FALSE) ELSE RestoredPage[e]]
<1>1. PlacedUnsealed(RestoredPage, DOMAIN rows, X) /\ DOMAIN RestoredPage = DOMAIN els
      /\ \A e \in DOMAIN els : RestoredPage[e] \in [block : Blocks, text : X, sealed : BOOLEAN]
  BY RestoredIsPlaced DEF PageOK
<1>2. b \in DOMAIN rows /\ b # "core" /\ b \in Blocks /\ kept \subseteq In(b)
      /\ In(b) \subseteq DOMAIN els /\ "prompts" \notin In(b) /\ "prompts" \in DOMAIN els
  BY DEF SaveOptional, Optional, Blocks, PageOK, Placed, In
<1>3. Body(b, text, FALSE) \in [block : Blocks, text : X, sealed : BOOLEAN]
      /\ Body(b, text, FALSE).block = b /\ Body(b, text, FALSE).text \in Text
  BY <1>2 DEF Body, HeldTexts, Text
<1>4. DOMAIN new = (DOMAIN els \ In(b)) \cup kept
      /\ \A e \in DOMAIN new : new[e] = IF e \in kept THEN Body(b, text, FALSE) ELSE RestoredPage[e]
  OBVIOUS
<1>5. new \in [DOMAIN new -> [block : Blocks, text : X, sealed : BOOLEAN]]
  BY <1>1, <1>2, <1>3
<1>6. PlacedUnsealed(new, DOMAIN rows, X)
  <2> HIDE DEF new, X
  <2> QED
    BY <1>1, <1>2, <1>3, <1>4, <1>5 DEF PlacedUnsealed
<1>7. rows' = rows /\ SyncPromptFragments(new, {}) /\ revision' = revision
      /\ DropUnownedPreservedData
  BY DEF SaveOptional, Saved
<1> HIDE DEF new, X
<1>8. Placed(els', DOMAIN rows) /\ SealedIsHeld' /\ apps' \subseteq Apps
  BY <1>6, <1>7, SyncKeeps DEF PageOK
<1> QED
  BY <1>7, <1>8 DEF PageOK, DropUnownedPreservedData, PreservedIsOwned

LEMMA AddBlockKeepsPage ==
    ASSUME PageOK, NEW t, NEW b \in Optional, AddBlock(t, b)
    PROVE  PageOK'
<1> DEFINE n == Starts(b)
<1>1. n \in Elements /\ n # "prompts" /\ n \notin DOMAIN els /\ b \in Blocks /\ b # "core"
      /\ b \notin DOMAIN rows
  BY DEF AddBlock, Starts, Elements, Optional, Blocks
<1>2. RowsInOrder(rows') /\ DOMAIN rows' = DOMAIN rows \cup {b}
  BY <1>1, AddedInOrder DEF AddBlock, PageOK
<1>3. /\ els' = [e \in DOMAIN els \cup {n} |-> IF e = n THEN Body(b, "none", FALSE) ELSE els[e]]
      /\ UNCHANGED <<payload, apps, preserved, revision>>
  BY DEF AddBlock, Saved
<1>4. Body(b, "none", FALSE) \in Element /\ Body(b, "none", FALSE).block = b
      /\ Body(b, "none", FALSE).sealed = FALSE
  BY <1>1 DEF Body, Element, Text
<1> HIDE DEF n
<1>5. DOMAIN els' = DOMAIN els \cup {n} /\ els'[n] = Body(b, "none", FALSE)
      /\ \A e \in DOMAIN els : els'[e] = els[e]
  BY <1>1, <1>3
<1>6. els' \in [DOMAIN els' -> Element]
  BY <1>3, <1>4 DEF PageOK, Placed
<1>7. Placed(els', DOMAIN rows')
  BY <1>1, <1>2, <1>4, <1>5, <1>6 DEF PageOK, Placed
<1>8. Sealed(els') = Sealed(els)
  BY <1>1, <1>4, <1>5 DEF Sealed
<1>9. SealedIsHeld'
  BY <1>3, <1>4, <1>5, <1>8 DEF PageOK, SealedIsHeld
<1> QED
  BY <1>2, <1>3, <1>5, <1>7, <1>9 DEF PageOK, PreservedIsOwned

LEMMA RemoveBlockKeepsPage ==
    ASSUME PageOK, NEW t, NEW b \in Optional, RemoveBlock(t, b)
    PROVE  PageOK'
<1> DEFINE X == HeldTexts
           new == [e \in DOMAIN els \ In(b) |-> RestoredPage[e]]
<1>1. PlacedUnsealed(RestoredPage, DOMAIN rows, X) /\ DOMAIN RestoredPage = DOMAIN els
      /\ \A e \in DOMAIN els : /\ RestoredPage[e] \in [block : Blocks, text : X, sealed : BOOLEAN]
                               /\ RestoredPage[e].block = els[e].block
  BY RestoredIsPlaced DEF PageOK
<1>2. RowsInOrder(rows') /\ DOMAIN rows' = DOMAIN rows \ {b} /\ b # "core"
  BY ClosedInOrder DEF RemoveBlock, PageOK, ClosePositions, Optional
<1>3. DOMAIN new = DOMAIN els \ In(b) /\ \A e \in DOMAIN new : new[e] = RestoredPage[e]
  OBVIOUS
<1>4. new \in [DOMAIN new -> [block : Blocks, text : X, sealed : BOOLEAN]]
  BY <1>1
<1>5. \A e \in DOMAIN els \ In(b) : els[e].block # b
  BY DEF In
<1>6. "prompts" \in DOMAIN new
  BY <1>2, <1>3 DEF In, PageOK, Placed
<1>7. PlacedUnsealed(new, DOMAIN rows', X)
  <2> HIDE DEF new, X
  <2> QED
    BY <1>1, <1>2, <1>3, <1>4, <1>5, <1>6 DEF PlacedUnsealed
<1>8. SyncPromptFragments(new, {}) /\ revision' = revision /\ DropUnownedPreservedData
  BY DEF RemoveBlock, Saved
<1> HIDE DEF new, X
<1>9. Placed(els', DOMAIN rows') /\ SealedIsHeld' /\ apps' \subseteq Apps
  BY <1>7, <1>8, SyncKeeps DEF PageOK
<1> QED
  BY <1>2, <1>8, <1>9 DEF PageOK, DropUnownedPreservedData, PreservedIsOwned

LEMMA MoveBlockContentKeepsPage ==
    ASSUME PageOK, NEW t, MoveBlockContent(t)
    PROVE  PageOK'
<1> DEFINE X == HeldTexts
           new == [e \in DOMAIN els |->
                     IF e \in In("nudges") THEN [els[e] EXCEPT !.block = "custom"]
                     ELSE RestoredPage[e]]
           moved(e) == [els[e] EXCEPT !.block = "custom"]
<1>1. PlacedUnsealed(RestoredPage, DOMAIN rows, X) /\ DOMAIN RestoredPage = DOMAIN els
      /\ \A e \in DOMAIN els : /\ RestoredPage[e] \in [block : Blocks, text : X, sealed : BOOLEAN]
                               /\ RestoredPage[e].block = els[e].block
  BY RestoredIsPlaced DEF PageOK
<1>2. RowsInOrder(rows') /\ DOMAIN rows' = DOMAIN rows \ {"nudges"} /\ "custom" \in DOMAIN rows'
  BY ClosedInOrder DEF MoveBlockContent, PageOK, ClosePositions, Optional
<1>3. \A e \in DOMAIN els : /\ moved(e) \in [block : Blocks, text : X, sealed : BOOLEAN]
                            /\ moved(e).block = "custom" /\ moved(e).text \in Text
  BY DEF PageOK, Placed, Element, HeldTexts, Blocks
<1>4. DOMAIN new = DOMAIN els
      /\ \A e \in DOMAIN new : new[e] = IF e \in In("nudges") THEN moved(e) ELSE RestoredPage[e]
  OBVIOUS
<1>5. new \in [DOMAIN new -> [block : Blocks, text : X, sealed : BOOLEAN]]
  BY <1>1, <1>3
<1>6. \A e \in DOMAIN els : e \in In("nudges") <=> els[e].block = "nudges"
  BY DEF In
<1>7. \A e \in DOMAIN els : els[e].block = "core" <=> e = "prompts"
  BY DEF PageOK, Placed
<1> HIDE DEF new, X, moved
<1>8. PlacedUnsealed(new, DOMAIN rows', X)
  BY <1>1, <1>2, <1>3, <1>4, <1>5, <1>6, <1>7 DEF PlacedUnsealed
<1>9. SyncPromptFragments(new, {}) /\ revision' = revision /\ DropUnownedPreservedData
  BY DEF MoveBlockContent, Saved, new
<1>10. Placed(els', DOMAIN rows') /\ SealedIsHeld' /\ apps' \subseteq Apps
  BY <1>8, <1>9, SyncKeeps DEF PageOK
<1> QED
  BY <1>2, <1>9, <1>10 DEF PageOK, DropUnownedPreservedData, PreservedIsOwned

LEMMA ArrangeBlocksKeepsPage ==
    ASSUME PageOK, NEW t, NEW order \in [DOMAIN rows -> 0 .. Cardinality(DOMAIN rows) - 1],
           NEW hidden \in SUBSET Optional, ArrangeBlocks(t, order, hidden)
    PROVE  PageOK'
<1>1. RowsInOrder(rows') /\ DOMAIN rows' = DOMAIN rows
  BY ArrangedInOrder DEF ArrangeBlocks, Arranged, PageOK
<1>2. UNCHANGED <<els, payload, apps, preserved, revision>>
  BY DEF ArrangeBlocks, Arranged
<1> QED
  BY <1>1, <1>2 DEF PageOK, SealedIsHeld, PreservedIsOwned, Sealed

(* The page Place makes of a file, whatever the file. *)
LEMMA FilePagePlaced ==
    ASSUME NEW f \in Files
    PROVE  /\ RowsInOrder(FileRows(f)) /\ Placed(FilePage(f), DOMAIN FileRows(f))
           /\ f.leftovers \subseteq {"asset"} \cup DOMAIN FilePage(f)
           /\ \A e \in DOMAIN FilePage(f) : FilePage(f)[e].sealed => FilePage(f)[e].text = "blank"
           /\ Sealed(FilePage(f)) = IF f.sealed THEN {"prompts"} ELSE {}
<1> DEFINE r == FileRows(f)  p == FilePage(f)
<1>1. f \in File /\ ("nudge" \in f.leftovers => f.nudges)
  BY LifeAssumption
<1>2. /\ DOMAIN r = IF f.nudges THEN {"core", "nudges"} ELSE {"core"}
      /\ r["core"] = [position |-> 0, hidden |-> FALSE]
      /\ f.nudges => r["nudges"] = [position |-> 1, hidden |-> FALSE]
  BY DEF FileRows
<1>3. r \in [DOMAIN r -> Row]
  BY DEF FileRows, Row
<1>4. /\ DOMAIN p = IF f.nudges THEN {"prompts", "nudge"} ELSE {"prompts"}
      /\ p["prompts"] = Body("core", IF f.sealed THEN "blank" ELSE f.text, f.sealed)
      /\ f.nudges => p["nudge"] = Body("nudges", "prose", FALSE)
  BY DEF FilePage
<1>5. /\ Body("core", IF f.sealed THEN "blank" ELSE f.text, f.sealed) \in Element
      /\ Body("nudges", "prose", FALSE) \in Element
  BY <1>1 DEF Body, Element, File, Text, Blocks
<1>6. p \in [DOMAIN p -> Element]
  BY <1>5 DEF FilePage
<1> HIDE DEF r, p
<1>7. RowsInOrder(r)
  <2>1. CASE f.nudges
    <3>1. DOMAIN r \subseteq Blocks /\ "core" \in DOMAIN r /\ Cardinality(DOMAIN r) = 2
      <4>1. DOMAIN r = {"core", "nudges"} /\ DOMAIN r # {"core"} /\ DOMAIN r # Blocks
        BY <1>2, <2>1 DEF Blocks
      <4> QED
        BY <4>1, PageSizes DEF Blocks
    <3>2. Positions(r) = {0, 1} /\ 0 .. 1 = {0, 1}
      <4>1. Positions(r) = {r["core"].position, r["nudges"].position}
        BY <1>2, <2>1 DEF Positions
      <4> QED
        BY <1>2, <2>1, <4>1
    <3> QED
      BY <1>3, <3>1, <3>2 DEF RowsInOrder
  <2>2. CASE ~f.nudges
    <3>1. DOMAIN r = {"core"} /\ DOMAIN r \subseteq Blocks /\ Cardinality(DOMAIN r) = 1
      BY <1>2, <2>2, FS_Singleton DEF Blocks
    <3>2. Positions(r) = {0} /\ 0 .. 0 = {0}
      <4>1. Positions(r) = {r["core"].position}
        BY <3>1 DEF Positions
      <4> QED
        BY <1>2, <4>1
    <3> QED
      BY <1>3, <3>1, <3>2 DEF RowsInOrder
  <2> QED
    BY <2>1, <2>2
<1>8. Placed(p, DOMAIN r)
  BY <1>2, <1>4, <1>6 DEF Placed, Body, Elements
<1>9. f.leftovers \subseteq {"asset"} \cup DOMAIN p
  BY <1>1, <1>4 DEF File
<1>10. \A e \in DOMAIN p : p[e].sealed => p[e].text = "blank"
  BY <1>4 DEF Body
<1>11. Sealed(p) = IF f.sealed THEN {"prompts"} ELSE {}
  BY <1>1, <1>4 DEF Body, Sealed, File
<1> QED
  BY <1>7, <1>8, <1>9, <1>10, <1>11 DEF r, p

LEMMA ReplacesPageKeepsPage ==
    ASSUME PageOK, NEW op \in [file : Files, n : Nat], ReplacesPage(op)
    PROVE  PageOK'
<1> DEFINE f == op.file
<1>1. f \in Files
  OBVIOUS
<1>2. /\ rows' = FileRows(f) /\ els' = FilePage(f) /\ preserved' = f.leftovers
      /\ IF f.sealed THEN ImportPromptFragments(f) ELSE payload' = <<>> /\ apps' = {}
  BY DEF ReplacesPage
<1> HIDE DEF f
<1>3. RowsInOrder(rows') /\ Placed(els', DOMAIN rows') /\ PreservedIsOwned'
  BY <1>1, <1>2, FilePagePlaced DEF PreservedIsOwned
<1>4. CASE f.sealed
  <2>1. DOMAIN payload' = {revision'} /\ apps' # {} /\ apps' \subseteq Apps
    BY <1>2, <1>4 DEF ImportPromptFragments, Payload, Apps, PageOK
  <2>2. Sealed(els)' # {} /\ \A e \in DOMAIN els' : els'[e].sealed => els'[e].text = "blank"
    BY <1>1, <1>2, <1>4, FilePagePlaced DEF Sealed
  <2> QED
    BY <1>3, <2>1, <2>2 DEF PageOK, SealedIsHeld
<1>5. CASE ~f.sealed
  <2>1. DOMAIN payload' = {} /\ apps' = {}
    BY <1>2, <1>5
  <2>2. Sealed(els)' = {} /\ \A e \in DOMAIN els' : els'[e].sealed => els'[e].text = "blank"
    BY <1>1, <1>2, <1>5, FilePagePlaced DEF Sealed
  <2> QED
    BY <1>3, <2>1, <2>2 DEF PageOK, SealedIsHeld
<1> QED
  BY <1>4, <1>5

(* Every edit leaves the page sound.                                       *)
LEMMA EditKeepsPage ==
    ASSUME PageOK, NEW t \in Tabs, Edit(t)
    PROVE  PageOK'
<1>1. ASSUME UNCHANGED <<page, revision>> PROVE PageOK'
  BY <1>1 DEF page, PageOK, SealedIsHeld, PreservedIsOwned, Sealed
<1>2. CASE \E owner \in preserved : DeletePreservedNamespace(t, owner)
  BY <1>2 DEF DeletePreservedNamespace, PageOK, SealedIsHeld, PreservedIsOwned, Sealed
<1>3. CASE \/ \E name, rated \in BOOLEAN : SetIdentity(t, name, rated)
           \/ Publish(t) \/ Rollback(t)
           \/ \E role \in {"avatar", "alternate"} : AddMedia(t, role)
           \/ \E f \in Files : AcceptRevision(t, f)
  BY <1>1, <1>3 DEF SetIdentity, Publish, Rollback, AddMedia, AcceptRevision
<1>4. CASE \E text \in Texts \cup {"none", "blank"}, sealed \in BOOLEAN,
             supplied \in {{}, {{}}, {Apps}} : SaveCore(t, text, sealed, supplied)
  BY <1>4, SaveCoreKeepsPage, Zenon
<1>5. CASE \E b \in Optional, kept \in SUBSET Elements, text \in {"none", "prose"} :
             SaveOptional(t, b, kept, text)
  BY <1>5, SaveOptionalKeepsPage
<1>6. CASE \E b \in Optional : AddBlock(t, b) \/ RemoveBlock(t, b)
  BY <1>6, AddBlockKeepsPage, RemoveBlockKeepsPage
<1>7. CASE MoveBlockContent(t)
  BY <1>7, MoveBlockContentKeepsPage
<1>8. CASE \E order \in [DOMAIN rows -> 0 .. Cardinality(DOMAIN rows) - 1],
              hidden \in SUBSET Optional : ArrangeBlocks(t, order, hidden)
  BY <1>8, ArrangeBlocksKeepsPage
<1> QED
  BY <1>2, <1>3, <1>4, <1>5, <1>6, <1>7, <1>8 DEF Edit

-----------------------------------------------------------------------------
(* What an edit does besides: it ends its transaction, it projects what it *)
(* wrote of the page, and it moves the generation by its own first digest  *)
(* unless it wrote nothing the digest covers.                              *)
Digested == <<header.name, revision, cover, preserved, els, payload>>

Projects == \/ WriteProjections
            \/ WriteFacetProjection /\ els' = els
            \/ UNCHANGED <<rows, els, proj>>

HeaderType == [name : BOOLEAN, rated : BOOLEAN, published : BOOLEAN, listed : BOOLEAN,
               withheld : BOOLEAN, deleted : {"no", "recoverable", "expired"}]

LEMMA EditEffects ==
    ASSUME TypeOK, NEW t \in Tabs, Edit(t)
    PROVE  /\ \E step \in {"idle", "saved"} : \E view : Ends(t, step, view)
           /\ Projects
           /\ \/ MoveContentGeneration(tab[t].before)
              \/ generation' = generation /\ UNCHANGED Digested
           /\ header' \in HeaderType /\ revision' = revision
           /\ ops' \subseteq [file : Files, n : Nat] /\ accepted' \in Nat
           /\ UNCHANGED <<edits, contract>>
<1> USE DEF Projects, Digested, HeaderType
<1>0. header \in HeaderType /\ ops \subseteq [file : Files, n : Nat] /\ accepted \in Nat
  BY DEF TypeOK
<1> DEFINE Goal == /\ \E step \in {"idle", "saved"} : \E view : Ends(t, step, view)
           /\ Projects
           /\ \/ MoveContentGeneration(tab[t].before)
              \/ generation' = generation /\ UNCHANGED Digested
           /\ header' \in HeaderType /\ revision' = revision
           /\ ops' \subseteq [file : Files, n : Nat] /\ accepted' \in Nat
           /\ UNCHANGED <<edits, contract>>
<1> SUFFICES Goal
  OBVIOUS
<1>1. ASSUME Saved(t), NEW step \in {"idle", "saved"}, NEW view, Ends(t, step, view)
      PROVE  Goal
  BY <1>0, <1>1 DEF Saved, counters
<1>2. ASSUME NEW text \in Texts \cup {"none", "blank"}, NEW sealed \in BOOLEAN,
             NEW supplied \in {{}, {{}}, {Apps}}, SaveCore(t, text, sealed, supplied)
      PROVE  Goal
  BY <1>1, <1>2 DEF SaveCore
<1>3. ASSUME NEW b, NEW kept, NEW text, SaveOptional(t, b, kept, text) PROVE Goal
  BY <1>1, <1>3 DEF SaveOptional
<1>4. ASSUME NEW b, AddBlock(t, b) \/ RemoveBlock(t, b) PROVE Goal
  BY <1>1, <1>4 DEF AddBlock, RemoveBlock
<1>5. CASE MoveBlockContent(t)
  BY <1>1, <1>5 DEF MoveBlockContent
<1>6. ASSUME NEW order, NEW hidden, ArrangeBlocks(t, order, hidden) PROVE Goal
  BY <1>0, <1>6 DEF ArrangeBlocks, Arranged, counters
<1>7. ASSUME NEW name \in BOOLEAN, NEW rated \in BOOLEAN, SetIdentity(t, name, rated) PROVE Goal
  <2>1. header' \in HeaderType
    BY <1>0, <1>7 DEF SetIdentity
  <2> QED
    BY <1>0, <1>7, <2>1 DEF SetIdentity, counters, page
<1>8. CASE Publish(t)
  <2>1. header' \in HeaderType /\ header'.name = header.name
    BY <1>0, <1>8 DEF Publish
  <2> QED
    BY <1>0, <1>8, <2>1 DEF Publish, counters, page
<1>9. ASSUME NEW owner, DeletePreservedNamespace(t, owner) PROVE Goal
  BY <1>0, <1>9 DEF DeletePreservedNamespace, counters
<1>10. ASSUME NEW role, AddMedia(t, role) PROVE Goal
  BY <1>0, <1>10 DEF AddMedia, counters, page
<1>11. ASSUME NEW f \in Files, AcceptRevision(t, f) PROVE Goal
  BY <1>0, <1>11 DEF AcceptRevision, page
<1>12. CASE Rollback(t)
  BY <1>0, <1>12 DEF Rollback, counters, page
<1> HIDE DEF Goal
<1>13. CASE \E text \in Texts \cup {"none", "blank"}, sealed \in BOOLEAN,
             supplied \in {{}, {{}}, {Apps}} : SaveCore(t, text, sealed, supplied)
  BY <1>2, <1>13, Zenon
<1>14. CASE \E name, rated \in BOOLEAN : SetIdentity(t, name, rated)
  BY <1>7, <1>14, Zenon
<1>15. CASE \E order \in [DOMAIN rows -> 0 .. Cardinality(DOMAIN rows) - 1],
              hidden \in SUBSET Optional : ArrangeBlocks(t, order, hidden)
  BY <1>6, <1>15, Zenon
<1>16. CASE \E b \in Optional, kept \in SUBSET Elements, text \in {"none", "prose"} :
             SaveOptional(t, b, kept, text)
  BY <1>3, <1>16, Zenon
<1> QED
  BY <1>4, <1>5, <1>8, <1>9, <1>10, <1>11, <1>12, <1>13, <1>14, <1>15, <1>16 DEF Edit

-----------------------------------------------------------------------------
(* The rest of the state: everything but the page.                         *)
Around ==
    /\ header \in HeaderType
    /\ generation \in Nat /\ revision \in Nat
    /\ ops \subseteq [file : Files, n : Nat]
    /\ edits \in Nat /\ accepted \in Nat /\ contract \in Nat
    /\ lock \in Tabs \cup {Free}
    /\ DOMAIN tab = Tabs /\ \A t \in Tabs : tab[t].step \in {"idle", "editing", "saved"}

(* The parts of the state the proofs take one at a time.                   *)
LEMMA Restated ==
    LifeInv <=> PageOK /\ Around /\ ProjectionsFollowPage /\ Shapes /\ EditHoldsRow
<1>1. TypeOK <=> /\ rows \in [DOMAIN rows -> Row] /\ DOMAIN rows \subseteq Blocks
                 /\ els \in [DOMAIN els -> Element] /\ DOMAIN els \subseteq Elements
                 /\ apps \subseteq Apps /\ preserved \subseteq {"asset"} \cup Elements
                 /\ header \in HeaderType /\ generation \in Nat /\ revision \in Nat
                 /\ ops \subseteq [file : Files, n : Nat]
                 /\ edits \in Nat /\ accepted \in Nat /\ contract \in Nat
                 /\ lock \in Tabs \cup {Free}
                 /\ DOMAIN tab = Tabs
                 /\ \A t \in Tabs : tab[t].step \in {"idle", "editing", "saved"}
  BY DEF TypeOK, Row, Element, Text, HeaderType
<1>2. PreservedIsOwned /\ DOMAIN els \subseteq Elements => preserved \subseteq {"asset"} \cup Elements
  BY DEF PreservedIsOwned
<1> QED
  BY <1>1, <1>2, PageRestated DEF LifeInv, BlocksSound, Around

(* At most one edit is under way, and none while the row is free.          *)
LEMMA OneEdit ==
    ASSUME EditHoldsRow, NEW t \in Tabs
    PROVE  /\ lock = Free => tab[t].step # "editing"
           /\ \A u \in Tabs : tab[t].step = "editing" /\ u # t => tab[u].step # "editing"
BY LifeAssumption DEF EditHoldsRow

LEMMA SameFingerprint ==
    ASSUME UNCHANGED Digested
    PROVE  Fingerprint' = Fingerprint
BY DEF Digested, Fingerprint, Restored

LEMMA EditKeepsTabs ==
    ASSUME Around, Shapes, EditHoldsRow, NEW t \in Tabs, tab[t].step = "editing",
           NEW step \in {"idle", "saved"}, NEW view, Ends(t, step, view)
    PROVE  /\ lock' = Free /\ DOMAIN tab' = Tabs
           /\ \A u \in Tabs : /\ tab'[u].step \in {"idle", "saved"}
                              /\ tab'[u] = [step |-> tab'[u].step, before |-> tab'[u].before,
                                            view |-> tab'[u].view]
<1>1. tab'[t] = [step |-> step, before |-> NoDigest, view |-> view]
      /\ \A u \in Tabs \ {t} : tab'[u] = tab[u]
  BY DEF Ends, Around
<1>2. \A u \in Tabs \ {t} : tab[u].step \in {"idle", "saved"}
  BY OneEdit DEF Around
<1>3. lock' = Free /\ DOMAIN tab' = Tabs
  BY DEF Ends, Around
<1>4. ASSUME NEW u \in Tabs \ {t}
      PROVE /\ tab'[u].step \in {"idle", "saved"}
            /\ tab'[u] = [step |-> tab'[u].step, before |-> tab'[u].before, view |-> tab'[u].view]
  BY <1>1, <1>2 DEF Shapes, Around
<1> QED
  BY <1>1, <1>3, <1>4

LEMMA OpenPageKeeps ==
    ASSUME Around, Shapes, EditHoldsRow, NEW t \in Tabs, OpenPage(t)
    PROVE  Around' /\ Shapes' /\ EditHoldsRow'
<1>1. DOMAIN tab' = Tabs /\ \A u \in Tabs \ {t} : tab'[u] = tab[u]
  BY DEF OpenPage, Around
<1>2. tab'[t] = [step |-> tab[t].step, before |-> tab[t].before, view |-> OwnerView]
  BY DEF OpenPage, Around, Shapes
<1>3. UNCHANGED Digested /\ Editable' = Editable
      /\ UNCHANGED <<header, generation, revision, ops, edits, accepted, contract, lock, proj>>
  BY DEF OpenPage, Digested, page, counters, Editable, Live
<1>4. Around' /\ Shapes'
  BY <1>1, <1>2, <1>3 DEF Around, Shapes
<1>5. EditHoldsRow'
  BY <1>1, <1>2, <1>3, SameFingerprint DEF EditHoldsRow
<1> QED
  BY <1>4, <1>5

LEMMA AnswerSaveKeeps ==
    ASSUME Around, Shapes, EditHoldsRow, NEW t \in Tabs, AnswerSave(t)
    PROVE  Around' /\ Shapes' /\ EditHoldsRow'
<1>1. DOMAIN tab' = Tabs /\ \A u \in Tabs \ {t} : tab'[u] = tab[u]
  BY DEF AnswerSave, Around
<1>2. \E v : tab'[t] = [step |-> "idle", before |-> tab[t].before, view |-> v]
  <2>1. PICK s, b, w : tab[t] = [step |-> s, before |-> b, view |-> w]
    BY DEF Shapes
  <2>2. CASE tab' = [tab EXCEPT ![t].step = "idle", ![t].view.text = payload[tab[t].view.ids].text]
    <3>1. tab'[t] = [tab[t] EXCEPT !.step = "idle", !.view.text = payload[tab[t].view.ids].text]
      BY <2>2 DEF Around
    <3> QED
      BY <2>1, <3>1
  <2>3. CASE tab' = [tab EXCEPT ![t].step = "idle", ![t].view.ids = 0]
    <3>1. tab'[t] = [tab[t] EXCEPT !.step = "idle", !.view.ids = 0]
      BY <2>3 DEF Around
    <3> QED
      BY <2>1, <3>1
  <2> QED
    BY <2>2, <2>3 DEF AnswerSave
<1>3. UNCHANGED Digested /\ Editable' = Editable
      /\ UNCHANGED <<header, generation, revision, ops, edits, accepted, contract, lock, proj>>
  BY DEF AnswerSave, Digested, page, counters, Editable, Live
<1>4. Around' /\ Shapes'
  BY <1>1, <1>2, <1>3 DEF Around, Shapes
<1>5. EditHoldsRow'
  BY <1>1, <1>2, <1>3, SameFingerprint DEF EditHoldsRow
<1> QED
  BY <1>4, <1>5

LEMMA LockKeeps ==
    ASSUME Around, Shapes, EditHoldsRow, NEW t \in Tabs, LockEditableAsset(t)
    PROVE  Around' /\ Shapes' /\ EditHoldsRow'
<1>1. DOMAIN tab' = Tabs /\ \A u \in Tabs \ {t} : tab'[u] = tab[u]
  BY DEF LockEditableAsset, Locks, Around
<1>2. tab'[t] = [step |-> "editing", before |-> {Fingerprint}, view |-> tab[t].view]
  <2>1. tab'[t] = [tab[t] EXCEPT !.step = "editing", !.before = {Fingerprint}]
    BY DEF LockEditableAsset, Locks, Around
  <2>2. PICK s, b, v : tab[t] = [step |-> s, before |-> b, view |-> v]
    BY DEF Shapes
  <2> QED
    BY <2>1, <2>2
<1>3. /\ UNCHANGED Digested /\ Editable /\ Editable' /\ lock = Free /\ lock' = t
      /\ edits' = edits + 1
      /\ UNCHANGED <<header, generation, revision, ops, accepted, contract, proj>>
  BY DEF LockEditableAsset, Locks, Digested, page, Editable, Live
<1>4. Around' /\ Shapes'
  BY <1>1, <1>2, <1>3 DEF Around, Shapes
<1>5. EditHoldsRow'
  BY <1>1, <1>2, <1>3, SameFingerprint, OneEdit DEF EditHoldsRow
<1> QED
  BY <1>4, <1>5

LEMMA EditKeeps ==
    ASSUME LifeInv, NEW t \in Tabs, Edit(t)
    PROVE  LifeInv'
<1> USE Restated
<1>1. PageOK'
  BY EditKeepsPage
<1>2. TypeOK
  BY DEF LifeInv, BlocksSound
<1>3. PICK step \in {"idle", "saved"} : \E view : Ends(t, step, view)
  BY <1>2, EditEffects
<1>4. tab[t].step = "editing"
  BY DEF Edit
<1>5. /\ lock' = Free /\ DOMAIN tab' = Tabs
      /\ \A u \in Tabs : /\ tab'[u].step \in {"idle", "saved"}
                         /\ tab'[u] = [step |-> tab'[u].step, before |-> tab'[u].before,
                                       view |-> tab'[u].view]
  BY <1>3, <1>4, EditKeepsTabs
<1>6. generation' \in Nat
  BY <1>2, EditEffects DEF TypeOK, MoveContentGeneration
<1>7. Around'
  BY <1>2, <1>5, <1>6, EditEffects DEF Around
<1>8. Projects
  BY <1>2, EditEffects
<1>9. ProjectionsFollowPage' /\ proj' = [export |-> proj'.export, facets |-> proj'.facets]
  <2>1. CASE WriteProjections
    BY <2>1 DEF WriteProjections, ProjectionsFollowPage, ExportOf, FacetsOf
  <2>2. CASE WriteFacetProjection /\ els' = els
    <3>1. proj' = [export |-> proj.export, facets |-> FacetsOf(contract, rows', els')]
      BY <2>2 DEF WriteFacetProjection, Shapes
    <3> QED
      BY <2>2, <3>1 DEF ProjectionsFollowPage, ExportOf, FacetsOf
  <2>3. CASE UNCHANGED <<rows, els, proj>>
    BY <2>3 DEF ProjectionsFollowPage, ExportOf, FacetsOf, Shapes
  <2> QED
    BY <1>8, <2>1, <2>2, <2>3 DEF Projects
<1>10. Shapes' /\ EditHoldsRow'
  BY <1>5, <1>9 DEF Shapes, EditHoldsRow
<1>11. (LifeInv <=> PageOK /\ Around /\ ProjectionsFollowPage /\ Shapes /\ EditHoldsRow)'
  BY Restated, PTL
<1> QED
  BY <1>1, <1>7, <1>9, <1>10, <1>11

LEMMA IngestRevisionKeeps ==
    ASSUME LifeInv, NEW op \in ops, IngestRevision(op)
    PROVE  LifeInv'
<1>1. PageOK /\ Around /\ Shapes /\ EditHoldsRow
  BY Restated
<1>2. op \in [file : Files, n : Nat]
  BY <1>1 DEF Around
<1>3. PageOK'
  BY <1>1, <1>2, ReplacesPageKeepsPage DEF IngestRevision
<1>4. /\ lock = Free /\ ops' \subseteq ops /\ revision' = revision + 1 /\ WriteProjections
      /\ UNCHANGED <<header, lock, tab, edits, accepted, contract>>
      /\ generation' \in {generation, generation + 1}
  BY <1>1 DEF IngestRevision, ReplacesPage, counters, MoveContentGeneration, Around
<1>5. Around'
  BY <1>1, <1>4 DEF Around
<1>6. ProjectionsFollowPage' /\ proj' = [export |-> proj'.export, facets |-> proj'.facets]
  BY <1>4 DEF WriteProjections, ProjectionsFollowPage, ExportOf, FacetsOf
<1>7. Shapes'
  BY <1>1, <1>4, <1>6 DEF Shapes
<1>8. EditHoldsRow'
  BY <1>1, <1>4, OneEdit DEF EditHoldsRow
<1>9. (LifeInv <=> PageOK /\ Around /\ ProjectionsFollowPage /\ Shapes /\ EditHoldsRow)'
  BY Restated, PTL
<1> QED
  BY <1>3, <1>5, <1>6, <1>7, <1>8, <1>9

(* A step that leaves the page, its projections and its generation alone.  *)
LEMMA QuietKeeps ==
    ASSUME LifeInv, UNCHANGED <<page, revision, proj>>, Around' /\ Shapes' /\ EditHoldsRow'
    PROVE  LifeInv'
<1>1. PageOK /\ ProjectionsFollowPage
  BY Restated
<1>2. PageOK'
  BY <1>1 DEF page, PageOK, SealedIsHeld, PreservedIsOwned, Sealed
<1>3. ProjectionsFollowPage'
  BY <1>1 DEF page, ProjectionsFollowPage, ExportOf, FacetsOf
<1>4. (LifeInv <=> PageOK /\ Around /\ ProjectionsFollowPage /\ Shapes /\ EditHoldsRow)'
  BY Restated, PTL
<1> QED
  BY <1>2, <1>3, <1>4

LEMMA StatementKeeps ==
    ASSUME LifeInv, NEW new \in HeaderType, Statement(new)
    PROVE  LifeInv'
<1>1. Around /\ Shapes /\ EditHoldsRow
  BY Restated
<1>2. /\ lock = Free /\ header' = new
      /\ UNCHANGED <<generation, page, proj, cover, revision, ops, lock, tab, edits, accepted,
                     contract>>
  BY DEF Statement, counters
<1>3. Around' /\ Shapes'
  BY <1>1, <1>2 DEF Around, Shapes
<1>4. EditHoldsRow'
  BY <1>1, <1>2, OneEdit DEF EditHoldsRow
<1> QED
  BY <1>2, <1>3, <1>4, QuietKeeps

LEMMA DeployKeeps ==
    ASSUME LifeInv, Deploy
    PROVE  LifeInv'
<1>1. PageOK /\ Around /\ Shapes /\ ProjectionsFollowPage
  BY Restated
<1>2. /\ contract' = contract + 1 /\ lock' = Free
      /\ UNCHANGED <<header, generation, page, cover, revision, ops, edits, accepted>>
  BY DEF Deploy
<1>3. DOMAIN tab' = Tabs
      /\ \A t \in Tabs : tab'[t] = [step |-> "idle", before |-> NoDigest, view |-> tab[t].view]
  <2> SUFFICES ASSUME NEW t \in Tabs
               PROVE  tab'[t] = [step |-> "idle", before |-> NoDigest, view |-> tab[t].view]
    BY DEF Deploy
  <2>1. tab'[t] = [tab[t] EXCEPT !.step = "idle", !.before = NoDigest]
    BY DEF Deploy
  <2>2. PICK s, b, v : tab[t] = [step |-> s, before |-> b, view |-> v]
    BY <1>1 DEF Shapes
  <2> QED
    BY <2>1, <2>2
<1>4. PageOK'
  BY <1>1, <1>2 DEF page, PageOK, SealedIsHeld, PreservedIsOwned, Sealed
<1>5. Around'
  BY <1>1, <1>2, <1>3 DEF Around
<1>6. ProjectionsFollowPage' /\ proj' = [export |-> proj'.export, facets |-> proj'.facets]
  <2>1. CASE Live
    <3>1. proj' = [export |-> ExportOf(contract', els), facets |-> FacetsOf(contract', rows, els)]
      BY <2>1 DEF Deploy
    <3> QED
      BY <1>2, <3>1 DEF page, ProjectionsFollowPage, ExportOf, FacetsOf
  <2>2. CASE ~Live
    <3>1. proj' = proj
      BY <2>2 DEF Deploy
    <3> QED
      BY <1>1, <1>2, <3>1 DEF page, ProjectionsFollowPage, ExportOf, FacetsOf, Shapes
  <2> QED
    BY <2>1, <2>2
<1>7. Shapes' /\ EditHoldsRow'
  BY <1>3, <1>6 DEF Shapes, EditHoldsRow
<1>8. (LifeInv <=> PageOK /\ Around /\ ProjectionsFollowPage /\ Shapes /\ EditHoldsRow)'
  BY Restated, PTL
<1> QED
  BY <1>4, <1>5, <1>6, <1>7, <1>8

-----------------------------------------------------------------------------
LEMMA StepKeeps == LifeInv /\ [Next]_vars => LifeInv'
<1> SUFFICES ASSUME LifeInv, [Next]_vars PROVE LifeInv'
  OBVIOUS
<1>0. Around /\ Shapes /\ EditHoldsRow
  BY Restated
<1>1. ASSUME NEW t \in Tabs, OpenPage(t) PROVE LifeInv'
  BY <1>0, <1>1, OpenPageKeeps, QuietKeeps DEF OpenPage
<1>2. ASSUME NEW t \in Tabs, LockEditableAsset(t) PROVE LifeInv'
  BY <1>0, <1>2, LockKeeps, QuietKeeps DEF LockEditableAsset, Locks
<1>3. ASSUME NEW t \in Tabs, Edit(t) PROVE LifeInv'
  BY <1>3, EditKeeps
<1>4. ASSUME NEW t \in Tabs, AnswerSave(t) PROVE LifeInv'
  BY <1>0, <1>4, AnswerSaveKeeps, QuietKeeps DEF AnswerSave
<1>5. ASSUME NEW op \in ops, IngestRevision(op) PROVE LifeInv'
  BY <1>5, IngestRevisionKeeps
<1>6. ASSUME NEW op \in ops, IngestFails(op) PROVE LifeInv'
  <2>1. /\ ops' \subseteq ops
        /\ UNCHANGED <<header, generation, page, cover, proj, revision, lock, tab, edits, accepted,
                       contract>>
    BY <1>6 DEF IngestFails, counters
  <2>2. UNCHANGED Digested /\ Editable' = Editable
    BY <2>1 DEF Digested, page, Editable, Live
  <2>3. Around' /\ Shapes' /\ EditHoldsRow'
    BY <1>0, <2>1, <2>2, SameFingerprint DEF Around, Shapes, EditHoldsRow
  <2> QED
    BY <2>1, <2>3, QuietKeeps
<1>7. CASE Withhold \/ ClearWithhold \/ Delete \/ WindowEnds \/ Restore
  <2>1. /\ [header EXCEPT !.withheld = TRUE] \in HeaderType
        /\ [header EXCEPT !.withheld = FALSE] \in HeaderType
        /\ [header EXCEPT !.deleted = "recoverable"] \in HeaderType
        /\ [header EXCEPT !.deleted = "expired"] \in HeaderType
        /\ [header EXCEPT !.deleted = "no"] \in HeaderType
    BY <1>0 DEF Around, HeaderType
  <2> QED
    BY <1>7, <2>1, StatementKeeps DEF Withhold, ClearWithhold, Delete, WindowEnds, Restore
<1>8. CASE Deploy
  BY <1>8, DeployKeeps
<1>9. ASSUME NEW listed \in BOOLEAN, SetDiscovery(listed) PROVE LifeInv'
  <2>1. [header EXCEPT !.listed = listed] \in HeaderType
    BY <1>0 DEF Around, HeaderType
  <2> QED
    BY <1>9, <2>1, StatementKeeps DEF SetDiscovery
<1>10. CASE \E listed \in BOOLEAN : SetDiscovery(listed)
  BY <1>9, <1>10, Zenon
<1>11. CASE UNCHANGED vars
  <2>1. UNCHANGED <<header, generation, page, cover, proj, revision, ops, lock, tab, edits,
                    accepted, contract>>
    BY <1>11 DEF vars, counters
  <2>2. UNCHANGED Digested /\ Editable' = Editable
    BY <2>1 DEF Digested, page, Editable, Live
  <2>3. Around' /\ Shapes' /\ EditHoldsRow'
    BY <1>0, <2>1, <2>2, SameFingerprint DEF Around, Shapes, EditHoldsRow
  <2> QED
    BY <2>1, <2>3, QuietKeeps
<1> QED
  BY <1>1, <1>2, <1>3, <1>4, <1>5, <1>6, <1>7, <1>8, <1>10, <1>11 DEF Next

LEMMA FreshIsSound ==
    ASSUME Fresh, PageOK, header \in HeaderType
    PROVE  LifeInv
<1>1. /\ generation = 0 /\ revision = 1 /\ ops = {} /\ lock = Free
      /\ proj = [export |-> ExportOf(0, els), facets |-> FacetsOf(0, rows, els)]
      /\ edits = 0 /\ accepted = 0 /\ contract = 0
  BY DEF Fresh
<1>2. DOMAIN tab = Tabs
      /\ \A t \in Tabs : tab[t] = [step |-> "idle", before |-> NoDigest,
                                   view |-> [ids |-> 0, text |-> "none", sealed |-> FALSE]]
  BY DEF Fresh
<1>3. Around /\ EditHoldsRow
  BY <1>1, <1>2 DEF Around, EditHoldsRow
<1>4. Shapes
  BY <1>1, <1>2 DEF Shapes
<1>5. ProjectionsFollowPage
  BY <1>1 DEF ProjectionsFollowPage, ExportOf, FacetsOf
<1> QED
  BY <1>3, <1>4, <1>5, Restated

LEMMA InitInv == Init => LifeInv
<1>1. \A known \in BOOLEAN : Draft(known) \in HeaderType
  BY DEF Draft, HeaderType
<1>2. ASSUME StartFromNothing PROVE LifeInv
  <2>1. /\ rows = [b \in {"core"} |-> [position |-> 0, hidden |-> FALSE]]
        /\ els = [e \in {"prompts"} |-> Body("core", "none", FALSE)]
        /\ payload = <<>> /\ apps = {} /\ preserved = {}
    BY <1>2 DEF StartFromNothing
  <2>2. RowsInOrder(rows)
    <3>1. DOMAIN rows = {"core"} /\ Cardinality({"core"}) = 1
      BY <2>1, FS_Singleton
    <3>2. rows \in [DOMAIN rows -> Row]
      BY <2>1 DEF Row
    <3>3. Positions(rows) = {0} /\ 0 .. 0 = {0}
      BY <2>1 DEF Positions
    <3> QED
      BY <3>1, <3>2, <3>3 DEF RowsInOrder, Blocks
  <2>3. Placed(els, DOMAIN rows)
    <3>1. els \in [DOMAIN els -> Element]
      BY <2>1 DEF Element, Body, Blocks, Text
    <3> QED
      BY <2>1, <3>1 DEF Placed, Body, Elements
  <2>4. Sealed(els) = {} /\ \A e \in DOMAIN els : ~els[e].sealed
    BY <2>1 DEF Sealed, Body
  <2>5. PageOK
    <3>1. DOMAIN payload = {} /\ apps = {} /\ apps \subseteq Apps /\ preserved = {}
      BY <2>1
    <3>2. SealedIsHeld
      BY <2>4, <3>1 DEF SealedIsHeld
    <3> QED
      BY <2>2, <2>3, <3>1, <3>2 DEF PageOK, PreservedIsOwned
  <2> QED
    BY <1>1, <1>2, <2>5, FreshIsSound DEF StartFromNothing
<1>3. ASSUME NEW f \in Files, IngestDraft(f) PROVE LifeInv
  <2>1. /\ rows = FileRows(f) /\ els = FilePage(f) /\ preserved = f.leftovers
        /\ IF f.sealed THEN payload = Payload(1, f.text, "key") /\ apps = Apps
                       ELSE payload = <<>> /\ apps = {}
        /\ revision = 1
    BY <1>3 DEF IngestDraft, Fresh
  <2>2. RowsInOrder(rows) /\ Placed(els, DOMAIN rows) /\ PreservedIsOwned
    BY <2>1, FilePagePlaced DEF PreservedIsOwned
  <2>3. \A e \in DOMAIN els : els[e].sealed => els[e].text = "blank"
    BY <2>1, FilePagePlaced
  <2>4. SealedIsHeld /\ apps \subseteq Apps
    <3>1. CASE f.sealed
      <4>1. DOMAIN payload = {revision} /\ apps # {} /\ apps \subseteq Apps
        BY <2>1, <3>1 DEF Payload, Apps
      <4>2. Sealed(els) # {}
        BY <2>1, <3>1, FilePagePlaced
      <4> QED
        BY <2>3, <4>1, <4>2 DEF SealedIsHeld
    <3>2. CASE ~f.sealed
      <4>1. DOMAIN payload = {} /\ apps = {} /\ Sealed(els) = {}
        BY <2>1, <3>2, FilePagePlaced
      <4> QED
        BY <2>3, <4>1 DEF SealedIsHeld
    <3> QED
      BY <3>1, <3>2
  <2>5. PageOK
    BY <2>2, <2>4 DEF PageOK
  <2> QED
    BY <1>1, <1>3, <2>5, FreshIsSound DEF IngestDraft
<1> QED
  BY <1>2, <1>3 DEF Init

LEMMA AlwaysInv == Spec => []LifeInv
BY InitInv, StepKeeps, PTL DEF Spec

-----------------------------------------------------------------------------
(* What happens to the preserved rows of a page in one edit of it.         *)
Lost(o) ==
    \/ o # "asset" /\ o \notin DOMAIN els'
    \/ \E t \in Tabs : DeletePreservedNamespace(t, o)

RowsFollow ==
    revision' = revision =>
        /\ preserved' \subseteq preserved
        /\ \A o \in preserved \ preserved' : Lost(o)

LEMMA EditFollows ==
    ASSUME NEW t \in Tabs, Edit(t)
    PROVE  RowsFollow
<1>1. ASSUME preserved' = preserved PROVE RowsFollow
  BY <1>1 DEF RowsFollow
<1>2. ASSUME DropUnownedPreservedData PROVE RowsFollow
  BY <1>2 DEF DropUnownedPreservedData, RowsFollow, Lost
<1>3. ASSUME NEW owner, DeletePreservedNamespace(t, owner) PROVE RowsFollow
  <2>1. preserved' = preserved \ {owner}
    BY <1>3 DEF DeletePreservedNamespace
  <2> QED
    BY <1>3, <2>1 DEF RowsFollow, Lost
<1>4. CASE \E text \in Texts \cup {"none", "blank"}, sealed \in BOOLEAN,
             supplied \in {{}, {{}}, {Apps}} : SaveCore(t, text, sealed, supplied)
  BY <1>2, <1>4 DEF SaveCore
<1>5. CASE \E b \in Optional, kept \in SUBSET Elements, text \in {"none", "prose"} :
             SaveOptional(t, b, kept, text)
  BY <1>2, <1>5 DEF SaveOptional
<1>6. CASE \E b \in Optional : AddBlock(t, b) \/ RemoveBlock(t, b)
  BY <1>1, <1>2, <1>6 DEF AddBlock, RemoveBlock
<1>7. CASE MoveBlockContent(t)
  BY <1>2, <1>7 DEF MoveBlockContent
<1>8. CASE \E order \in [DOMAIN rows -> 0 .. Cardinality(DOMAIN rows) - 1],
              hidden \in SUBSET Optional : ArrangeBlocks(t, order, hidden)
  BY <1>1, <1>8 DEF ArrangeBlocks, Arranged
<1>9. CASE \/ \E name, rated \in BOOLEAN : SetIdentity(t, name, rated)
           \/ Publish(t) \/ Rollback(t)
           \/ \E role \in {"avatar", "alternate"} : AddMedia(t, role)
           \/ \E f \in Files : AcceptRevision(t, f)
  BY <1>1, <1>9 DEF SetIdentity, Publish, Rollback, AddMedia, AcceptRevision, page
<1> QED
  BY <1>3, <1>4, <1>5, <1>6, <1>7, <1>8, <1>9 DEF Edit

LEMMA FollowsStep ==
    ASSUME LifeInv, [Next]_vars
    PROVE  RowsFollow
<1>0. revision \in Nat
  BY Restated DEF Around
<1>1. ASSUME preserved' = preserved PROVE RowsFollow
  BY <1>1 DEF RowsFollow
<1>2. ASSUME NEW t \in Tabs, Edit(t) PROVE RowsFollow
  BY <1>2, EditFollows
<1>3. ASSUME NEW op, IngestRevision(op) PROVE RowsFollow
  <2>1. revision' # revision
    BY <1>0, <1>3 DEF IngestRevision, ReplacesPage
  <2> QED
    BY <2>1 DEF RowsFollow
<1>4. ASSUME NEW op, IngestFails(op) PROVE RowsFollow
  BY <1>1, <1>4 DEF IngestFails, page
<1>5. ASSUME NEW t \in Tabs, OpenPage(t) \/ LockEditableAsset(t) \/ AnswerSave(t)
      PROVE  RowsFollow
  BY <1>1, <1>5 DEF OpenPage, LockEditableAsset, Locks, AnswerSave, page
<1>6. CASE \/ Withhold \/ ClearWithhold \/ Delete \/ WindowEnds \/ Restore
           \/ \E listed \in BOOLEAN : SetDiscovery(listed)
  BY <1>1, <1>6 DEF Withhold, ClearWithhold, Delete, WindowEnds, Restore, SetDiscovery,
                    Statement, page
<1>7. CASE Deploy \/ UNCHANGED vars
  BY <1>1, <1>7 DEF Deploy, vars, page
<1> QED
  BY <1>2, <1>3, <1>4, <1>5, <1>6, <1>7 DEF Next

(* Whatever the owner's tabs, the ingest worker and a deploy do, the block *)
(* positions run from zero without a gap, core keeps its pinned prompt     *)
(* list, every element is in a block on the page and every preserved row   *)
(* has an owner; and while a file's page is edited a row goes only with    *)
(* its element or with its namespace, and none comes back (blocks.go,      *)
(* preserved.go).                                                          *)
THEOREM BlocksStaySound == Spec => BlocksKept
<1>1. LifeInv => BlocksSound
  BY DEF LifeInv
<1>2. Spec => []BlocksSound
  BY AlwaysInv, <1>1, PTL
<1>3. LifeInv /\ [Next]_vars =>
        [ revision' = revision =>
            /\ preserved' \subseteq preserved
            /\ \A o \in preserved \ preserved' :
                  \/ o # "asset" /\ o \notin DOMAIN els'
                  \/ \E t \in Tabs : DeletePreservedNamespace(t, o) ]_vars
  BY FollowsStep DEF RowsFollow, Lost
<1>4. Spec => PreservedFollows
  BY AlwaysInv, <1>3, PTL DEF Spec, PreservedFollows
<1> QED
  BY <1>2, <1>4, PTL DEF BlocksKept

(* Sealed text is in protected_content alone, exactly what is sealed is    *)
(* kept there, and the app policy stands exactly while something is sealed *)
(* (SyncPromptFragments, ImportPromptFragments).                           *)
THEOREM SealedStaysHeld == Spec => []SealedIsHeld
<1>1. LifeInv => SealedIsHeld
  BY DEF LifeInv
<1> QED
  BY AlwaysInv, <1>1, PTL

(* The stored export capability and facets are those of the page as it is, *)
(* under the contract they were measured by (writeProjections,             *)
(* writeFacetProjection, the remeasuring at start).                        *)
THEOREM ProjectionsStayTrue == Spec => []ProjectionsFollowPage
<1>1. LifeInv => ProjectionsFollowPage
  BY DEF LifeInv
<1> QED
  BY AlwaysInv, <1>1, PTL

(* The fingerprint tells apart whatever a download tells apart.            *)
LEMMA FingerprintDecides ==
    ASSUME Fingerprint' = Fingerprint
    PROVE  Download' = Download
<1> DEFINE F == {<<e, Restored(e)>> : e \in {x \in DOMAIN els : Written(els[x])}}
           C == {<<e, Restored(e)>> : e \in {x \in DOMAIN els \ {"note"} : Written(els[x])}}
<1>1. C = {x \in F : x[1] # "note"}
  OBVIOUS
<1>2. C' = {x \in F' : x[1] # "note"}
  OBVIOUS
<1>3. F' = F /\ UNCHANGED <<header.name, cover, preserved>>
  BY DEF Fingerprint
<1>4. C' = C
  BY <1>1, <1>2, <1>3
<1> QED
  BY <1>3, <1>4 DEF Download

LEMMA SameDownload ==
    ASSUME UNCHANGED Digested
    PROVE  Download' = Download
BY SameFingerprint, FingerprintDecides

Follows ==
    /\ generation' \in {generation, generation + 1}
    /\ Download' # Download => generation' = generation + 1

LEMMA GenerationStep ==
    ASSUME LifeInv, [Next]_vars
    PROVE  Follows
<1>0. Around /\ EditHoldsRow
  BY Restated
<1>1. ASSUME MoveContentGeneration({Fingerprint}) PROVE Follows
  BY <1>0, <1>1, FingerprintDecides DEF MoveContentGeneration, Follows, Around
<1>2. ASSUME generation' = generation, UNCHANGED Digested PROVE Follows
  BY <1>2, SameDownload DEF Follows
<1>3. ASSUME NEW t \in Tabs, Edit(t) PROVE Follows
  <2>1. tab[t].before = {Fingerprint}
    BY <1>0, <1>3 DEF Edit, EditHoldsRow
  <2>2. TypeOK
    BY DEF LifeInv, BlocksSound
  <2> QED
    BY <1>1, <1>2, <1>3, <2>1, <2>2, EditEffects
<1>4. ASSUME NEW op, IngestRevision(op) PROVE Follows
  BY <1>1, <1>4 DEF IngestRevision, ReplacesPage
<1>5. ASSUME NEW op, IngestFails(op) PROVE Follows
  BY <1>2, <1>5 DEF IngestFails, Digested, page
<1>6. ASSUME NEW t \in Tabs, OpenPage(t) \/ LockEditableAsset(t) \/ AnswerSave(t) PROVE Follows
  BY <1>2, <1>6 DEF OpenPage, LockEditableAsset, Locks, AnswerSave, Digested, page
<1>7. ASSUME NEW new, Statement(new), new.name = header.name PROVE Follows
  BY <1>2, <1>7 DEF Statement, Digested, page
<1>8. ASSUME Withhold \/ ClearWithhold \/ Delete \/ WindowEnds \/ Restore PROVE Follows
  <2>1. header \in HeaderType
    BY <1>0 DEF Around
  <2>2. /\ [header EXCEPT !.withheld = TRUE].name = header.name
        /\ [header EXCEPT !.withheld = FALSE].name = header.name
        /\ [header EXCEPT !.deleted = "recoverable"].name = header.name
        /\ [header EXCEPT !.deleted = "expired"].name = header.name
        /\ [header EXCEPT !.deleted = "no"].name = header.name
    BY <2>1 DEF HeaderType
  <2> QED
    BY <1>7, <1>8, <2>2 DEF Withhold, ClearWithhold, Delete, WindowEnds, Restore
<1>9. ASSUME NEW listed \in BOOLEAN, SetDiscovery(listed) PROVE Follows
  <2>1. [header EXCEPT !.listed = listed].name = header.name
    BY <1>0 DEF Around, HeaderType
  <2> QED
    BY <1>7, <1>9, <2>1 DEF SetDiscovery
<1>10. CASE \E listed \in BOOLEAN : SetDiscovery(listed)
  BY <1>9, <1>10, Zenon
<1>11. CASE Deploy \/ UNCHANGED vars
  BY <1>2, <1>11 DEF Deploy, vars, Digested, page
<1> QED
  BY <1>3, <1>4, <1>5, <1>6, <1>8, <1>10, <1>11 DEF Next

(* However two tabs and the ingest worker interleave, a change to what a   *)
(* download carries moves content_generation by one: the digest an edit    *)
(* compares with was taken under the row lock it still holds               *)
(* (lockEditableAsset, contentFingerprint, moveContentGeneration).         *)
THEOREM GenerationMoves == Spec => GenerationFollowsDownload
<1>1. LifeInv /\ [Next]_vars =>
        [ /\ generation' \in {generation, generation + 1}
          /\ Download' # Download => generation' = generation + 1 ]_vars
  BY GenerationStep DEF Follows
<1> QED
  BY AlwaysInv, <1>1, PTL DEF Spec, GenerationFollowsDownload

Kept ==
    /\ UNCHANGED <<page, cover, generation, revision>>
    /\ header'.name = header.name /\ header'.published = header.published

LEMMA FrozenStep ==
    ASSUME LifeInv, [Next]_vars, ~Editable
    PROVE  Kept
<1>0. Around /\ EditHoldsRow
  BY Restated
<1>1. \A t \in Tabs : ~Edit(t) /\ ~LockEditableAsset(t)
  BY <1>0 DEF EditHoldsRow, Edit, LockEditableAsset
<1>2. \A op : ~IngestRevision(op)
  BY DEF IngestRevision
<1>3. ~Withhold /\ ~Delete /\ \A listed : ~SetDiscovery(listed)
  BY DEF Withhold, Delete, SetDiscovery
<1>4. ASSUME NEW t \in Tabs, OpenPage(t) \/ AnswerSave(t) PROVE Kept
  BY <1>4 DEF OpenPage, AnswerSave, Kept
<1>5. ASSUME NEW op, IngestFails(op) PROVE Kept
  BY <1>5 DEF IngestFails, Kept
<1>6. CASE ClearWithhold \/ WindowEnds \/ Restore
  <2>1. header \in HeaderType
    BY <1>0 DEF Around
  <2> QED
    BY <1>6, <2>1 DEF ClearWithhold, WindowEnds, Restore, Statement, HeaderType, Kept
<1>7. CASE Deploy \/ UNCHANGED vars
  BY <1>7 DEF Deploy, vars, Kept
<1>8. CASE \E listed \in BOOLEAN : SetDiscovery(listed)
  BY <1>3, <1>8
<1> QED
  BY <1>1, <1>2, <1>3, <1>4, <1>5, <1>6, <1>7, <1>8 DEF Next

(* A withheld or deleted asset keeps its content: an edit that holds the   *)
(* row keeps the asset from being withheld or deleted meanwhile, and what  *)
(* takes the row later asks again (lockEditableAsset, lockRevisionTarget). *)
THEOREM FrozenStays == Spec => FrozenIsKept
<1>1. LifeInv /\ [Next]_vars =>
        [ ~Editable /\ ~Editable' => UNCHANGED <<page, cover, generation, revision>>
          /\ header'.name = header.name /\ header'.published = header.published ]_vars
  BY FrozenStep DEF Kept
<1> QED
  BY AlwaysInv, <1>1, PTL DEF Spec, FrozenIsKept
=============================================================================
