----------------------------- MODULE PageCatalog -----------------------------
(***************************************************************************)
(* internal/block: what a kind's page may hold.  The catalog of blocks each  *)
(* kind declares, their layouts and widths, how imported elements are placed  *)
(* on a page, and the rules every edit of one is checked against.           *)
(*                                                                         *)
(* An element is its id, type, role (or None), slot, presentation option      *)
(* and the number of items it holds.  Every reader tags its elements with a   *)
(* role, so Place never meets one without.                                   *)
(***************************************************************************)
EXTENDS Naturals, Sequences, FiniteSets, Lists

CONSTANT MaxCollectionItems     \* the most items one element may hold

ASSUME LimitAssumption == MaxCollectionItems \in Nat \ {0}

None == ""      \* no role, no option, no layout

Images(s) == {s[i] : i \in DOMAIN s}

-----------------------------------------------------------------------------
(* Layouts and widths *)

Slots(layout) ==
    CASE layout = "single" -> <<"main">>
      [] layout = "duo" -> <<"left", "right">>
      [] layout = "main-aside" -> <<"main", "aside">>
      [] layout = "trio" -> <<"left", "middle", "right">>
      [] layout = "stack-2" -> <<"top", "bottom">>
      [] layout = "stack-3" -> <<"top", "middle", "bottom">>
      [] OTHER -> <<>>

Columns(width) ==
    CASE width = "full" -> 12 [] width = "two_thirds" -> 8
      [] width = "half" -> 6 [] width = "third" -> 4 [] OTHER -> 0

MinimumWidth(layout) ==
    CASE layout = "trio" -> "full"
      [] layout \in {"duo", "main-aside"} -> "two_thirds"
      [] OTHER -> "third"

-----------------------------------------------------------------------------
(* The vocabulary of elements *)

RoleTypes ==
    [description |-> "prose", personality |-> "prose", scenario |-> "prose",
     greetings |-> "text_set", group_greetings |-> "text_set",
     example_dialogue |-> "dialogue_sample", gallery |-> "image_set",
     system_prompt |-> "prose", post_history_instructions |-> "prose",
     creator_notes |-> "prose", expressions |-> "image_set",
     lorebook_entries |-> "entry_table", prompt_fragments |-> "prompt_list",
     prompt_variables |-> "variable_schema", sampler_settings |-> "setting_group",
     completion_settings |-> "setting_group", advanced_settings |-> "setting_group",
     prompt_nudges |-> "text_set", regex_scripts |-> "script_list",
     theme_tokens |-> "color_set", theme_controls |-> "setting_group",
     stylesheets |-> "stylesheet_set", pack_items |-> "record_list"]

Types == {RoleTypes[r] : r \in DOMAIN RoleTypes} \cup {"field_list", "link_list"}
Allows(role, type) == role \in DOMAIN RoleTypes /\ RoleTypes[role] = type

(* Every role but the gallery is singular, an unknown one too. *)
Singular(role) == role # "gallery"

(* A display option on text, an item size on images, and none elsewhere. *)
OptionsOf(type) ==
    CASE type \in {"prose", "text_set"} -> {"rich", "verbatim"}
      [] type = "image_set" -> {"small", "medium", "large"}
      [] OTHER -> {None}

-----------------------------------------------------------------------------
(* The catalogs *)

Defined(role, type, option) == [role |-> role, type |-> type, option |-> option, pinned |-> FALSE]
Plain(role) == Defined(role, RoleTypes[role], None)
Pinned(defined) == [defined EXCEPT !.pinned = TRUE]
Rich(role) == Defined(role, "prose", "rich")
Verbatim(role) == Defined(role, "prose", "verbatim")
Texts(role) == Defined(role, "text_set", "rich")

Optional(id, elements, layouts, width) ==
    [id |-> id, required |-> FALSE, hideable |-> FALSE, repeatable |-> FALSE,
     elements |-> elements, layouts |-> layouts, width |-> width, choices |-> <<>>]
Required(id, hideable, elements, layouts, width) ==
    [Optional(id, elements, layouts, width) EXCEPT !.required = TRUE, !.hideable = hideable]

Character ==
    <<Required("character_core", TRUE,
               <<Pinned(Rich("description")), Pinned(Rich("personality")), Pinned(Rich("scenario"))>>,
               <<"stack-3", "trio">>, "two_thirds"),
      Required("messages", FALSE,
               <<Pinned(Texts("greetings")), Pinned(Plain("example_dialogue")), Texts("group_greetings")>>,
               <<"stack-2", "stack-3">>, "full"),
      Optional("expressions", <<Defined("expressions", "image_set", "small")>>, <<"single">>, "full"),
      Optional("lorebook", <<Plain("lorebook_entries")>>, <<"single">>, "two_thirds"),
      Optional("image_prompts", <<Defined(None, "field_list", None), Verbatim(None), Verbatim(None)>>,
               <<"stack-3">>, "two_thirds"),
      Optional("model_instructions",
               <<Verbatim("system_prompt"), Verbatim("post_history_instructions")>>,
               <<"stack-2", "duo">>, "half"),
      Optional("relationships", <<Defined(None, "link_list", None)>>, <<"single">>, "third")>>

LorebookKind ==
    <<Required("lorebook_core", FALSE, <<Pinned(Plain("lorebook_entries"))>>, <<"single">>, "full")>>

Preset ==
    <<Required("preset_core", FALSE, <<Pinned(Plain("prompt_fragments"))>>, <<"single">>, "full"),
      Optional("settings",
               <<Plain("sampler_settings"), Plain("completion_settings"), Plain("advanced_settings")>>,
               <<"trio", "stack-3">>, "full"),
      Optional("variables", <<Plain("prompt_variables")>>, <<"single">>, "two_thirds"),
      Optional("scripts", <<Plain("regex_scripts")>>, <<"single">>, "two_thirds"),
      Optional("nudges", <<Defined("prompt_nudges", "text_set", "verbatim")>>, <<"single">>, "third")>>

Theme ==
    <<Required("theme_core", FALSE, <<Pinned(Plain("theme_tokens")), Pinned(Plain("theme_controls"))>>,
               <<"duo", "stack-2">>, "full"),
      Required("stylesheet", TRUE, <<Pinned(Plain("stylesheets"))>>, <<"single">>, "full")>>

Pack == <<Required("pack_core", FALSE, <<Pinned(Plain("pack_items"))>>, <<"single">>, "full")>>

CustomBlock ==
    [Optional("custom_block", <<>>, <<"single", "duo", "main-aside", "trio", "stack-2", "stack-3">>, "full")
        EXCEPT !.repeatable = TRUE,
               !.choices = <<Rich(None), Defined(None, "image_set", "medium"),
                             Defined(None, "link_list", None), Texts(None)>>]

Gallery == Optional("gallery", <<Defined("gallery", "image_set", "medium")>>, <<"single">>, "half")
Notes ==
    <<Optional("usage", <<Rich(None)>>, <<"single">>, "half"),
      Optional("changelog", <<Texts(None)>>, <<"single">>, "half"),
      Optional("attributes", <<Defined(None, "field_list", None)>>, <<"single">>, "third"),
      Optional("author_notes", <<Rich("creator_notes")>>, <<"single">>, "third"),
      Optional("runs_best_with", <<Defined(None, "link_list", None)>>, <<"single">>, "third"),
      CustomBlock>>

(* Mutant: a gallery is a character's own. *)
SharedWithoutGallery == Notes
Shared == <<Gallery>> \o Notes

Kinds == {"character", "lorebook", "preset", "theme", "pack"}
Catalog(kind) ==
    (CASE kind = "character" -> Character [] kind = "lorebook" -> LorebookKind
       [] kind = "preset" -> Preset [] kind = "theme" -> Theme [] kind = "pack" -> Pack) \o Shared

InCatalog(kind, id) == \E i \in DOMAIN Catalog(kind) : Catalog(kind)[i].id = id
Definition(kind, id) == CHOOSE d \in Images(Catalog(kind)) : d.id = id

(* Block.Pinned: read from the catalog and never from the row. *)
PinnedIn(kind, id, role) ==
    \E e \in Images(Definition(kind, id).elements) : e.role = role /\ e.pinned

(* Mutant: the layout with the most room. *)
LayoutForMost(d, count) == d.layouts[Len(d.layouts)]

(* The first layout with room, or None. *)
LayoutFor(d, count) ==
    LET fit == {i \in DOMAIN d.layouts : Len(Slots(d.layouts[i])) >= count}
    IN IF fit = {} THEN None ELSE d.layouts[CHOOSE i \in fit : \A j \in fit : i <= j]

(* Mutant: a role its block has a place for, and does not pin. *)
ContentFloorsUnpinned(kind) ==
    IF kind = "character" THEN {"description", "group_greetings"} ELSE {}
(* What the kind asks for before an asset may be published. *)
ContentFloors(kind) ==
    CASE kind = "character" -> {"description", "greetings"}
      [] kind = "lorebook" -> {"lorebook_entries"}
      [] kind = "preset" -> {"prompt_fragments"}
      [] kind = "theme" -> {"theme_tokens"}
      [] kind = "pack" -> {"pack_items"}

-----------------------------------------------------------------------------
(* Place: a tagged element is its role, its type and its items. *)

Fits(defined, tagged) ==
    {i \in DOMAIN tagged : tagged[i].role = defined.role /\ tagged[i].type = defined.type}
Present(d, tagged) ==
    Kept(d.elements, {i \in DOMAIN d.elements : d.elements[i].pinned \/ Fits(d.elements[i], tagged) # {}})

(* A second element for one place is refused, and so is one nothing has a place for. *)
HasPlaceForAll(kind, tagged) ==
    LET places == UNION {Images(d.elements) : d \in Images(Catalog(kind))}
    IN /\ \A e \in places : Cardinality(Fits(e, tagged)) <= 1
       /\ \A i \in DOMAIN tagged : \E e \in places : i \in Fits(e, tagged)
       /\ \A d \in Images(Catalog(kind)) : LayoutFor(d, Len(Present(d, tagged))) # None

(* fill: ids are minted, options come from the definition, and a pinned element *)
(* nobody supplied is created empty.                                          *)
Laid(d, defined, layout, id, items) ==
    [i \in DOMAIN defined |->
        [id |-> Append(id, i), type |-> defined[i].type, role |-> defined[i].role,
         slot |-> Slots(layout)[i], option |-> defined[i].option, items |-> items[i]]]
NewRow(d, defined, id, items) ==
    LET layout == LayoutFor(d, Len(defined))
    IN [id |-> id, definition |-> d.id, hidden |-> FALSE, layout |-> layout, width |-> d.width,
        elements |-> Laid(d, defined, layout, id, items)]

ItemsIn(defined, tagged) ==
    [i \in DOMAIN defined |->
        LET fit == Fits(defined[i], tagged)
        IN IF fit = {} THEN 0 ELSE tagged[CHOOSE k \in fit : TRUE].items]
Shown(kind, tagged) ==
    Kept(Catalog(kind), {i \in DOMAIN Catalog(kind) :
                            Catalog(kind)[i].required \/ Present(Catalog(kind)[i], tagged) # <<>>})
Place(kind, tagged, minted) ==
    LET shown == Shown(kind, tagged)
    IN [i \in DOMAIN shown |->
          LET defined == Present(shown[i], tagged)
          IN NewRow(shown[i], defined, <<minted, i>>, ItemsIn(defined, tagged))]

-----------------------------------------------------------------------------
(* The add tray: the ways a block may start, and the block it starts as. *)
Starts(d) ==
    IF d.choices # <<>> THEN {<<e>> : e \in Images(d.choices)}
    ELSE IF d.elements = <<>> THEN {} ELSE {d.elements}

OffersBlock(kind, id, start, page) ==
    /\ InCatalog(kind, id)
    /\ LET d == Definition(kind, id)
       IN /\ ~d.required
          /\ d.repeatable \/ \A i \in DOMAIN page : page[i].definition # id
          /\ start \in Starts(d) /\ LayoutFor(d, Len(start)) # None
NewBlock(kind, id, start, minted) ==
    NewRow(Definition(kind, id), start, <<minted, 1>>, [i \in DOMAIN start |-> 0])

-----------------------------------------------------------------------------
(* The rules *)

ValidateContentLimits(elements) == \A i \in DOMAIN elements : elements[i].items <= MaxCollectionItems

ValidateStructure(b) ==
    /\ ValidateContentLimits(b.elements)
    /\ Slots(b.layout) # <<>> /\ Len(b.elements) <= Len(Slots(b.layout))
    /\ \A i, j \in DOMAIN b.elements : i # j =>
         b.elements[i].id # b.elements[j].id /\ b.elements[i].slot # b.elements[j].slot
    /\ \A i \in DOMAIN b.elements :
         LET e == b.elements[i]
         IN /\ e.type \in Types /\ e.option \in OptionsOf(e.type)
            /\ e.slot \in Images(Slots(b.layout))

Elements(page) == UNION {Images(page[i].elements) : i \in DOMAIN page}

(* Where each element of a page is: no two of them may share an id or a     *)
(* singular role, in one block or in two.                                  *)
Seats(page) == UNION {{<<i, j>> : j \in DOMAIN page[i].elements} : i \in DOMAIN page}
At(page, seat) == page[seat[1]].elements[seat[2]]

PinnedElementPresent(after, b, e) ==
    \E i \in DOMAIN after :
        after[i].id = b.id /\ \E c \in Images(after[i].elements) :
            c.id = e.id /\ c.role = e.role /\ c.type = e.type

ValidateBuilderConstraints(kind, before, after) ==
    /\ \A i \in DOMAIN after :
         LET b == after[i]
             d == Definition(kind, b.definition)
         IN /\ InCatalog(kind, b.definition)
            /\ d.repeatable \/ \A j \in DOMAIN after \ {i} : after[j].definition # b.definition
            /\ b.layout \in Images(d.layouts)
            /\ Columns(b.width) # 0 /\ Columns(b.width) >= Columns(MinimumWidth(b.layout))
    /\ \A s, t \in Seats(after) : s # t =>
         /\ At(after, s).id # At(after, t).id
         /\ At(after, s).role # None /\ Singular(At(after, s).role) =>
              At(after, s).role # At(after, t).role
    /\ \A e \in Elements(after) :
         /\ \E known \in Elements(before) : known.id = e.id
         /\ e.role = None \/ Allows(e.role, e.type)
    /\ \A i \in DOMAIN before : \A e \in Images(before[i].elements) :
         PinnedIn(kind, before[i].definition, e.role) => PinnedElementPresent(after, before[i], e)

=============================================================================
