------------------------------ MODULE PagesProofs ------------------------------
(***************************************************************************)
(* What holds of every page: the catalogs are sound, a file is placed by     *)
(* their rules, and each edit leaves a page that keeps them.                 *)
(***************************************************************************)
EXTENDS Pages, FiniteSetTheorems, SequenceTheorems, WellFoundedInduction, TLAPS

-----------------------------------------------------------------------------
(* The catalogs.  What the rest needs of them, checked definition by         *)
(* definition: a role that may be on a page once has its place in one block,  *)
(* the layout a block starts in is one its width allows, and a required block *)
(* pins something.                                                          *)
Home(k, role) ==
    CASE role \in {"description", "personality", "scenario"} -> "character_core"
      [] role \in {"greetings", "example_dialogue", "group_greetings"} -> "messages"
      [] role = "expressions" -> "expressions"
      [] role = "lorebook_entries" -> (IF k = "character" THEN "lorebook" ELSE "lorebook_core")
      [] role \in {"system_prompt", "post_history_instructions"} -> "model_instructions"
      [] role = "prompt_fragments" -> "preset_core"
      [] role \in {"sampler_settings", "completion_settings", "advanced_settings"} -> "settings"
      [] role = "prompt_variables" -> "variables"
      [] role = "regex_scripts" -> "scripts"
      [] role = "prompt_nudges" -> "nudges"
      [] role \in {"theme_tokens", "theme_controls"} -> "theme_core"
      [] role = "stylesheets" -> "stylesheet"
      [] role = "pack_items" -> "pack_core"
      [] role = "creator_notes" -> "author_notes"
      [] OTHER -> "none"

Free(role) == role \in {None, "gallery"}
Tagged(e) == e.role = None \/ Allows(e.role, e.type)
Housed(k, d, e) == Tagged(e) /\ (Free(e.role) \/ Home(k, e.role) = d.id)

WideEnough(width, layout) ==
    Columns(width) # 0 /\ Columns(width) >= Columns(MinimumWidth(layout))
FirstFitIsWide(d) ==
    \A i \in DOMAIN d.layouts :
        \/ WideEnough(d.width, d.layouts[i])
        \/ \E j \in 1 .. i - 1 : Len(Slots(d.layouts[j])) >= Len(Slots(d.layouts[i]))
LayoutsSound(d) ==
    DOMAIN d.layouts = 1 .. Len(d.layouts) /\ Len(d.layouts) \in Nat /\ FirstFitIsWide(d)

DefinitionSound(k, d) ==
    /\ LayoutsSound(d)
    /\ DOMAIN d.elements = 1 .. Len(d.elements) /\ Len(d.elements) \in 0 .. 3
    /\ \A i \in DOMAIN d.elements : Housed(k, d, d.elements[i])
    /\ \A i, j \in DOMAIN d.elements :
         i # j /\ ~Free(d.elements[i].role) => d.elements[i].role # d.elements[j].role
    /\ d.required \in BOOLEAN
    /\ d.required => \E i \in DOMAIN d.elements : d.elements[i].pinned

SharedIds == {"gallery", "usage", "changelog", "attributes", "author_notes", "runs_best_with",
              "custom_block"}

LEMMA OneLayout ==
    ASSUME NEW d, d.layouts = <<"single">>, d.width \in {"full", "two_thirds", "half", "third"}
    PROVE  LayoutsSound(d)
BY DEF LayoutsSound, FirstFitIsWide, WideEnough, Columns, MinimumWidth, Slots

LEMMA ManyLayouts ==
    ASSUME NEW d,
           \/ d.layouts = <<"stack-3", "trio">> /\ d.width = "two_thirds"
           \/ d.layouts = <<"stack-2", "stack-3">> /\ d.width = "full"
           \/ d.layouts = <<"stack-3">> /\ d.width = "two_thirds"
           \/ d.layouts = <<"stack-2", "duo">> /\ d.width = "half"
           \/ d.layouts = <<"trio", "stack-3">> /\ d.width = "full"
           \/ d.layouts = <<"duo", "stack-2">> /\ d.width = "full"
    PROVE  LayoutsSound(d)
BY DEF LayoutsSound, FirstFitIsWide, WideEnough, Columns, MinimumWidth, Slots

LEMMA AnyLayout ==
    ASSUME NEW d, d.width = "full",
           d.layouts = <<"single", "duo", "main-aside", "trio", "stack-2", "stack-3">>
    PROVE  LayoutsSound(d)
BY DEF LayoutsSound, FirstFitIsWide, WideEnough, Columns, MinimumWidth

LEMMA NoElements ==
    ASSUME NEW k, NEW d, d.elements = <<>>, LayoutsSound(d), d.required = FALSE
    PROVE  DefinitionSound(k, d)
<1>1. DOMAIN d.elements = {} /\ Len(d.elements) = 0
  OBVIOUS
<1>2. DOMAIN d.elements = 1 .. Len(d.elements) /\ Len(d.elements) \in 0 .. 3
  BY <1>1
<1> QED
  BY <1>1, <1>2 DEF DefinitionSound

LEMMA OneElement ==
    ASSUME NEW k, NEW d, NEW a, d.elements = <<a>>, LayoutsSound(d), Housed(k, d, a),
           d.required \in BOOLEAN, d.required => a.pinned
    PROVE  DefinitionSound(k, d)
<1>1. DOMAIN d.elements = {1} /\ d.elements[1] = a
  OBVIOUS
<1> QED
  BY <1>1 DEF DefinitionSound

LEMMA TwoElements ==
    ASSUME NEW k, NEW d, NEW a, NEW b, d.elements = <<a, b>>, LayoutsSound(d),
           Housed(k, d, a), Housed(k, d, b), a.role # b.role,
           d.required \in BOOLEAN, d.required => a.pinned
    PROVE  DefinitionSound(k, d)
<1>1. DOMAIN d.elements = {1, 2} /\ d.elements[1] = a /\ d.elements[2] = b
  OBVIOUS
<1> QED
  BY <1>1 DEF DefinitionSound

LEMMA Triple == \A a, b, c : LET s == <<a, b, c>> IN
    DOMAIN s = {1, 2, 3} /\ s[1] = a /\ s[2] = b /\ s[3] = c /\ Len(s) = 3
OBVIOUS

LEMMA ThreeElements ==
    ASSUME NEW k, NEW d, NEW a, NEW b, NEW c, d.elements = <<a, b, c>>, LayoutsSound(d),
           Housed(k, d, a), Housed(k, d, b), Housed(k, d, c),
           Free(a.role) \/ (a.role # b.role /\ a.role # c.role),
           Free(b.role) \/ (b.role # a.role /\ b.role # c.role),
           Free(c.role) \/ (c.role # a.role /\ c.role # b.role),
           d.required \in BOOLEAN, d.required => a.pinned
    PROVE  DefinitionSound(k, d)
<1>1. DOMAIN d.elements = {1, 2, 3} /\ d.elements[1] = a /\ d.elements[2] = b /\ d.elements[3] = c
      /\ Len(d.elements) = 3
  BY Triple
<1>2. DOMAIN d.elements = 1 .. Len(d.elements)
  BY <1>1
<1>3. \A i \in DOMAIN d.elements : Housed(k, d, d.elements[i])
  BY <1>1
<1>4. \A i, j \in DOMAIN d.elements :
        i # j /\ ~Free(d.elements[i].role) => d.elements[i].role # d.elements[j].role
  BY <1>1
<1>5. d.required => \E i \in DOMAIN d.elements : d.elements[i].pinned
  BY <1>1
<1> QED
  BY <1>1, <1>2, <1>3, <1>4, <1>5 DEF DefinitionSound

LEMMA ThreeUntagged ==
    ASSUME NEW k, NEW d, NEW a, NEW b, NEW c, d.elements = <<a, b, c>>, LayoutsSound(d),
           a.role = None, b.role = None, c.role = None, d.required = FALSE
    PROVE  DefinitionSound(k, d)
<1>1. DOMAIN d.elements = {1, 2, 3} /\ d.elements[1] = a /\ d.elements[2] = b /\ d.elements[3] = c
      /\ Len(d.elements) = 3
  BY Triple
<1>2. DOMAIN d.elements = 1 .. Len(d.elements)
  BY <1>1
<1>3. \A i \in DOMAIN d.elements : Free(d.elements[i].role)
  BY <1>1 DEF Free
<1>4. DOMAIN d.elements = 1 .. Len(d.elements) /\ Len(d.elements) \in 0 .. 3
  BY <1>1
<1>6. \A i \in DOMAIN d.elements : Tagged(d.elements[i])
  BY <1>1 DEF Tagged
<1>5. d.required \in BOOLEAN /\ ~d.required
  OBVIOUS
<1> QED
  BY <1>3, <1>4, <1>5, <1>6 DEF DefinitionSound, Housed

LEMMA CharacterSound ==
    /\ DOMAIN Character = 1 .. 7 /\ Len(Character) = 7
    /\ \A i \in 1 .. 7 : DefinitionSound("character", Character[i]) /\ Character[i].id \notin SharedIds
    /\ \A i, j \in 1 .. 7 : i # j => Character[i].id # Character[j].id
<1>0. DOMAIN Character = 1 .. 7 /\ Len(Character) = 7
  BY DEF Character
<1>1. DefinitionSound("character", Character[1]) /\ Character[1].id = "character_core"
  <2> DEFINE d == Character[1]
  <2>1. d.id = "character_core" /\ d.required = TRUE
    BY DEF Character, Required, Optional
  <2>2. LayoutsSound(d)
    BY ManyLayouts DEF Character, Required, Optional
  <2>3. d.elements = <<Pinned(Rich("description")), Pinned(Rich("personality")), Pinned(Rich("scenario"))>>
    BY DEF Character, Required, Optional
  <2>4. /\ Pinned(Rich("description")).role = "description"
        /\ Pinned(Rich("personality")).role = "personality"
        /\ Pinned(Rich("scenario")).role = "scenario"
        /\ Pinned(Rich("description")).pinned
    BY DEF Defined, Pinned, Rich
  <2> HIDE DEF d
  <2>5. /\ Tagged(Pinned(Rich("description")))
        /\ Tagged(Pinned(Rich("personality")))
        /\ Tagged(Pinned(Rich("scenario")))
    BY DEF Tagged, Allows, RoleTypes, Defined, Pinned, Rich
  <2>6. /\ Housed("character", d, Pinned(Rich("description")))
        /\ Housed("character", d, Pinned(Rich("personality")))
        /\ Housed("character", d, Pinned(Rich("scenario")))
    BY <2>1, <2>4, <2>5 DEF Housed, Free, Home
  <2>7. DefinitionSound("character", d)
    BY <2>1, <2>2, <2>3, <2>4, <2>6, ThreeElements DEF Free
  <2> QED
    BY <2>1, <2>7 DEF d
<1>2. DefinitionSound("character", Character[2]) /\ Character[2].id = "messages"
  <2> DEFINE d == Character[2]
  <2>1. d.id = "messages" /\ d.required = TRUE
    BY DEF Character, Required, Optional
  <2>2. LayoutsSound(d)
    BY ManyLayouts DEF Character, Required, Optional
  <2>3. d.elements = <<Pinned(Texts("greetings")), Pinned(Plain("example_dialogue")), Texts("group_greetings")>>
    BY DEF Character, Required, Optional
  <2>4. /\ Pinned(Texts("greetings")).role = "greetings"
        /\ Pinned(Plain("example_dialogue")).role = "example_dialogue"
        /\ Texts("group_greetings").role = "group_greetings"
        /\ Pinned(Texts("greetings")).pinned
    BY DEF Defined, Pinned, Plain, RoleTypes, Texts
  <2> HIDE DEF d
  <2>5. /\ Tagged(Pinned(Texts("greetings")))
        /\ Tagged(Pinned(Plain("example_dialogue")))
        /\ Tagged(Texts("group_greetings"))
    BY DEF Tagged, Allows, RoleTypes, Defined, Pinned, Plain, Texts
  <2>6. /\ Housed("character", d, Pinned(Texts("greetings")))
        /\ Housed("character", d, Pinned(Plain("example_dialogue")))
        /\ Housed("character", d, Texts("group_greetings"))
    BY <2>1, <2>4, <2>5 DEF Housed, Free, Home
  <2>7. DefinitionSound("character", d)
    BY <2>1, <2>2, <2>3, <2>4, <2>6, ThreeElements DEF Free
  <2> QED
    BY <2>1, <2>7 DEF d
<1>3. DefinitionSound("character", Character[3]) /\ Character[3].id = "expressions"
  <2> DEFINE d == Character[3]
  <2>1. d.id = "expressions" /\ d.required = FALSE
    BY DEF Character, Optional
  <2>2. LayoutsSound(d)
    BY OneLayout DEF Character, Optional
  <2>3. d.elements = <<Defined("expressions", "image_set", "small")>>
    BY DEF Character, Optional
  <2>4. /\ Defined("expressions", "image_set", "small").role = "expressions"
    BY DEF Defined
  <2> HIDE DEF d
  <2>5. /\ Tagged(Defined("expressions", "image_set", "small"))
    BY DEF Tagged, Allows, RoleTypes, Defined
  <2>6. /\ Housed("character", d, Defined("expressions", "image_set", "small"))
    BY <2>1, <2>4, <2>5 DEF Housed, Free, Home
  <2>7. DefinitionSound("character", d)
    BY <2>1, <2>2, <2>3, <2>4, <2>6, OneElement
  <2> QED
    BY <2>1, <2>7 DEF d
<1>4. DefinitionSound("character", Character[4]) /\ Character[4].id = "lorebook"
  <2> DEFINE d == Character[4]
  <2>1. d.id = "lorebook" /\ d.required = FALSE
    BY DEF Character, Optional
  <2>2. LayoutsSound(d)
    BY OneLayout DEF Character, Optional
  <2>3. d.elements = <<Plain("lorebook_entries")>>
    BY DEF Character, Optional
  <2>4. /\ Plain("lorebook_entries").role = "lorebook_entries"
    BY DEF Defined, Plain, RoleTypes
  <2> HIDE DEF d
  <2>5. /\ Tagged(Plain("lorebook_entries"))
    BY DEF Tagged, Allows, RoleTypes, Defined, Plain
  <2>6. /\ Housed("character", d, Plain("lorebook_entries"))
    BY <2>1, <2>4, <2>5 DEF Housed, Free, Home
  <2>7. DefinitionSound("character", d)
    BY <2>1, <2>2, <2>3, <2>4, <2>6, OneElement
  <2> QED
    BY <2>1, <2>7 DEF d
<1>5. DefinitionSound("character", Character[5]) /\ Character[5].id = "image_prompts"
  <2> DEFINE d == Character[5]
  <2>1. d.id = "image_prompts" /\ d.required = FALSE
    BY DEF Character, Optional
  <2>2. LayoutsSound(d)
    BY ManyLayouts DEF Character, Optional
  <2>3. d.elements = <<Defined(None, "field_list", None), Verbatim(None), Verbatim(None)>>
    BY DEF Character, Optional
  <2>4. /\ Defined(None, "field_list", None).role = None
        /\ Verbatim(None).role = None
    BY DEF Defined, Verbatim
  <2> HIDE DEF d
  <2>5. /\ Tagged(Defined(None, "field_list", None))
        /\ Tagged(Verbatim(None))
    BY DEF Tagged, Allows, RoleTypes, Defined, Verbatim
  <2>6. /\ Housed("character", d, Defined(None, "field_list", None))
        /\ Housed("character", d, Verbatim(None))
    BY <2>1, <2>4, <2>5 DEF Housed, Free, Home
  <2>7. DefinitionSound("character", d)
    BY <2>1, <2>2, <2>3, <2>4, <2>5, ThreeUntagged
  <2> QED
    BY <2>1, <2>7 DEF d
<1>6. DefinitionSound("character", Character[6]) /\ Character[6].id = "model_instructions"
  <2> DEFINE d == Character[6]
  <2>1. d.id = "model_instructions" /\ d.required = FALSE
    BY DEF Character, Optional
  <2>2. LayoutsSound(d)
    BY ManyLayouts DEF Character, Optional
  <2>3. d.elements = <<Verbatim("system_prompt"), Verbatim("post_history_instructions")>>
    BY DEF Character, Optional
  <2>4. /\ Verbatim("system_prompt").role = "system_prompt"
        /\ Verbatim("post_history_instructions").role = "post_history_instructions"
    BY DEF Defined, Verbatim
  <2> HIDE DEF d
  <2>5. /\ Tagged(Verbatim("system_prompt"))
        /\ Tagged(Verbatim("post_history_instructions"))
    BY DEF Tagged, Allows, RoleTypes, Defined, Verbatim
  <2>6. /\ Housed("character", d, Verbatim("system_prompt"))
        /\ Housed("character", d, Verbatim("post_history_instructions"))
    BY <2>1, <2>4, <2>5 DEF Housed, Free, Home
  <2>7. DefinitionSound("character", d)
    BY <2>1, <2>2, <2>3, <2>4, <2>6, TwoElements
  <2> QED
    BY <2>1, <2>7 DEF d
<1>7. DefinitionSound("character", Character[7]) /\ Character[7].id = "relationships"
  <2> DEFINE d == Character[7]
  <2>1. d.id = "relationships" /\ d.required = FALSE
    BY DEF Character, Optional
  <2>2. LayoutsSound(d)
    BY OneLayout DEF Character, Optional
  <2>3. d.elements = <<Defined(None, "link_list", None)>>
    BY DEF Character, Optional
  <2>4. /\ Defined(None, "link_list", None).role = None
    BY DEF Defined
  <2> HIDE DEF d
  <2>5. /\ Tagged(Defined(None, "link_list", None))
    BY DEF Tagged, Allows, RoleTypes, Defined
  <2>6. /\ Housed("character", d, Defined(None, "link_list", None))
    BY <2>1, <2>4, <2>5 DEF Housed, Free, Home
  <2>7. DefinitionSound("character", d)
    BY <2>1, <2>2, <2>3, <2>4, <2>6, OneElement
  <2> QED
    BY <2>1, <2>7 DEF d
<1>8. 1 .. 7 = {1, 2, 3, 4, 5, 6, 7}
  OBVIOUS
<1> QED
  BY <1>0, <1>1, <1>2, <1>3, <1>4, <1>5, <1>6, <1>7, <1>8 DEF SharedIds

LEMMA LorebookKindSound ==
    /\ DOMAIN LorebookKind = 1 .. 1 /\ Len(LorebookKind) = 1
    /\ \A i \in 1 .. 1 : DefinitionSound("lorebook", LorebookKind[i]) /\ LorebookKind[i].id \notin SharedIds
    /\ \A i, j \in 1 .. 1 : i # j => LorebookKind[i].id # LorebookKind[j].id
<1>0. DOMAIN LorebookKind = 1 .. 1 /\ Len(LorebookKind) = 1
  BY DEF LorebookKind
<1>1. DefinitionSound("lorebook", LorebookKind[1]) /\ LorebookKind[1].id = "lorebook_core"
  <2> DEFINE d == LorebookKind[1]
  <2>1. d.id = "lorebook_core" /\ d.required = TRUE
    BY DEF LorebookKind, Required, Optional
  <2>2. LayoutsSound(d)
    BY OneLayout DEF LorebookKind, Required, Optional
  <2>3. d.elements = <<Pinned(Plain("lorebook_entries"))>>
    BY DEF LorebookKind, Required, Optional
  <2>4. /\ Pinned(Plain("lorebook_entries")).role = "lorebook_entries"
        /\ Pinned(Plain("lorebook_entries")).pinned
    BY DEF Defined, Pinned, Plain, RoleTypes
  <2> HIDE DEF d
  <2>5. /\ Tagged(Pinned(Plain("lorebook_entries")))
    BY DEF Tagged, Allows, RoleTypes, Defined, Pinned, Plain
  <2>6. /\ Housed("lorebook", d, Pinned(Plain("lorebook_entries")))
    BY <2>1, <2>4, <2>5 DEF Housed, Free, Home
  <2>7. DefinitionSound("lorebook", d)
    BY <2>1, <2>2, <2>3, <2>4, <2>6, OneElement
  <2> QED
    BY <2>1, <2>7 DEF d
<1>2. 1 .. 1 = {1}
  OBVIOUS
<1> QED
  BY <1>0, <1>1, <1>2 DEF SharedIds

LEMMA PresetSound ==
    /\ DOMAIN Preset = 1 .. 5 /\ Len(Preset) = 5
    /\ \A i \in 1 .. 5 : DefinitionSound("preset", Preset[i]) /\ Preset[i].id \notin SharedIds
    /\ \A i, j \in 1 .. 5 : i # j => Preset[i].id # Preset[j].id
<1>0. DOMAIN Preset = 1 .. 5 /\ Len(Preset) = 5
  BY DEF Preset
<1>1. DefinitionSound("preset", Preset[1]) /\ Preset[1].id = "preset_core"
  <2> DEFINE d == Preset[1]
  <2>1. d.id = "preset_core" /\ d.required = TRUE
    BY DEF Preset, Required, Optional
  <2>2. LayoutsSound(d)
    BY OneLayout DEF Preset, Required, Optional
  <2>3. d.elements = <<Pinned(Plain("prompt_fragments"))>>
    BY DEF Preset, Required, Optional
  <2>4. /\ Pinned(Plain("prompt_fragments")).role = "prompt_fragments"
        /\ Pinned(Plain("prompt_fragments")).pinned
    BY DEF Defined, Pinned, Plain, RoleTypes
  <2> HIDE DEF d
  <2>5. /\ Tagged(Pinned(Plain("prompt_fragments")))
    BY DEF Tagged, Allows, RoleTypes, Defined, Pinned, Plain
  <2>6. /\ Housed("preset", d, Pinned(Plain("prompt_fragments")))
    BY <2>1, <2>4, <2>5 DEF Housed, Free, Home
  <2>7. DefinitionSound("preset", d)
    BY <2>1, <2>2, <2>3, <2>4, <2>6, OneElement
  <2> QED
    BY <2>1, <2>7 DEF d
<1>2. DefinitionSound("preset", Preset[2]) /\ Preset[2].id = "settings"
  <2> DEFINE d == Preset[2]
  <2>1. d.id = "settings" /\ d.required = FALSE
    BY DEF Preset, Optional
  <2>2. LayoutsSound(d)
    BY ManyLayouts DEF Preset, Optional
  <2>3. d.elements = <<Plain("sampler_settings"), Plain("completion_settings"), Plain("advanced_settings")>>
    BY DEF Preset, Optional
  <2>4. /\ Plain("sampler_settings").role = "sampler_settings"
        /\ Plain("completion_settings").role = "completion_settings"
        /\ Plain("advanced_settings").role = "advanced_settings"
    BY DEF Defined, Plain, RoleTypes
  <2> HIDE DEF d
  <2>5. /\ Tagged(Plain("sampler_settings"))
        /\ Tagged(Plain("completion_settings"))
        /\ Tagged(Plain("advanced_settings"))
    BY DEF Tagged, Allows, RoleTypes, Defined, Plain
  <2>6. /\ Housed("preset", d, Plain("sampler_settings"))
        /\ Housed("preset", d, Plain("completion_settings"))
        /\ Housed("preset", d, Plain("advanced_settings"))
    BY <2>1, <2>4, <2>5 DEF Housed, Free, Home
  <2>7. DefinitionSound("preset", d)
    BY <2>1, <2>2, <2>3, <2>4, <2>6, ThreeElements DEF Free
  <2> QED
    BY <2>1, <2>7 DEF d
<1>3. DefinitionSound("preset", Preset[3]) /\ Preset[3].id = "variables"
  <2> DEFINE d == Preset[3]
  <2>1. d.id = "variables" /\ d.required = FALSE
    BY DEF Preset, Optional
  <2>2. LayoutsSound(d)
    BY OneLayout DEF Preset, Optional
  <2>3. d.elements = <<Plain("prompt_variables")>>
    BY DEF Preset, Optional
  <2>4. /\ Plain("prompt_variables").role = "prompt_variables"
    BY DEF Defined, Plain, RoleTypes
  <2> HIDE DEF d
  <2>5. /\ Tagged(Plain("prompt_variables"))
    BY DEF Tagged, Allows, RoleTypes, Defined, Plain
  <2>6. /\ Housed("preset", d, Plain("prompt_variables"))
    BY <2>1, <2>4, <2>5 DEF Housed, Free, Home
  <2>7. DefinitionSound("preset", d)
    BY <2>1, <2>2, <2>3, <2>4, <2>6, OneElement
  <2> QED
    BY <2>1, <2>7 DEF d
<1>4. DefinitionSound("preset", Preset[4]) /\ Preset[4].id = "scripts"
  <2> DEFINE d == Preset[4]
  <2>1. d.id = "scripts" /\ d.required = FALSE
    BY DEF Preset, Optional
  <2>2. LayoutsSound(d)
    BY OneLayout DEF Preset, Optional
  <2>3. d.elements = <<Plain("regex_scripts")>>
    BY DEF Preset, Optional
  <2>4. /\ Plain("regex_scripts").role = "regex_scripts"
    BY DEF Defined, Plain, RoleTypes
  <2> HIDE DEF d
  <2>5. /\ Tagged(Plain("regex_scripts"))
    BY DEF Tagged, Allows, RoleTypes, Defined, Plain
  <2>6. /\ Housed("preset", d, Plain("regex_scripts"))
    BY <2>1, <2>4, <2>5 DEF Housed, Free, Home
  <2>7. DefinitionSound("preset", d)
    BY <2>1, <2>2, <2>3, <2>4, <2>6, OneElement
  <2> QED
    BY <2>1, <2>7 DEF d
<1>5. DefinitionSound("preset", Preset[5]) /\ Preset[5].id = "nudges"
  <2> DEFINE d == Preset[5]
  <2>1. d.id = "nudges" /\ d.required = FALSE
    BY DEF Preset, Optional
  <2>2. LayoutsSound(d)
    BY OneLayout DEF Preset, Optional
  <2>3. d.elements = <<Defined("prompt_nudges", "text_set", "verbatim")>>
    BY DEF Preset, Optional
  <2>4. /\ Defined("prompt_nudges", "text_set", "verbatim").role = "prompt_nudges"
    BY DEF Defined
  <2> HIDE DEF d
  <2>5. /\ Tagged(Defined("prompt_nudges", "text_set", "verbatim"))
    BY DEF Tagged, Allows, RoleTypes, Defined
  <2>6. /\ Housed("preset", d, Defined("prompt_nudges", "text_set", "verbatim"))
    BY <2>1, <2>4, <2>5 DEF Housed, Free, Home
  <2>7. DefinitionSound("preset", d)
    BY <2>1, <2>2, <2>3, <2>4, <2>6, OneElement
  <2> QED
    BY <2>1, <2>7 DEF d
<1>6. 1 .. 5 = {1, 2, 3, 4, 5}
  OBVIOUS
<1> QED
  BY <1>0, <1>1, <1>2, <1>3, <1>4, <1>5, <1>6 DEF SharedIds

LEMMA ThemeSound ==
    /\ DOMAIN Theme = 1 .. 2 /\ Len(Theme) = 2
    /\ \A i \in 1 .. 2 : DefinitionSound("theme", Theme[i]) /\ Theme[i].id \notin SharedIds
    /\ \A i, j \in 1 .. 2 : i # j => Theme[i].id # Theme[j].id
<1>0. DOMAIN Theme = 1 .. 2 /\ Len(Theme) = 2
  BY DEF Theme
<1>1. DefinitionSound("theme", Theme[1]) /\ Theme[1].id = "theme_core"
  <2> DEFINE d == Theme[1]
  <2>1. d.id = "theme_core" /\ d.required = TRUE
    BY DEF Theme, Required, Optional
  <2>2. LayoutsSound(d)
    BY ManyLayouts DEF Theme, Required, Optional
  <2>3. d.elements = <<Pinned(Plain("theme_tokens")), Pinned(Plain("theme_controls"))>>
    BY DEF Theme, Required, Optional
  <2>4. /\ Pinned(Plain("theme_tokens")).role = "theme_tokens"
        /\ Pinned(Plain("theme_controls")).role = "theme_controls"
        /\ Pinned(Plain("theme_tokens")).pinned
    BY DEF Defined, Pinned, Plain, RoleTypes
  <2> HIDE DEF d
  <2>5. /\ Tagged(Pinned(Plain("theme_tokens")))
        /\ Tagged(Pinned(Plain("theme_controls")))
    BY DEF Tagged, Allows, RoleTypes, Defined, Pinned, Plain
  <2>6. /\ Housed("theme", d, Pinned(Plain("theme_tokens")))
        /\ Housed("theme", d, Pinned(Plain("theme_controls")))
    BY <2>1, <2>4, <2>5 DEF Housed, Free, Home
  <2>7. DefinitionSound("theme", d)
    BY <2>1, <2>2, <2>3, <2>4, <2>6, TwoElements
  <2> QED
    BY <2>1, <2>7 DEF d
<1>2. DefinitionSound("theme", Theme[2]) /\ Theme[2].id = "stylesheet"
  <2> DEFINE d == Theme[2]
  <2>1. d.id = "stylesheet" /\ d.required = TRUE
    BY DEF Theme, Required, Optional
  <2>2. LayoutsSound(d)
    BY OneLayout DEF Theme, Required, Optional
  <2>3. d.elements = <<Pinned(Plain("stylesheets"))>>
    BY DEF Theme, Required, Optional
  <2>4. /\ Pinned(Plain("stylesheets")).role = "stylesheets"
        /\ Pinned(Plain("stylesheets")).pinned
    BY DEF Defined, Pinned, Plain, RoleTypes
  <2> HIDE DEF d
  <2>5. /\ Tagged(Pinned(Plain("stylesheets")))
    BY DEF Tagged, Allows, RoleTypes, Defined, Pinned, Plain
  <2>6. /\ Housed("theme", d, Pinned(Plain("stylesheets")))
    BY <2>1, <2>4, <2>5 DEF Housed, Free, Home
  <2>7. DefinitionSound("theme", d)
    BY <2>1, <2>2, <2>3, <2>4, <2>6, OneElement
  <2> QED
    BY <2>1, <2>7 DEF d
<1>3. 1 .. 2 = {1, 2}
  OBVIOUS
<1> QED
  BY <1>0, <1>1, <1>2, <1>3 DEF SharedIds

LEMMA PackSound ==
    /\ DOMAIN Pack = 1 .. 1 /\ Len(Pack) = 1
    /\ \A i \in 1 .. 1 : DefinitionSound("pack", Pack[i]) /\ Pack[i].id \notin SharedIds
    /\ \A i, j \in 1 .. 1 : i # j => Pack[i].id # Pack[j].id
<1>0. DOMAIN Pack = 1 .. 1 /\ Len(Pack) = 1
  BY DEF Pack
<1>1. DefinitionSound("pack", Pack[1]) /\ Pack[1].id = "pack_core"
  <2> DEFINE d == Pack[1]
  <2>1. d.id = "pack_core" /\ d.required = TRUE
    BY DEF Pack, Required, Optional
  <2>2. LayoutsSound(d)
    BY OneLayout DEF Pack, Required, Optional
  <2>3. d.elements = <<Pinned(Plain("pack_items"))>>
    BY DEF Pack, Required, Optional
  <2>4. /\ Pinned(Plain("pack_items")).role = "pack_items"
        /\ Pinned(Plain("pack_items")).pinned
    BY DEF Defined, Pinned, Plain, RoleTypes
  <2> HIDE DEF d
  <2>5. /\ Tagged(Pinned(Plain("pack_items")))
    BY DEF Tagged, Allows, RoleTypes, Defined, Pinned, Plain
  <2>6. /\ Housed("pack", d, Pinned(Plain("pack_items")))
    BY <2>1, <2>4, <2>5 DEF Housed, Free, Home
  <2>7. DefinitionSound("pack", d)
    BY <2>1, <2>2, <2>3, <2>4, <2>6, OneElement
  <2> QED
    BY <2>1, <2>7 DEF d
<1>2. 1 .. 1 = {1}
  OBVIOUS
<1> QED
  BY <1>0, <1>1, <1>2 DEF SharedIds

LEMMA NotesSound ==
    ASSUME NEW k
    PROVE  /\ DOMAIN Notes = 1 .. 6 /\ Len(Notes) = 6
           /\ \A i \in 1 .. 6 : DefinitionSound(k, Notes[i]) /\ Notes[i].id \in SharedIds \ {"gallery"}
           /\ \A i, j \in 1 .. 6 : i # j => Notes[i].id # Notes[j].id
<1>0. DOMAIN Notes = 1 .. 6 /\ Len(Notes) = 6
  BY DEF Notes
<1>1. DefinitionSound(k, Notes[1]) /\ Notes[1].id = "usage"
  <2> DEFINE d == Notes[1]
  <2>1. d.id = "usage" /\ d.required = FALSE
    BY DEF Notes, Optional
  <2>2. LayoutsSound(d)
    BY OneLayout DEF Notes, Optional
  <2>3. d.elements = <<Rich(None)>>
    BY DEF Notes, Optional
  <2>4. /\ Rich(None).role = None
    BY DEF Defined, Rich
  <2> HIDE DEF d
  <2>5. /\ Tagged(Rich(None))
    BY DEF Tagged, Allows, RoleTypes, Defined, Rich
  <2>6. /\ Housed(k, d, Rich(None))
    BY <2>1, <2>4, <2>5 DEF Housed, Free, Home
  <2>7. DefinitionSound(k, d)
    BY <2>1, <2>2, <2>3, <2>4, <2>6, OneElement
  <2> QED
    BY <2>1, <2>7 DEF d
<1>2. DefinitionSound(k, Notes[2]) /\ Notes[2].id = "changelog"
  <2> DEFINE d == Notes[2]
  <2>1. d.id = "changelog" /\ d.required = FALSE
    BY DEF Notes, Optional
  <2>2. LayoutsSound(d)
    BY OneLayout DEF Notes, Optional
  <2>3. d.elements = <<Texts(None)>>
    BY DEF Notes, Optional
  <2>4. /\ Texts(None).role = None
    BY DEF Defined, Texts
  <2> HIDE DEF d
  <2>5. /\ Tagged(Texts(None))
    BY DEF Tagged, Allows, RoleTypes, Defined, Texts
  <2>6. /\ Housed(k, d, Texts(None))
    BY <2>1, <2>4, <2>5 DEF Housed, Free, Home
  <2>7. DefinitionSound(k, d)
    BY <2>1, <2>2, <2>3, <2>4, <2>6, OneElement
  <2> QED
    BY <2>1, <2>7 DEF d
<1>3. DefinitionSound(k, Notes[3]) /\ Notes[3].id = "attributes"
  <2> DEFINE d == Notes[3]
  <2>1. d.id = "attributes" /\ d.required = FALSE
    BY DEF Notes, Optional
  <2>2. LayoutsSound(d)
    BY OneLayout DEF Notes, Optional
  <2>3. d.elements = <<Defined(None, "field_list", None)>>
    BY DEF Notes, Optional
  <2>4. /\ Defined(None, "field_list", None).role = None
    BY DEF Defined
  <2> HIDE DEF d
  <2>5. /\ Tagged(Defined(None, "field_list", None))
    BY DEF Tagged, Allows, RoleTypes, Defined
  <2>6. /\ Housed(k, d, Defined(None, "field_list", None))
    BY <2>1, <2>4, <2>5 DEF Housed, Free, Home
  <2>7. DefinitionSound(k, d)
    BY <2>1, <2>2, <2>3, <2>4, <2>6, OneElement
  <2> QED
    BY <2>1, <2>7 DEF d
<1>4. DefinitionSound(k, Notes[4]) /\ Notes[4].id = "author_notes"
  <2> DEFINE d == Notes[4]
  <2>1. d.id = "author_notes" /\ d.required = FALSE
    BY DEF Notes, Optional
  <2>2. LayoutsSound(d)
    BY OneLayout DEF Notes, Optional
  <2>3. d.elements = <<Rich("creator_notes")>>
    BY DEF Notes, Optional
  <2>4. /\ Rich("creator_notes").role = "creator_notes"
    BY DEF Defined, Rich
  <2> HIDE DEF d
  <2>5. /\ Tagged(Rich("creator_notes"))
    BY DEF Tagged, Allows, RoleTypes, Defined, Rich
  <2>6. /\ Housed(k, d, Rich("creator_notes"))
    BY <2>1, <2>4, <2>5 DEF Housed, Free, Home
  <2>7. DefinitionSound(k, d)
    BY <2>1, <2>2, <2>3, <2>4, <2>6, OneElement
  <2> QED
    BY <2>1, <2>7 DEF d
<1>5. DefinitionSound(k, Notes[5]) /\ Notes[5].id = "runs_best_with"
  <2> DEFINE d == Notes[5]
  <2>1. d.id = "runs_best_with" /\ d.required = FALSE
    BY DEF Notes, Optional
  <2>2. LayoutsSound(d)
    BY OneLayout DEF Notes, Optional
  <2>3. d.elements = <<Defined(None, "link_list", None)>>
    BY DEF Notes, Optional
  <2>4. /\ Defined(None, "link_list", None).role = None
    BY DEF Defined
  <2> HIDE DEF d
  <2>5. /\ Tagged(Defined(None, "link_list", None))
    BY DEF Tagged, Allows, RoleTypes, Defined
  <2>6. /\ Housed(k, d, Defined(None, "link_list", None))
    BY <2>1, <2>4, <2>5 DEF Housed, Free, Home
  <2>7. DefinitionSound(k, d)
    BY <2>1, <2>2, <2>3, <2>4, <2>6, OneElement
  <2> QED
    BY <2>1, <2>7 DEF d
<1>6. DefinitionSound(k, Notes[6]) /\ Notes[6].id = "custom_block"
  <2>1. Notes[6] = CustomBlock
    BY DEF Notes
  <2>2. /\ CustomBlock.id = "custom_block" /\ CustomBlock.required = FALSE
        /\ CustomBlock.elements = <<>> /\ CustomBlock.width = "full"
        /\ CustomBlock.layouts = <<"single", "duo", "main-aside", "trio", "stack-2", "stack-3">>
    BY DEF CustomBlock, Optional
  <2>3. LayoutsSound(CustomBlock)
    BY <2>2, AnyLayout
  <2> QED
    BY <2>1, <2>2, <2>3, NoElements
<1>7. 1 .. 6 = {1, 2, 3, 4, 5, 6}
  OBVIOUS
<1> QED
  BY <1>0, <1>1, <1>2, <1>3, <1>4, <1>5, <1>6, <1>7 DEF SharedIds

CatalogSound(k, c) ==
    /\ c \in Seq(Images(c))
    /\ \A i \in DOMAIN c : DefinitionSound(k, c[i])
    /\ \A i, j \in DOMAIN c : i # j => c[i].id # c[j].id

LEMMA Listed ==
    ASSUME NEW c, NEW n \in Nat, c = [i \in 1 .. n |-> c[i]]
    PROVE  c \in Seq(Images(c))
<1>1. c \in [1 .. n -> Images(c)]
  BY DEF Images
<1> QED
  BY <1>1, SeqDef

LEMMA Literal ==
    \A c \in {Character, LorebookKind, Preset, Theme, Pack, Notes} : c \in Seq(Images(c))
<1>1. Character = [i \in 1 .. 7 |-> Character[i]]
  BY DEF Character
<1>2. LorebookKind = [i \in 1 .. 1 |-> LorebookKind[i]]
  BY DEF LorebookKind
<1>3. Preset = [i \in 1 .. 5 |-> Preset[i]]
  BY DEF Preset
<1>4. Theme = [i \in 1 .. 2 |-> Theme[i]]
  BY DEF Theme
<1>5. Pack = [i \in 1 .. 1 |-> Pack[i]]
  BY DEF Pack
<1>6. Notes = [i \in 1 .. 6 |-> Notes[i]]
  BY DEF Notes
<1> QED
  BY <1>1, <1>2, <1>3, <1>4, <1>5, <1>6, Listed

LEMMA OwnImages ==
    ASSUME NEW S, NEW u \in Seq(S)
    PROVE  u \in Seq(Images(u))
<1>1. u \in [1 .. Len(u) -> S] /\ Len(u) \in Nat
  BY LenProperties
<1>2. u = [i \in 1 .. Len(u) |-> u[i]]
  BY <1>1
<1> QED
  BY <1>1, <1>2, Listed

(* Two catalogs in a row, with no id in common. *)
LEMMA InARow ==
    ASSUME NEW k, NEW s, NEW t, CatalogSound(k, s), CatalogSound(k, t),
           \A i \in DOMAIN s, j \in DOMAIN t : s[i].id # t[j].id
    PROVE  /\ CatalogSound(k, s \o t)
           /\ \A i \in DOMAIN (s \o t) : (s \o t)[i] \in Images(s) \cup Images(t)
<1> DEFINE S == Images(s) \cup Images(t)
<1>1. s \in Seq(S) /\ t \in Seq(S)
  BY SeqMonotonic DEF CatalogSound
<1>2. /\ s \o t \in Seq(S) /\ Len(s \o t) = Len(s) + Len(t) /\ Len(s) \in Nat /\ Len(t) \in Nat
      /\ DOMAIN s = 1 .. Len(s) /\ DOMAIN t = 1 .. Len(t) /\ DOMAIN (s \o t) = 1 .. Len(s) + Len(t)
      /\ \A i \in 1 .. Len(s) + Len(t) : (s \o t)[i] = IF i <= Len(s) THEN s[i] ELSE t[i - Len(s)]
  BY <1>1
<1> HIDE DEF S
<1>3. s \o t \in Seq(Images(s \o t))
  BY <1>2, OwnImages
<1>4. \A i \in DOMAIN (s \o t) :
        \/ i \in DOMAIN s /\ (s \o t)[i] = s[i]
        \/ i - Len(s) \in DOMAIN t /\ i > Len(s) /\ (s \o t)[i] = t[i - Len(s)]
  BY <1>2
<1>5. \A i \in DOMAIN (s \o t) : DefinitionSound(k, (s \o t)[i])
  BY <1>4 DEF CatalogSound
<1>6. \A i, j \in DOMAIN (s \o t) : i # j => (s \o t)[i].id # (s \o t)[j].id
  BY <1>2, <1>4 DEF CatalogSound
<1> QED
  BY <1>3, <1>4, <1>5, <1>6 DEF CatalogSound, Images

LEMMA SharedSound ==
    ASSUME NEW k
    PROVE  CatalogSound(k, Shared) /\ \A i \in DOMAIN Shared : Shared[i].id \in SharedIds
<1>1. CatalogSound(k, Notes) /\ \A i \in DOMAIN Notes : Notes[i].id \in SharedIds \ {"gallery"}
  BY NotesSound, Literal DEF CatalogSound
<1>2. DefinitionSound(k, Gallery) /\ Gallery.id = "gallery"
  <2>1. Gallery.id = "gallery" /\ Gallery.required = FALSE
    BY DEF Gallery, Optional
  <2>2. LayoutsSound(Gallery)
    BY OneLayout DEF Gallery, Optional
  <2>3. Gallery.elements = <<Defined("gallery", "image_set", "medium")>>
    BY DEF Gallery, Optional
  <2>4. Housed(k, Gallery, Defined("gallery", "image_set", "medium"))
    BY DEF Housed, Free, Tagged, Allows, RoleTypes, Defined
  <2> QED
    BY <2>1, <2>2, <2>3, <2>4, OneElement
<1>3. PICK g : g = <<Gallery>>
  OBVIOUS
<1>4. CatalogSound(k, g) /\ DOMAIN g = {1} /\ g[1] = Gallery /\ Len(g) = 1
  <2>1. g = [i \in 1 .. 1 |-> g[i]] /\ DOMAIN g = {1} /\ g[1] = Gallery /\ Len(g) = 1
    BY <1>3
  <2> QED
    BY <1>2, <2>1, Listed DEF CatalogSound
<1>5. \A i \in DOMAIN g, j \in DOMAIN Notes : g[i].id # Notes[j].id
  BY <1>1, <1>2, <1>4
<1>6. /\ CatalogSound(k, g \o Notes)
      /\ \A i \in DOMAIN (g \o Notes) : (g \o Notes)[i] \in Images(g) \cup Images(Notes)
  BY <1>1, <1>4, <1>5, InARow
<1>7. \A d \in Images(g) \cup Images(Notes) : d.id \in SharedIds
  BY <1>1, <1>2, <1>4 DEF Images, SharedIds
<1> QED
  BY <1>3, <1>6, <1>7 DEF Shared

(* Every kind's catalog. *)
LEMMA CatalogsSound ==
    ASSUME NEW k \in Kinds
    PROVE  CatalogSound(k, Catalog(k))
<1>1. ASSUME NEW own, CatalogSound(k, own), \A i \in DOMAIN own : own[i].id \notin SharedIds
      PROVE  CatalogSound(k, own \o Shared)
  BY <1>1, SharedSound, InARow
<1>2. CASE k = "character"
  <2>1. Catalog(k) = Character \o Shared
    BY <1>2 DEF Catalog
  <2>2. CatalogSound(k, Character)
    BY <1>2, CharacterSound, Literal DEF CatalogSound
  <2> QED
    BY <1>1, <2>1, <2>2, CharacterSound
<1>3. CASE k = "lorebook"
  <2>1. Catalog(k) = LorebookKind \o Shared
    BY <1>3 DEF Catalog
  <2>2. CatalogSound(k, LorebookKind)
    BY <1>3, LorebookKindSound, Literal DEF CatalogSound
  <2> QED
    BY <1>1, <2>1, <2>2, LorebookKindSound
<1>4. CASE k = "preset"
  <2>1. Catalog(k) = Preset \o Shared
    BY <1>4 DEF Catalog
  <2>2. CatalogSound(k, Preset)
    BY <1>4, PresetSound, Literal DEF CatalogSound
  <2> QED
    BY <1>1, <2>1, <2>2, PresetSound
<1>5. CASE k = "theme"
  <2>1. Catalog(k) = Theme \o Shared
    BY <1>5 DEF Catalog
  <2>2. CatalogSound(k, Theme)
    BY <1>5, ThemeSound, Literal DEF CatalogSound
  <2> QED
    BY <1>1, <2>1, <2>2, ThemeSound
<1>6. CASE k = "pack"
  <2>1. Catalog(k) = Pack \o Shared
    BY <1>6 DEF Catalog
  <2>2. CatalogSound(k, Pack)
    BY <1>6, PackSound, Literal DEF CatalogSound
  <2> QED
    BY <1>1, <2>1, <2>2, PackSound
<1> QED
  BY <1>2, <1>3, <1>4, <1>5, <1>6 DEF Kinds

-----------------------------------------------------------------------------
(* Selecting from a sequence: every place kept is there once, in order. *)
Selection(p, s, keep) ==
    /\ Len(p) \in Nat /\ DOMAIN p = 1 .. Len(p) /\ p \in Seq(Images(p))
    /\ \E at \in [1 .. Len(p) -> keep] :
         /\ \A i \in 1 .. Len(p) : p[i] = s[at[i]]
         /\ \A i, j \in 1 .. Len(p) : i # j => at[i] # at[j]
         /\ \A k \in keep : \E i \in 1 .. Len(p) : at[i] = k

LEMMA KeptPlaces ==
    ASSUME NEW s, NEW n \in Nat, NEW keep \in SUBSET (1 .. n)
    PROVE  Selection(Kept(s, keep), s, keep)
<1> DEFINE Upto(i) == {k \in keep : k <= i}
           size == Cardinality(keep)
           rank == [i \in keep |-> Rank(i, keep)]
           at == [m \in 1 .. size |-> CHOOSE i \in keep : Rank(i, keep) = m]
<1>0. \A i \in keep : i \in Nat
  OBVIOUS
<1>1. IsFiniteSet(keep) /\ size \in Nat
  <2>1. IsFiniteSet(1 .. n)
    BY FS_Interval
  <2>2. IsFiniteSet(keep)
    BY <2>1, FS_Subset
  <2> QED
    BY <2>2, FS_CardinalityType
<1>2. ASSUME NEW i \in keep
      PROVE  IsFiniteSet(Upto(i)) /\ Rank(i, keep) \in 1 .. size
  <2>1. Upto(i) \in SUBSET keep /\ i \in Upto(i) /\ Rank(i, keep) = Cardinality(Upto(i))
    BY DEF Rank
  <2>2. IsFiniteSet(Upto(i)) /\ Cardinality(Upto(i)) \in Nat /\ Cardinality(Upto(i)) <= size
    BY <1>1, <2>1, FS_Subset, FS_CardinalityType
  <2>3. Cardinality(Upto(i)) # 0
    BY <2>1, <2>2, FS_EmptySet
  <2> QED
    BY <1>1, <2>1, <2>2, <2>3
<1>3. ASSUME NEW i \in keep, NEW j \in keep, i < j
      PROVE  Rank(i, keep) # Rank(j, keep)
  <2>1. Upto(i) \in SUBSET Upto(j) /\ j \in Upto(j) /\ j \notin Upto(i)
    <3>1. \A k \in keep : k <= i => k <= j
      BY <1>0, <1>3
    <3>2. j <= j /\ ~(j <= i)
      BY <1>0, <1>3
    <3> QED
      BY <3>1, <3>2
  <2>2. Cardinality(Upto(i)) # Cardinality(Upto(j))
    BY <1>2, <2>1, FS_Subset
  <2> QED
    BY <2>2 DEF Rank
<1>4. rank \in Injection(keep, 1 .. size)
  <2>1. rank \in [keep -> 1 .. size]
    BY <1>2
  <2>2. \A i, j \in keep : rank[i] = rank[j] => i = j
    BY <1>0, <1>3
  <2> HIDE DEF rank
  <2> QED
    BY <2>1, <2>2 DEF Injection, IsInjective
<1>5. rank \in Surjection(keep, 1 .. size)
  <2>1. IsFiniteSet(1 .. size) /\ Cardinality(1 .. size) = size
    BY <1>1, FS_Interval
  <2> QED
    BY <1>1, <1>4, <2>1, FS_Injection
<1>6. \A m \in 1 .. size : at[m] \in keep /\ Rank(at[m], keep) = m
  <2>1. \A m \in 1 .. size : \E i \in keep : Rank(i, keep) = m
    BY <1>5 DEF Surjection
  <2> QED
    BY <2>1
<1>7. \A k \in keep : at[Rank(k, keep)] = k
  <2> SUFFICES ASSUME NEW k \in keep PROVE at[Rank(k, keep)] = k
    OBVIOUS
  <2>1. PICK m \in 1 .. size : m = Rank(k, keep)
    BY <1>2
  <2>2. PICK j \in keep : j = at[m] /\ Rank(j, keep) = m
    BY <1>6
  <2>3. ~(j < k) /\ ~(k < j)
    BY <1>3, <2>1, <2>2
  <2> QED
    BY <1>0, <2>1, <2>2, <2>3
<1>8. /\ DOMAIN Kept(s, keep) = 1 .. size
      /\ \A i \in 1 .. size : Kept(s, keep)[i] = s[at[i]]
      /\ Kept(s, keep) = [i \in 1 .. size |-> Kept(s, keep)[i]]
  BY DEF Kept
<1>9. Kept(s, keep) \in Seq(Images(Kept(s, keep)))
  BY <1>1, <1>8, Listed
<1>10. Len(Kept(s, keep)) = size
  BY <1>1, <1>8, <1>9, LenProperties
<1>11. /\ at \in [1 .. size -> keep]
       /\ \A i, j \in 1 .. size : i # j => at[i] # at[j]
       /\ \A k \in keep : \E i \in 1 .. size : at[i] = k
  BY <1>2, <1>6, <1>7
<1> HIDE DEF size, at
<1>12. PICK p : p = Kept(s, keep)
  OBVIOUS
<1>13. /\ Len(p) \in Nat /\ Len(p) = size /\ DOMAIN p = 1 .. Len(p) /\ p \in Seq(Images(p))
       /\ \A i \in 1 .. Len(p) : p[i] = s[at[i]]
  BY <1>1, <1>8, <1>9, <1>10, <1>12
<1> QED
  BY <1>11, <1>12, <1>13 DEF Selection

-----------------------------------------------------------------------------
(* A definition is known by its id. *)
LEMMA OneDefinition ==
    ASSUME NEW k \in Kinds, NEW c \in DOMAIN Catalog(k)
    PROVE  /\ DefinitionSound(k, Catalog(k)[c]) /\ Catalog(k)[c] \in Images(Catalog(k))
           /\ InCatalog(k, Catalog(k)[c].id) /\ Definition(k, Catalog(k)[c].id) = Catalog(k)[c]
<1>1. DefinitionSound(k, Catalog(k)[c])
      /\ \A d \in Images(Catalog(k)) : d.id = Catalog(k)[c].id => d = Catalog(k)[c]
  BY CatalogsSound DEF CatalogSound, Images
<1>2. Catalog(k)[c] \in Images(Catalog(k))
  BY DEF Images
<1> QED
  BY <1>1, <1>2 DEF InCatalog, Definition

LEMMA SlotsCounted ==
    ASSUME NEW l
    PROVE  /\ Len(Slots(l)) \in 0 .. 3 /\ DOMAIN Slots(l) = 1 .. Len(Slots(l))
           /\ Slots(l) # <<>> => l \in LayoutNames
<1>1. CASE l = "single"
  BY <1>1 DEF Slots, LayoutNames
<1>2. CASE l = "duo"
  BY <1>2 DEF Slots, LayoutNames
<1>3. CASE l = "main-aside"
  BY <1>3 DEF Slots, LayoutNames
<1>4. CASE l = "trio"
  BY <1>4 DEF Slots, LayoutNames
<1>5. CASE l = "stack-2"
  BY <1>5 DEF Slots, LayoutNames
<1>6. CASE l = "stack-3"
  BY <1>6 DEF Slots, LayoutNames
<1>7. CASE l \notin LayoutNames
  <2>1. Slots(l) = <<>>
    BY <1>7 DEF Slots, LayoutNames
  <2> QED
    BY <2>1
<1> QED
  BY <1>1, <1>2, <1>3, <1>4, <1>5, <1>6, <1>7 DEF LayoutNames

LEMMA WidthNamed ==
    ASSUME NEW w, Columns(w) # 0
    PROVE  w \in {"full", "two_thirds", "half", "third"}
BY DEF Columns

LEMMA LeastNat ==
    ASSUME NEW S \in SUBSET Nat, S # {}
    PROVE  \E n \in S : \A m \in S : n <= m
<1>1. PICK n \in S : \A m \in S : ~(<<m, n>> \in OpToRel(<, Nat))
  BY NatLessThanWellFounded, WFMin
<1>2. \A m \in S : ~(m < n)
  BY <1>1 DEF OpToRel
<1> QED
  BY <1>2

(* The layout a block starts in is one of its own, with room, and no wider *)
(* than the block.                                                        *)
LEMMA Fitting ==
    ASSUME NEW d, NEW n \in Nat, LayoutsSound(d), LayoutFor(d, n) # None
    PROVE  /\ LayoutFor(d, n) \in Images(d.layouts) /\ Len(Slots(LayoutFor(d, n))) >= n
           /\ WideEnough(d.width, LayoutFor(d, n))
<1> DEFINE fit == {i \in DOMAIN d.layouts : Len(Slots(d.layouts[i])) >= n}
           first == CHOOSE i \in fit : \A j \in fit : i <= j
<1>1. fit # {} /\ LayoutFor(d, n) = d.layouts[first]
  BY DEF LayoutFor
<1>2. fit \in SUBSET Nat /\ DOMAIN d.layouts = 1 .. Len(d.layouts) /\ Len(d.layouts) \in Nat
  BY DEF LayoutsSound
<1>3. first \in fit /\ \A j \in fit : first <= j
  BY <1>1, <1>2, LeastNat
<1> HIDE DEF first
<1>4. PICK i \in DOMAIN d.layouts : i = first /\ i \in 1 .. Len(d.layouts) /\ Len(Slots(d.layouts[i])) >= n
  BY <1>2, <1>3
<1>5. WideEnough(d.width, d.layouts[i])
  <2>1. ASSUME NEW j \in 1 .. i - 1, Len(Slots(d.layouts[j])) >= Len(Slots(d.layouts[i]))
        PROVE  FALSE
    <3>1. j \in DOMAIN d.layouts /\ j < i
      BY <1>2, <1>4
    <3>2. Len(Slots(d.layouts[j])) >= n
      BY <1>4, <2>1, SlotsCounted
    <3> QED
      BY <1>3, <1>4, <3>1, <3>2
  <2> QED
    BY <1>4, <2>1 DEF LayoutsSound, FirstFitIsWide
<1> QED
  BY <1>1, <1>4, <1>5 DEF Images

-----------------------------------------------------------------------------
(* Place and the add tray make a row of a definition and some of its      *)
(* elements.                                                              *)
Made(r, d, defined, id, items) == r = NewRow(d, defined, id, items)

LEMMA RowFields ==
    ASSUME NEW d, NEW defined, NEW id, NEW items, NEW r, Made(r, d, defined, id, items)
    PROVE  /\ r.id = id /\ r.definition = d.id
           /\ r.layout = LayoutFor(d, Len(defined)) /\ r.width = d.width
           /\ r.elements = Laid(d, defined, r.layout, id, items)
BY DEF NewRow, Made

LEMMA RowShown ==
    ASSUME NEW d, NEW defined, NEW id, NEW items, NEW r, Made(r, d, defined, id, items)
    PROVE  r.hidden = FALSE
BY DEF NewRow, Made

LEMMA RowShape ==
    ASSUME NEW d, NEW defined, NEW id, NEW items, NEW r, Made(r, d, defined, id, items)
    PROVE  r = [id |-> r.id, definition |-> r.definition, hidden |-> r.hidden,
                layout |-> r.layout, width |-> r.width, elements |-> r.elements]
BY DEF NewRow, Made

LEMMA LaidFields ==
    ASSUME NEW d, NEW defined, NEW layout, NEW id, NEW items, NEW s, s = Laid(d, defined, layout, id, items)
    PROVE  /\ DOMAIN s = DOMAIN defined
           /\ \A j \in DOMAIN defined :
                /\ s[j].id = Append(id, j) /\ s[j].type = defined[j].type /\ s[j].role = defined[j].role
                /\ s[j].option = defined[j].option /\ s[j].items = items[j] /\ s[j].slot = Slots(layout)[j]
BY DEF Laid

LEMMA LaidShape ==
    ASSUME NEW d, NEW defined, NEW layout, NEW id, NEW items, NEW s, s = Laid(d, defined, layout, id, items)
    PROVE  /\ s = [j \in DOMAIN defined |-> s[j]]
           /\ \A j \in DOMAIN defined :
                s[j] = [id |-> s[j].id, type |-> s[j].type, role |-> s[j].role, slot |-> s[j].slot,
                        option |-> s[j].option, items |-> s[j].items]
BY DEF Laid

(* The id an element is given says where it was made. *)
LEMMA AppendNat ==
    ASSUME NEW s \in Seq(Nat), NEW j \in Nat
    PROVE  /\ Append(s, j) \in Seq(Nat) /\ Append(s, j) # <<>> /\ Append(s, j)[Len(s) + 1] = j
           /\ \A x \in 1 .. Len(s) : Append(s, j)[x] = s[x]
<1>1. Append(s, j) \in Seq(Nat) /\ \A x \in 1 .. Len(s) : Append(s, j)[x] = s[x]
  OBVIOUS
<1>2. Append(s, j) # <<>> /\ Append(s, j)[Len(s) + 1] = j
  OBVIOUS
<1> QED
  BY <1>1, <1>2

LEMMA Minted ==
    ASSUME NEW m \in Nat, NEW i \in Nat, NEW id, id = <<m, i>>, NEW j \in Nat
    PROVE  /\ id \in Nat \X Nat /\ id[1] = m /\ id[2] = i
           /\ Append(id, j) \in Seq(Nat) /\ Append(id, j) # <<>>
           /\ Append(id, j)[1] = m /\ Append(id, j)[2] = i /\ Append(id, j)[3] = j
<1>1. id \in Seq(Nat) /\ Len(id) = 2 /\ id[1] = m /\ id[2] = i /\ id \in Nat \X Nat
  OBVIOUS
<1>2. /\ Append(id, j) \in Seq(Nat) /\ Append(id, j) # <<>> /\ Append(id, j)[3] = j
      /\ \A x \in 1 .. 2 : Append(id, j)[x] = id[x]
  <2>1. PICK s \in Seq(Nat) : s = id /\ Len(s) = 2
    BY <1>1
  <2>2. /\ Append(s, j) \in Seq(Nat) /\ Append(s, j) # <<>> /\ Append(s, j)[Len(s) + 1] = j
        /\ \A x \in 1 .. Len(s) : Append(s, j)[x] = s[x]
    BY AppendNat
  <2>3. Len(s) + 1 = 3
    BY <2>1
  <2> QED
    BY <2>1, <2>2, <2>3
<1> QED
  BY <1>1, <1>2

(* What ValidateStructure and the rules on tags leave of a loose element. *)
LEMMA StructureTypes ==
    ASSUME NEW b, ValidateStructure(b)
    PROVE  /\ b.layout \in LayoutNames
           /\ Len(b.elements) <= Len(Slots(b.layout))
           /\ \A j \in DOMAIN b.elements :
                /\ b.elements[j].type \in Types
                /\ b.elements[j].option \in UNION {OptionsOf(t) : t \in Types}
                /\ b.elements[j].slot \in UNION {Images(Slots(l)) : l \in LayoutNames}
<1>1. b.layout \in LayoutNames
  BY SlotsCounted DEF ValidateStructure
<1> QED
  BY <1>1 DEF ValidateStructure

LEMMA RowTyped ==
    ASSUME NEW d, NEW n \in Nat, NEW defined, DOMAIN defined = 1 .. n,
           \A j \in 1 .. n : Tagged(defined[j]),
           NEW id \in Nat \X Nat, \A j \in 1 .. n : Append(id, j) \in Seq(Nat),
           NEW items, \A j \in 1 .. n : items[j] \in Nat,
           d.id \in DefinitionIds, Columns(d.width) # 0,
           NEW r, Made(r, d, defined, id, items), ValidateStructure(r)
    PROVE  r \in Block
<1>1. r.elements = Laid(d, defined, r.layout, id, items)
  BY RowFields
<1>2. PICK s : s = r.elements
  OBVIOUS
<1>3. \A j \in 1 .. n : s[j] \in Element
  <2> SUFFICES ASSUME NEW j \in 1 .. n PROVE s[j] \in Element
    OBVIOUS
  <2>1. /\ s[j].id = Append(id, j) /\ s[j].type = defined[j].type /\ s[j].role = defined[j].role
        /\ s[j].items = items[j] /\ DOMAIN s = 1 .. n
        /\ s[j] = [id |-> s[j].id, type |-> s[j].type, role |-> s[j].role, slot |-> s[j].slot,
                   option |-> s[j].option, items |-> s[j].items]
    BY <1>1, <1>2, LaidFields, LaidShape, SMTT(30)
  <2>2. s[j].id \in Seq(Nat)
    BY <2>1
  <2>3. /\ s[j].type \in Types /\ s[j].option \in UNION {OptionsOf(t) : t \in Types}
        /\ s[j].slot \in UNION {Images(Slots(l)) : l \in LayoutNames}
    BY <1>2, <2>1, StructureTypes
  <2>4. s[j].role \in DOMAIN RoleTypes \cup {None}
    BY <2>1 DEF Tagged, Allows
  <2>5. s[j].items \in Nat
    BY <2>1
  <2> QED
    BY <2>1, <2>2, <2>3, <2>4, <2>5 DEF Element
<1>4. s \in Seq(Element)
  <2>1. s = [j \in 1 .. n |-> s[j]]
    BY <1>1, <1>2, LaidFields, LaidShape
  <2>2. s \in [1 .. n -> Element]
    BY <1>3, <2>1
  <2> QED
    BY <2>2, SeqDef
<1>5. r.width \in {"full", "two_thirds", "half", "third"} /\ r.definition \in DefinitionIds
      /\ r.id \in Nat \X Nat /\ r.hidden \in BOOLEAN
  <2>1. r.hidden \in BOOLEAN
    BY RowShown
  <2>2. r.width = d.width /\ r.definition = d.id /\ r.id = id
    BY RowFields
  <2> QED
    BY <2>1, <2>2, WidthNamed
<1>6. r = [id |-> r.id, definition |-> r.definition, hidden |-> r.hidden,
           layout |-> r.layout, width |-> r.width, elements |-> r.elements]
  BY RowShape
<1> QED
  BY <1>2, <1>4, <1>5, <1>6, StructureTypes DEF Block

-----------------------------------------------------------------------------
(* Place: one row for each definition shown, with the elements it pins and *)
(* those the file has.                                                    *)
Tag == [role : STRING, type : STRING, items : Nat]

(* The elements of a row are some of its definition's, none of them twice and *)
(* every pinned one.                                                        *)
Drawn(elements, d) ==
    \E at \in [DOMAIN elements -> DOMAIN d.elements] :
        /\ \A j \in DOMAIN elements :
             elements[j].role = d.elements[at[j]].role /\ elements[j].type = d.elements[at[j]].type
        /\ \A i, j \in DOMAIN elements : i # j => at[i] # at[j]
        /\ \A i \in DOMAIN d.elements : d.elements[i].pinned => \E j \in DOMAIN elements : at[j] = i
RowOf(b, d, id) ==
    /\ b.id = id /\ b.definition = d.id /\ b.hidden = FALSE /\ b.width = d.width
    /\ b.layout \in Images(d.layouts) /\ WideEnough(d.width, b.layout)
    /\ \A j \in DOMAIN b.elements : b.elements[j].id = Append(id, j)
    /\ Drawn(b.elements, d)

(* The ids of a row make no difference to its structure. *)
LEMMA StructureOfAny ==
    ASSUME NEW d, NEW n \in Nat, NEW defined, DOMAIN defined = 1 .. n, NEW items,
           NEW o, NEW q, Made(q, d, defined, o, items), ValidateStructure(q),
           NEW id, \A i, j \in 1 .. n : i # j => Append(id, i) # Append(id, j),
           NEW r, Made(r, d, defined, id, items), Len(r.elements) = Len(q.elements)
    PROVE  ValidateStructure(r)
<1>1. r.layout = q.layout /\ r.elements = Laid(d, defined, q.layout, id, items)
      /\ q.elements = Laid(d, defined, q.layout, o, items)
  BY RowFields
<1>2. PICK s, t : s = r.elements /\ t = q.elements
  OBVIOUS
<1>3. /\ DOMAIN s = 1 .. n /\ DOMAIN t = 1 .. n
      /\ \A j \in 1 .. n : /\ s[j].type = t[j].type /\ s[j].option = t[j].option
                           /\ s[j].slot = t[j].slot /\ s[j].items = t[j].items
                           /\ s[j].id = Append(id, j)
  <2>1. s = Laid(d, defined, q.layout, id, items) /\ t = Laid(d, defined, q.layout, o, items)
    BY <1>1, <1>2
  <2>2. DOMAIN s = 1 .. n
        /\ \A j \in 1 .. n : /\ s[j].type = defined[j].type /\ s[j].option = defined[j].option
                             /\ s[j].slot = Slots(q.layout)[j] /\ s[j].items = items[j]
                             /\ s[j].id = Append(id, j)
    BY <2>1, LaidFields
  <2>3. DOMAIN t = 1 .. n
        /\ \A j \in 1 .. n : /\ t[j].type = defined[j].type /\ t[j].option = defined[j].option
                             /\ t[j].slot = Slots(q.layout)[j] /\ t[j].items = items[j]
    BY <2>1, LaidFields
  <2> QED
    BY <2>2, <2>3
<1>4. ValidateContentLimits(s)
  BY <1>2, <1>3 DEF ValidateStructure, ValidateContentLimits
<1>5. \A i, j \in DOMAIN s : i # j => s[i].id # s[j].id /\ s[i].slot # s[j].slot
  BY <1>2, <1>3 DEF ValidateStructure
<1>6. \A i \in DOMAIN s : /\ s[i].type \in Types /\ s[i].option \in OptionsOf(s[i].type)
                          /\ s[i].slot \in Images(Slots(q.layout))
  BY <1>2, <1>3 DEF ValidateStructure
<1>7. Slots(q.layout) # <<>> /\ Len(s) <= Len(Slots(q.layout))
  BY <1>2 DEF ValidateStructure
<1> QED
  BY <1>1, <1>2, <1>4, <1>5, <1>6, <1>7 DEF ValidateStructure

(* What a definition shows of a file. *)
LEMMA PresentElements ==
    ASSUME NEW k, NEW d, DefinitionSound(k, d), NEW tagged, NEW p, p = Present(d, tagged)
    PROVE  /\ Len(p) \in Nat /\ DOMAIN p = 1 .. Len(p)
           /\ \A j \in 1 .. Len(p) : Tagged(p[j])
           /\ \E at \in [1 .. Len(p) -> DOMAIN d.elements] :
                /\ \A j \in 1 .. Len(p) : p[j] = d.elements[at[j]]
                /\ \A i, j \in 1 .. Len(p) : i # j => at[i] # at[j]
                /\ \A i \in DOMAIN d.elements : d.elements[i].pinned => \E j \in 1 .. Len(p) : at[j] = i
<1> DEFINE keep == {i \in DOMAIN d.elements : d.elements[i].pinned \/ Fits(d.elements[i], tagged) # {}}
<1>1. p = Kept(d.elements, keep)
  BY DEF Present
<1>2. keep \in SUBSET (1 .. Len(d.elements)) /\ Len(d.elements) \in Nat
      /\ DOMAIN d.elements = 1 .. Len(d.elements)
  BY DEF DefinitionSound
<1>3. \A i \in DOMAIN d.elements : d.elements[i].pinned => i \in keep
  OBVIOUS
<1> HIDE DEF keep
<1>4. Selection(p, d.elements, keep)
  BY <1>1, <1>2, KeptPlaces
<1>5. PICK at \in [1 .. Len(p) -> keep] :
                /\ \A i \in 1 .. Len(p) : p[i] = d.elements[at[i]]
                /\ \A i, j \in 1 .. Len(p) : i # j => at[i] # at[j]
                /\ \A c \in keep : \E i \in 1 .. Len(p) : at[i] = c
  BY <1>4 DEF Selection
<1>6. at \in [1 .. Len(p) -> DOMAIN d.elements]
  BY <1>2, <1>5
<1>7. \A j \in 1 .. Len(p) : Tagged(p[j])
  BY <1>5, <1>6 DEF DefinitionSound, Housed
<1> QED
  BY <1>3, <1>4, <1>5, <1>6, <1>7, SMTT(30) DEF Selection

LEMMA ListedLen ==
    ASSUME NEW c, NEW n \in Nat, c = [i \in 1 .. n |-> c[i]]
    PROVE  Len(c) = n /\ c \in Seq(Images(c))
<1>1. c \in Seq(Images(c)) /\ DOMAIN c = 1 .. n
  BY Listed
<1>2. Len(c) \in Nat /\ DOMAIN c = 1 .. Len(c)
  BY <1>1, LenProperties
<1> QED
  BY <1>1, <1>2

LEMMA RowLength ==
    ASSUME NEW d, NEW n \in Nat, NEW defined, DOMAIN defined = 1 .. n, NEW id, NEW items,
           NEW r, Made(r, d, defined, id, items)
    PROVE  Len(r.elements) = n /\ DOMAIN r.elements = 1 .. n
<1>1. r.elements = Laid(d, defined, r.layout, id, items)
  BY RowFields
<1>2. PICK s : s = r.elements
  OBVIOUS
<1>3. s = [j \in 1 .. n |-> s[j]] /\ DOMAIN s = 1 .. n
  BY <1>1, <1>2, LaidShape
<1> QED
  BY <1>2, <1>3, ListedLen

LEMMA ItemsCounted ==
    ASSUME NEW defined, NEW tagged \in Seq(Tag), NEW j \in DOMAIN defined
    PROVE  ItemsIn(defined, tagged)[j] \in Nat
<1> DEFINE fit == Fits(defined[j], tagged)
<1>1. fit \subseteq DOMAIN tagged
  BY DEF Fits
<1>2. \A t \in DOMAIN tagged : tagged[t].items \in Nat
  <2>1. \A t \in DOMAIN tagged : tagged[t] \in Tag
    OBVIOUS
  <2> QED
    BY <2>1 DEF Tag
<1>3. ItemsIn(defined, tagged)[j] = IF fit = {} THEN 0 ELSE tagged[CHOOSE t \in fit : TRUE].items
  BY DEF ItemsIn
<1> HIDE DEF fit
<1> QED
  BY <1>1, <1>2, <1>3

Picked(p, d, n, at) ==
    /\ DOMAIN p = 1 .. n /\ Len(p) = n /\ at \in [1 .. n -> DOMAIN d.elements]
    /\ \A j \in 1 .. n : p[j] = d.elements[at[j]]
    /\ \A x, j \in 1 .. n : x # j => at[x] # at[j]
    /\ \A x \in DOMAIN d.elements : d.elements[x].pinned => \E j \in 1 .. n : at[j] = x

LEMMA LaidRow ==
    ASSUME NEW d, NEW p, NEW n \in Nat, NEW at, Picked(p, d, n, at),
           LayoutFor(d, n) \in Images(d.layouts), WideEnough(d.width, LayoutFor(d, n)),
           NEW id, NEW items, NEW r, Made(r, d, p, id, items)
    PROVE  RowOf(r, d, id)
<1>0. /\ DOMAIN p = 1 .. n /\ Len(p) = n /\ at \in [1 .. n -> DOMAIN d.elements]
      /\ \A j \in 1 .. n : p[j] = d.elements[at[j]]
      /\ \A x, j \in 1 .. n : x # j => at[x] # at[j]
      /\ \A x \in DOMAIN d.elements : d.elements[x].pinned => \E j \in 1 .. n : at[j] = x
  BY DEF Picked
<1>1. r.id = id /\ r.definition = d.id /\ r.width = d.width /\ r.layout = LayoutFor(d, n)
      /\ r.elements = Laid(d, p, r.layout, id, items)
  BY <1>0, RowFields
<1>2. r.hidden = FALSE
  BY RowShown
<1>3. PICK s : s = r.elements
  OBVIOUS
<1>4. DOMAIN s = 1 .. n
      /\ \A j \in 1 .. n : s[j].id = Append(id, j) /\ s[j].role = p[j].role /\ s[j].type = p[j].type
  BY <1>0, <1>1, <1>3, LaidFields
<1>5. /\ at \in [DOMAIN s -> DOMAIN d.elements]
      /\ \A j \in DOMAIN s : s[j].role = d.elements[at[j]].role /\ s[j].type = d.elements[at[j]].type
  BY <1>0, <1>4
<1>6. /\ \A x, j \in DOMAIN s : x # j => at[x] # at[j]
      /\ \A x \in DOMAIN d.elements : d.elements[x].pinned => \E j \in DOMAIN s : at[j] = x
  BY <1>0, <1>4
<1>7. \A j \in DOMAIN s : s[j].id = Append(id, j)
  BY <1>4
<1>8. Drawn(s, d)
  BY <1>5, <1>6 DEF Drawn
<1> QED
  BY <1>1, <1>2, <1>3, <1>7, <1>8 DEF RowOf

LEMMA PlacedRow ==
    ASSUME NEW k \in Kinds, NEW c \in DOMAIN Catalog(k), NEW d, d = Catalog(k)[c],
           NEW tagged \in Seq(Tag), NEW p, p = Present(d, tagged), LayoutFor(d, Len(p)) # None,
           NEW o, NEW q, Made(q, d, p, o, ItemsIn(p, tagged)), ValidateStructure(q),
           NEW m \in Nat, NEW i \in Nat, NEW id, id = <<m, i>>,
           NEW r, Made(r, d, p, id, ItemsIn(p, tagged))
    PROVE  RowOf(r, d, id) /\ r \in Block /\ ValidateStructure(r)
<1> DEFINE n == Len(p)
<1>1. DefinitionSound(k, d) /\ LayoutsSound(d) /\ d \in Images(Catalog(k))
  BY OneDefinition DEF DefinitionSound
<1>2. n \in Nat /\ DOMAIN p = 1 .. n /\ \A j \in 1 .. n : Tagged(p[j])
  BY <1>1, PresentElements
<1>3. PICK at \in [1 .. n -> DOMAIN d.elements] :
                /\ \A j \in 1 .. n : p[j] = d.elements[at[j]]
                /\ \A x, j \in 1 .. n : x # j => at[x] # at[j]
                /\ \A x \in DOMAIN d.elements : d.elements[x].pinned => \E j \in 1 .. n : at[j] = x
  BY <1>1, PresentElements
<1>4. PICK items : items = ItemsIn(p, tagged) /\ \A j \in 1 .. n : items[j] \in Nat
  BY <1>2, ItemsCounted
<1>5. /\ id \in Nat \X Nat /\ \A j \in 1 .. n : Append(id, j) \in Seq(Nat)
      /\ \A x, j \in 1 .. n : x # j => Append(id, x) # Append(id, j)
  <2>1. \A j \in 1 .. n : Append(id, j) \in Seq(Nat) /\ Append(id, j)[3] = j
    BY <1>2, Minted
  <2>2. id \in Nat \X Nat
    BY Minted
  <2> QED
    BY <2>1, <2>2
<1>6. LayoutFor(d, n) \in Images(d.layouts) /\ WideEnough(d.width, LayoutFor(d, n))
  BY <1>1, <1>2, Fitting
<1> HIDE DEF n
<1>7. Made(r, d, p, id, items) /\ Made(q, d, p, o, items)
  BY <1>4
<1>8. Len(r.elements) = n /\ Len(q.elements) = n /\ DOMAIN r.elements = 1 .. n
  BY <1>2, <1>7, RowLength
<1>9. ValidateStructure(r)
  BY <1>2, <1>5, <1>7, <1>8, StructureOfAny
<1>10. r \in Block
  <2>1. d.id \in DefinitionIds
    BY <1>1 DEF DefinitionIds
  <2>2. Columns(d.width) # 0
    BY <1>6 DEF WideEnough
  <2> QED
    BY <1>2, <1>4, <1>5, <1>7, <1>9, <2>1, <2>2, RowTyped
<1>11. RowOf(r, d, id)
  <2>1. Len(p) = n
    BY DEF n
  <2>2. Picked(p, d, n, at)
    BY <1>2, <1>3, <2>1 DEF Picked
  <2> QED
    BY <1>2, <1>6, <1>7, <2>2, LaidRow
<1> QED
  BY <1>9, <1>10, <1>11

(* A page as Place leaves it: one row for each definition shown, the required *)
(* ones among them.                                                         *)
Rows(k, p, m, at) ==
    /\ at \in [DOMAIN p -> DOMAIN Catalog(k)]
    /\ \A i \in DOMAIN p : RowOf(p[i], Catalog(k)[at[i]], <<m, i>>) /\ ValidateStructure(p[i])
    /\ \A i, j \in DOMAIN p : i # j => at[i] # at[j]
    /\ \A c \in DOMAIN Catalog(k) : Catalog(k)[c].required => \E i \in DOMAIN p : at[i] = c
Placed(k, p, m) == p \in Seq(Block) /\ \E at : Rows(k, p, m, at)

LEMMA RowAt ==
    ASSUME NEW k, NEW tagged, NEW m, NEW i \in DOMAIN Shown(k, tagged)
    PROVE  LET d == Shown(k, tagged)[i]
           IN Made(Place(k, tagged, m)[i], d, Present(d, tagged), <<m, i>>, ItemsIn(Present(d, tagged), tagged))
BY DEF Place, Made

LEMMA PlaceShape ==
    ASSUME NEW k, NEW tagged, NEW m, NEW p, p = Place(k, tagged, m)
    PROVE  DOMAIN p = DOMAIN Shown(k, tagged) /\ p = [i \in DOMAIN Shown(k, tagged) |-> p[i]]
BY DEF Place

LEMMA PlaceRows ==
    ASSUME NEW k \in Kinds, NEW tagged \in Seq(Tag), Placeable(k, tagged), NEW m \in Nat,
           NEW p, p = Place(k, tagged, m)
    PROVE  Placed(k, p, m)
<1> DEFINE C == Catalog(k)
           keep == {c \in DOMAIN C : C[c].required \/ Present(C[c], tagged) # <<>>}
<1>1. PICK s : s = Shown(k, tagged)
  OBVIOUS
<1>2. s = Kept(C, keep)
  BY <1>1 DEF Shown
<1>3. keep \in SUBSET (1 .. Len(C)) /\ Len(C) \in Nat /\ DOMAIN C = 1 .. Len(C)
  <2>1. C \in Seq(Images(C))
    BY CatalogsSound DEF CatalogSound
  <2> QED
    BY <2>1, LenProperties
<1>4. \A c \in DOMAIN C : C[c].required => c \in keep
  OBVIOUS
<1> HIDE DEF keep
<1>5. Selection(s, C, keep)
  BY <1>2, <1>3, KeptPlaces
<1>6. PICK at \in [1 .. Len(s) -> keep] :
                /\ \A i \in 1 .. Len(s) : s[i] = C[at[i]]
                /\ \A i, j \in 1 .. Len(s) : i # j => at[i] # at[j]
                /\ \A c \in keep : \E i \in 1 .. Len(s) : at[i] = c
  BY <1>5 DEF Selection
<1>7. Len(s) \in Nat /\ DOMAIN s = 1 .. Len(s)
  BY <1>5 DEF Selection
<1>8. PICK q : q = Place(k, tagged, 0)
  OBVIOUS
<1>9. \A i \in DOMAIN q : ValidateStructure(q[i])
  BY <1>8 DEF Placeable
<1>10. DOMAIN q = 1 .. Len(s) /\ DOMAIN p = 1 .. Len(s) /\ p = [i \in 1 .. Len(s) |-> p[i]]
  BY <1>1, <1>7, <1>8, PlaceShape
<1>11. ASSUME NEW i \in 1 .. Len(s)
       PROVE  RowOf(p[i], C[at[i]], <<m, i>>) /\ p[i] \in Block /\ ValidateStructure(p[i])
  <2>1. PICK c \in DOMAIN C : c = at[i] /\ s[i] = C[c]
    BY <1>3, <1>6
  <2>2. PICK d : d = C[c]
    OBVIOUS
  <2>3. PICK e : e = Present(d, tagged)
    OBVIOUS
  <2>4. LayoutFor(d, Len(e)) # None
    BY <2>2, <2>3 DEF Placeable, HasPlaceForAll, Images
  <2>5. PICK id, o : id = <<m, i>> /\ o = <<0, i>>
    OBVIOUS
  <2>6. Made(p[i], d, e, id, ItemsIn(e, tagged)) /\ Made(q[i], d, e, o, ItemsIn(e, tagged))
    BY <1>1, <1>7, <1>8, <2>1, <2>2, <2>3, <2>5, RowAt
  <2>7. ValidateStructure(q[i])
    BY <1>9, <1>10
  <2>8. RowOf(p[i], d, id) /\ p[i] \in Block /\ ValidateStructure(p[i])
    <3> HIDE DEF C
    <3>1. d = Catalog(k)[c] /\ c \in DOMAIN Catalog(k) /\ i \in Nat
      BY <2>2, <1>7 DEF C
    <3> QED
      BY <2>3, <2>4, <2>5, <2>6, <2>7, <3>1, PlacedRow
  <2> QED
    BY <2>1, <2>2, <2>5, <2>8
<1>12. p \in Seq(Block)
  <2>1. p \in [1 .. Len(s) -> Block]
    BY <1>10, <1>11
  <2> QED
    BY <1>7, <2>1, SeqDef
<1>13. Rows(k, p, m, at)
  <2>1. at \in [DOMAIN p -> DOMAIN Catalog(k)]
    BY <1>3, <1>6, <1>10
  <2>2. \A i \in DOMAIN p : RowOf(p[i], Catalog(k)[at[i]], <<m, i>>) /\ ValidateStructure(p[i])
    BY <1>10, <1>11
  <2>3. \A c \in DOMAIN Catalog(k) : Catalog(k)[c].required => \E i \in DOMAIN p : at[i] = c
    BY <1>4, <1>6, <1>10
  <2>4. \A i, j \in DOMAIN p : i # j => at[i] # at[j]
    BY <1>6, <1>10
  <2> QED
    BY <2>1, <2>2, <2>3, <2>4 DEF Rows
<1> QED
  BY <1>12, <1>13 DEF Placed

-----------------------------------------------------------------------------
(* The rules on a page, one by one. *)
BlockRule(k, p, i) ==
    /\ InCatalog(k, p[i].definition)
    /\ Definition(k, p[i].definition).repeatable
         \/ \A j \in DOMAIN p \ {i} : p[j].definition # p[i].definition
    /\ p[i].layout \in Images(Definition(k, p[i].definition).layouts)
    /\ WideEnough(p[i].width, p[i].layout)
BlockRules(k, p) == \A i \in DOMAIN p : BlockRule(k, p, i)
Apart(e, f) == e.id # f.id /\ (Free(e.role) \/ e.role # f.role)
SeatRules(p) == \A s, t \in Seats(p) : s # t => Apart(At(p, s), At(p, t))
Known(p, q) == \A e \in Elements(q) : \E f \in Elements(p) : f.id = e.id
AllTagged(p) == \A e \in Elements(p) : Tagged(e)
PinsKept(k, p, q) ==
    \A i \in DOMAIN p : \A e \in Images(p[i].elements) :
        PinnedIn(k, p[i].definition, e.role) => PinnedElementPresent(q, p[i], e)

LEMMA Rules ==
    ASSUME NEW k, NEW p, NEW q
    PROVE  ValidateBuilderConstraints(k, p, q)
             <=> BlockRules(k, q) /\ SeatRules(q) /\ Known(p, q) /\ AllTagged(q) /\ PinsKept(k, p, q)
<1>1. (\A i \in DOMAIN q :
         LET b == q[i]
             d == Definition(k, b.definition)
         IN /\ InCatalog(k, b.definition)
            /\ d.repeatable \/ \A j \in DOMAIN q \ {i} : q[j].definition # b.definition
            /\ b.layout \in Images(d.layouts)
            /\ Columns(b.width) # 0 /\ Columns(b.width) >= Columns(MinimumWidth(b.layout)))
      <=> BlockRules(k, q)
  BY DEF BlockRules, BlockRule, WideEnough
<1>2. (\A s, t \in Seats(q) : s # t =>
         /\ At(q, s).id # At(q, t).id
         /\ At(q, s).role # None /\ Singular(At(q, s).role) => At(q, s).role # At(q, t).role)
      <=> SeatRules(q)
  BY DEF SeatRules, Apart, Free, Singular
<1>3. (\A e \in Elements(q) :
         /\ \E known \in Elements(p) : known.id = e.id
         /\ e.role = None \/ Allows(e.role, e.type))
      <=> Known(p, q) /\ AllTagged(q)
  BY DEF Known, AllTagged, Tagged
<1> QED
  BY <1>1, <1>2, <1>3 DEF ValidateBuilderConstraints, PinsKept

(* Checked against another page, a page keeps the rules by itself too. *)
LEMMA RulesStand ==
    ASSUME NEW k, NEW p, NEW q, ValidateBuilderConstraints(k, p, q)
    PROVE  ValidateBuilderConstraints(k, q, q)
<1>1. Known(q, q)
  BY DEF Known
<1>2. PinsKept(k, q, q)
  BY DEF PinsKept, PinnedElementPresent
<1> QED
  BY <1>1, <1>2, Rules

(* The inductive invariant: a sound page, whose ids were minted by edits made *)
(* so far and never twice.                                                   *)
RequiredOn(k, p, d) ==
    \E i \in DOMAIN p :
        /\ p[i].definition = d.id /\ (p[i].hidden => d.hideable)
        /\ \A e \in Images(d.elements) : e.pinned =>
             \E c \in Images(p[i].elements) : c.role = e.role /\ c.type = e.type
Requires(k, p) == \A d \in Images(Catalog(k)) : d.required => RequiredOn(k, p, d)
Structured(p) == \A i \in DOMAIN p : ValidateStructure(p[i])
OwnIds(p) == \A i, j \in DOMAIN p : i # j => p[i].id # p[j].id
MintedBy(p, m) ==
    /\ \A i \in DOMAIN p : p[i].id[1] <= m
    /\ \A e \in Elements(p) : e.id # <<>> /\ e.id[1] <= m
Sound(k, p, m) ==
    /\ p \in Seq(Block) /\ Structured(p) /\ ValidateBuilderConstraints(k, p, p)
    /\ Requires(k, p) /\ OwnIds(p) /\ MintedBy(p, m)

(* Every block of the later page is one of the earlier, and hidden only where *)
(* it was or may be.                                                         *)
Hideable(k, b) == ~Definition(k, b.definition).required \/ Definition(k, b.definition).hideable
Heir(k, b, a) == /\ b.id = a.id /\ b.definition = a.definition
                 /\ (b.hidden => a.hidden \/ Hideable(k, a))
Descends(k, p, q) == \A j \in DOMAIN q : \E i \in DOMAIN p : Heir(k, q[j], p[i])

LEMMA BlockTypes ==
    ASSUME NEW p \in Seq(Block), NEW i \in DOMAIN p
    PROVE  /\ p[i] \in Block /\ p[i].id \in Nat \X Nat /\ p[i].id[1] \in Nat /\ p[i].elements \in Seq(Element)
           /\ p[i].layout \in LayoutNames
<1>1. p[i] \in Block
  OBVIOUS
<1> QED
  BY <1>1 DEF Block

LEMMA ElementTypes ==
    ASSUME NEW p \in Seq(Block), NEW e \in Elements(p)
    PROVE  e \in Element /\ e.id \in Seq(Nat) /\ e.items \in Nat /\ (e.id # <<>> => e.id[1] \in Nat)
<1>1. PICK i \in DOMAIN p : e \in Images(p[i].elements)
  BY DEF Elements
<1>2. p[i].elements \in Seq(Element)
  BY BlockTypes
<1>3. e \in Element
  <2>1. PICK s \in Seq(Element) : s = p[i].elements
    BY <1>2
  <2> QED
    BY <1>1, <2>1 DEF Images
<1>4. e.id \in Seq(Nat) /\ e.items \in Nat
  BY <1>3 DEF Element
<1>5. \A s \in Seq(Nat) : s # <<>> => s[1] \in Nat
  OBVIOUS
<1> QED
  BY <1>3, <1>4, <1>5

LEMMA RequiredStaysOn ==
    ASSUME NEW k \in Kinds, NEW p, NEW q, Requires(k, p), OwnIds(p), OwnIds(q),
           PinsKept(k, p, q), Descends(k, p, q)
    PROVE  Requires(k, q)
<1> SUFFICES ASSUME NEW d \in Images(Catalog(k)), d.required PROVE RequiredOn(k, q, d)
  BY DEF Requires
<1>1. PICK i \in DOMAIN p :
        /\ p[i].definition = d.id /\ (p[i].hidden => d.hideable)
        /\ \A e \in Images(d.elements) : e.pinned =>
             \E c \in Images(p[i].elements) : c.role = e.role /\ c.type = e.type
  BY DEF Requires, RequiredOn
<1>2. Definition(k, d.id) = d /\ DefinitionSound(k, d)
  BY OneDefinition DEF Images
<1>3. ASSUME NEW e \in Images(d.elements), e.pinned
      PROVE  \E j \in DOMAIN q : q[j].id = p[i].id /\ \E c \in Images(q[j].elements) :
               c.role = e.role /\ c.type = e.type
  <2>1. PICK c \in Images(p[i].elements) : c.role = e.role /\ c.type = e.type
    BY <1>1, <1>3
  <2>2. PinnedIn(k, p[i].definition, c.role)
    BY <1>1, <1>2, <1>3, <2>1 DEF PinnedIn
  <2>3. PinnedElementPresent(q, p[i], c)
    BY <2>2 DEF PinsKept
  <2> QED
    BY <2>1, <2>3 DEF PinnedElementPresent
<1>4. PICK e \in Images(d.elements) : e.pinned
  BY <1>2 DEF DefinitionSound, Images
<1>5. PICK j \in DOMAIN q : q[j].id = p[i].id
  BY <1>3, <1>4
<1>6. Heir(k, q[j], p[i])
  BY <1>5 DEF Descends, OwnIds, Heir
<1>7. q[j].definition = d.id /\ (q[j].hidden => d.hideable)
  BY <1>1, <1>2, <1>6 DEF Heir, Hideable
<1>8. \A f \in Images(d.elements) : f.pinned =>
        \E c \in Images(q[j].elements) : c.role = f.role /\ c.type = f.type
  BY <1>3, <1>5 DEF OwnIds
<1> QED
  BY <1>7, <1>8 DEF RequiredOn

LEMMA EditKeeps ==
    ASSUME NEW k \in Kinds, NEW p, NEW q, NEW m \in Nat, Sound(k, p, m),
           ValidateBuilderConstraints(k, p, q), q \in Seq(Block), Structured(q),
           OwnIds(q), Descends(k, p, q)
    PROVE  Sound(k, q, m + 1)
<1>1. ValidateBuilderConstraints(k, q, q)
  BY RulesStand
<1>2. Requires(k, q)
  BY Rules, RequiredStaysOn DEF Sound
<1>3. MintedBy(q, m + 1)
  <2>1. p \in Seq(Block) /\ MintedBy(p, m) /\ Known(p, q)
    BY Rules DEF Sound
  <2>2. ASSUME NEW j \in DOMAIN q PROVE q[j].id[1] <= m + 1
    <3>1. PICK i \in DOMAIN p : q[j].id = p[i].id
      BY DEF Descends, Heir
    <3>2. p[i].id[1] <= m /\ p[i].id[1] \in Nat
      BY <2>1, BlockTypes DEF MintedBy
    <3> QED
      BY <3>1, <3>2
  <2>3. ASSUME NEW e \in Elements(q) PROVE e.id # <<>> /\ e.id[1] <= m + 1
    <3>1. PICK f \in Elements(p) : f.id = e.id
      BY <2>1 DEF Known
    <3>2. f.id # <<>> /\ f.id[1] <= m /\ f.id[1] \in Nat
      BY <2>1, ElementTypes DEF MintedBy
    <3> QED
      BY <3>1, <3>2
  <2> QED
    BY <2>2, <2>3 DEF MintedBy
<1> QED
  BY <1>1, <1>2, <1>3 DEF Sound

-----------------------------------------------------------------------------
(* A page as it is placed is sound. *)
LEMMA SeatTaken ==
    ASSUME NEW p, NEW s \in Seats(p)
    PROVE  \E i \in DOMAIN p : \E j \in DOMAIN p[i].elements :
             s = <<i, j>> /\ At(p, s) = p[i].elements[j] /\ At(p, s) \in Elements(p)
<1>1. PICK i \in DOMAIN p : s \in {<<i, j>> : j \in DOMAIN p[i].elements}
  BY DEF Seats
<1>2. PICK j \in DOMAIN p[i].elements : s = <<i, j>>
  BY <1>1
<1>3. s[1] = i /\ s[2] = j
  BY <1>2
<1> QED
  BY <1>2, <1>3 DEF At, Elements, Images

LEMMA ElementSeated ==
    ASSUME NEW p, NEW e \in Elements(p)
    PROVE  \E i \in DOMAIN p : \E j \in DOMAIN p[i].elements :
             e = p[i].elements[j] /\ <<i, j>> \in Seats(p) /\ At(p, <<i, j>>) = e
<1>1. PICK i \in DOMAIN p : e \in Images(p[i].elements)
  BY DEF Elements
<1>2. PICK j \in DOMAIN p[i].elements : e = p[i].elements[j]
  BY <1>1 DEF Images
<1>3. <<i, j>> \in {<<i, x>> : x \in DOMAIN p[i].elements}
  OBVIOUS
<1>4. <<i, j>> \in Seats(p)
  BY <1>3 DEF Seats
<1>5. At(p, <<i, j>>) = p[i].elements[j]
  BY DEF At
<1> QED
  BY <1>2, <1>4, <1>5

(* Where an element of a placed page comes from. *)
LEMMA PlacedElement ==
    ASSUME NEW k \in Kinds, NEW p \in Seq(Block), NEW m \in Nat, NEW at, Rows(k, p, m, at),
           NEW i \in DOMAIN p, NEW j \in DOMAIN p[i].elements
    PROVE  /\ p[i].elements[j].id # <<>> /\ p[i].elements[j].id[1] = m
           /\ p[i].elements[j].id[2] = i /\ p[i].elements[j].id[3] = j
           /\ Tagged(p[i].elements[j])
           /\ Free(p[i].elements[j].role) \/ Home(k, p[i].elements[j].role) = p[i].definition
           /\ \A x \in DOMAIN p[i].elements : x # j /\ ~Free(p[i].elements[j].role) =>
                p[i].elements[j].role # p[i].elements[x].role
<1>1. PICK id : id = <<m, i>>
  OBVIOUS
<1>2. PICK c \in DOMAIN Catalog(k) : c = at[i] /\ RowOf(p[i], Catalog(k)[c], id)
  BY <1>1 DEF Rows
<1>3. PICK d : d = Catalog(k)[c]
  OBVIOUS
<1>4. DefinitionSound(k, d) /\ RowOf(p[i], d, id)
  BY <1>2, <1>3, OneDefinition
<1>5. PICK s \in Seq(Element) : s = p[i].elements
  BY BlockTypes
<1>6. i \in Nat /\ j \in Nat /\ j \in DOMAIN s
  BY <1>5
<1>7. s[j].id = Append(id, j) /\ p[i].definition = d.id /\ Drawn(s, d)
  BY <1>4, <1>5, <1>6 DEF RowOf
<1>8. s[j].id # <<>> /\ s[j].id[1] = m /\ s[j].id[2] = i /\ s[j].id[3] = j
  BY <1>1, <1>6, <1>7, Minted
<1>9. PICK from \in [DOMAIN s -> DOMAIN d.elements] :
        /\ \A x \in DOMAIN s : s[x].role = d.elements[from[x]].role /\ s[x].type = d.elements[from[x]].type
        /\ \A x, y \in DOMAIN s : x # y => from[x] # from[y]
  BY <1>7 DEF Drawn
<1>10. Tagged(s[j]) /\ (Free(s[j].role) \/ Home(k, s[j].role) = d.id)
  BY <1>4, <1>6, <1>9 DEF DefinitionSound, Housed, Tagged
<1>11. \A x \in DOMAIN s : x # j /\ ~Free(s[j].role) => s[j].role # s[x].role
  BY <1>4, <1>6, <1>9, SMTT(30) DEF DefinitionSound
<1> QED
  BY <1>5, <1>7, <1>8, <1>10, <1>11

LEMMA PlacedBlock ==
    ASSUME NEW k \in Kinds, NEW p \in Seq(Block), NEW m \in Nat, NEW at, Rows(k, p, m, at),
           NEW i \in DOMAIN p
    PROVE  /\ BlockRule(k, p, i) /\ p[i].id[1] = m /\ p[i].id[2] = i
           /\ \A j \in DOMAIN p : j # i => p[j].definition # p[i].definition
<1>0. PICK id : id = <<m, i>>
  OBVIOUS
<1>1. id = <<m, i>> /\ id[1] = m /\ id[2] = i
  BY <1>0
<1>2. PICK c \in DOMAIN Catalog(k) : c = at[i] /\ RowOf(p[i], Catalog(k)[c], id)
  BY <1>1 DEF Rows
<1>3. PICK d : d = Catalog(k)[c]
  OBVIOUS
<1>4. RowOf(p[i], d, id)
  BY <1>2, <1>3
<1>5. /\ p[i].id = id /\ p[i].definition = d.id /\ p[i].layout \in Images(d.layouts)
      /\ WideEnough(p[i].width, p[i].layout)
  BY <1>4 DEF RowOf
<1>6. InCatalog(k, d.id) /\ Definition(k, d.id) = d
  BY <1>3, OneDefinition
<1>7. ASSUME NEW j \in DOMAIN p, j # i PROVE p[j].definition # p[i].definition
  <2>1. PICK x \in DOMAIN Catalog(k) : x = at[j] /\ p[j].definition = Catalog(k)[x].id
    BY ZenonT(30) DEF Rows, RowOf
  <2>2. x # c
    BY <1>2, <1>7, <2>1 DEF Rows
  <2> QED
    BY <1>3, <1>5, <2>1, <2>2, CatalogsSound DEF CatalogSound
<1>8. BlockRule(k, p, i)
  BY <1>5, <1>6, <1>7 DEF BlockRule
<1> QED
  BY <1>1, <1>5, <1>7, <1>8

LEMMA PlacedRequires ==
    ASSUME NEW k \in Kinds, NEW p, NEW m, NEW at, Rows(k, p, m, at)
    PROVE  Requires(k, p)
<1> SUFFICES ASSUME NEW d \in Images(Catalog(k)), d.required PROVE RequiredOn(k, p, d)
  BY DEF Requires
<1>1. PICK c \in DOMAIN Catalog(k) : d = Catalog(k)[c]
  BY DEF Images
<1>2. PICK i \in DOMAIN p : at[i] = c
  BY <1>1 DEF Rows
<1>3. RowOf(p[i], d, <<m, i>>)
  BY <1>1, <1>2 DEF Rows
<1>4. p[i].definition = d.id /\ Drawn(p[i].elements, d)
  BY <1>3 DEF RowOf
<1>5. p[i].hidden => d.hideable
  BY <1>3 DEF RowOf
<1>6. PICK s : s = p[i].elements
  OBVIOUS
<1>7. PICK from \in [DOMAIN s -> DOMAIN d.elements] :
        /\ \A x \in DOMAIN s : s[x].role = d.elements[from[x]].role /\ s[x].type = d.elements[from[x]].type
        /\ \A x \in DOMAIN d.elements : d.elements[x].pinned => \E y \in DOMAIN s : from[y] = x
  BY <1>4, <1>6 DEF Drawn
<1>8. \A e \in Images(d.elements) : e.pinned =>
        \E c2 \in Images(p[i].elements) : c2.role = e.role /\ c2.type = e.type
  BY <1>6, <1>7 DEF Images
<1> QED
  BY <1>4, <1>5, <1>8 DEF RequiredOn

LEMMA PlacedSound ==
    ASSUME NEW k \in Kinds, NEW p, NEW m \in Nat, Placed(k, p, m)
    PROVE  Sound(k, p, m)
<1>1. PICK at : Rows(k, p, m, at)
  BY DEF Placed
<1>2. p \in Seq(Block) /\ DOMAIN p \subseteq Nat
  BY DEF Placed
<1>3. Structured(p)
  BY <1>1 DEF Rows, Structured
<1>4. BlockRules(k, p) /\ OwnIds(p) /\ \A i \in DOMAIN p : p[i].id[1] = m
  BY <1>1, <1>2, PlacedBlock DEF BlockRules, OwnIds
<1>5. SeatRules(p)
  <2> SUFFICES ASSUME NEW s \in Seats(p), NEW t \in Seats(p), s # t PROVE Apart(At(p, s), At(p, t))
    BY DEF SeatRules
  <2>1. PICK i \in DOMAIN p : \E j \in DOMAIN p[i].elements : s = <<i, j>> /\ At(p, s) = p[i].elements[j]
    BY SeatTaken
  <2>2. PICK j \in DOMAIN p[i].elements : s = <<i, j>> /\ At(p, s) = p[i].elements[j]
    BY <2>1
  <2>3. PICK x \in DOMAIN p : \E y \in DOMAIN p[x].elements : t = <<x, y>> /\ At(p, t) = p[x].elements[y]
    BY SeatTaken
  <2>4. PICK y \in DOMAIN p[x].elements : t = <<x, y>> /\ At(p, t) = p[x].elements[y]
    BY <2>3
  <2>5. PICK e, f : e = p[i].elements[j] /\ f = p[x].elements[y]
    OBVIOUS
  <2>6. /\ e.id[2] = i /\ e.id[3] = j /\ f.id[2] = x /\ f.id[3] = y
        /\ Free(e.role) \/ Home(k, e.role) = p[i].definition
        /\ Free(f.role) \/ Home(k, f.role) = p[x].definition
        /\ (i = x /\ j # y /\ ~Free(e.role) => e.role # f.role)
    BY <1>1, <1>2, <2>2, <2>4, <2>5, PlacedElement
  <2>7. i # x \/ j # y
    BY <2>2, <2>4
  <2>8. e.id # f.id
    BY <2>6, <2>7
  <2>9. i # x => p[i].definition # p[x].definition
    BY <1>1, <1>2, PlacedBlock
  <2>10. Free(e.role) \/ e.role # f.role
    BY <2>6, <2>7, <2>9
  <2> QED
    BY <2>2, <2>4, <2>5, <2>8, <2>10 DEF Apart
<1>6. AllTagged(p) /\ \A e \in Elements(p) : e.id # <<>> /\ e.id[1] = m
  <2> SUFFICES ASSUME NEW e \in Elements(p) PROVE Tagged(e) /\ e.id # <<>> /\ e.id[1] = m
    BY DEF AllTagged
  <2>1. PICK i \in DOMAIN p : \E j \in DOMAIN p[i].elements : e = p[i].elements[j]
    BY ElementSeated
  <2>2. PICK j \in DOMAIN p[i].elements : e = p[i].elements[j]
    BY <2>1
  <2> QED
    BY <1>1, <1>2, <2>2, PlacedElement
<1>7. Known(p, p) /\ PinsKept(k, p, p)
  BY DEF Known, PinsKept, PinnedElementPresent
<1>8. MintedBy(p, m)
  BY <1>4, <1>6 DEF MintedBy
<1>9. ValidateBuilderConstraints(k, p, p)
  BY <1>4, <1>5, <1>6, <1>7, Rules
<1> QED
  BY <1>1, <1>2, <1>3, <1>4, <1>8, <1>9, PlacedRequires DEF Sound

-----------------------------------------------------------------------------
(* Dropping an entry of a sequence. *)
LEMMA Dropped ==
    ASSUME NEW S, NEW s \in Seq(S), NEW n \in DOMAIN s
    PROVE  /\ Dropping(s, n) \in Seq(S) /\ DOMAIN Dropping(s, n) = 1 .. Len(s) - 1
           /\ \A i \in 1 .. Len(s) - 1 : Dropping(s, n)[i] = s[IF i < n THEN i ELSE i + 1]
<1> DEFINE a == SubSeq(s, 1, n - 1)
           b == SubSeq(s, n + 1, Len(s))
<1>1. n \in 1 .. Len(s) /\ Len(s) \in Nat /\ DOMAIN s = 1 .. Len(s)
  OBVIOUS
<1>2. a \in Seq(S) /\ Len(a) = n - 1 /\ \A i \in 1 .. n - 1 : a[i] = s[i]
  BY <1>1
<1>3. b \in Seq(S) /\ Len(b) = Len(s) - n /\ \A i \in 1 .. Len(s) - n : b[i] = s[n + i]
  BY <1>1
<1>4. Dropping(s, n) = a \o b
  BY DEF Dropping
<1> HIDE DEF a, b
<1>5. PICK c : c = a \o b
  OBVIOUS
<1>6. /\ c \in Seq(S) /\ DOMAIN c = 1 .. Len(a) + Len(b)
      /\ \A i \in 1 .. Len(a) + Len(b) : c[i] = IF i <= Len(a) THEN a[i] ELSE b[i - Len(a)]
  BY <1>2, <1>3, <1>5, SMTT(30)
<1>7. Len(a) + Len(b) = Len(s) - 1
  BY <1>1, <1>2, <1>3
<1>8. ASSUME NEW i \in 1 .. Len(s) - 1 PROVE c[i] = s[IF i < n THEN i ELSE i + 1]
  <2>1. CASE i < n
    BY <1>1, <1>2, <1>6, <1>7, <2>1
  <2>2. CASE ~(i < n)
    <3>1. i - Len(a) \in 1 .. Len(s) - n /\ n + (i - Len(a)) = i + 1 /\ ~(i <= Len(a))
      BY <1>1, <1>2, <2>2
    <3> QED
      BY <1>3, <1>6, <1>7, <2>2, <3>1
  <2> QED
    BY <2>1, <2>2
<1> QED
  BY <1>4, <1>5, <1>6, <1>7, <1>8

-----------------------------------------------------------------------------
(* An element as a request may bring it, before the rules have seen it; S is *)
(* what it has for slots.                                                    *)
Slotted == UNION {Images(Slots(l)) : l \in LayoutNames}
LooseTypes == Types \cup {"prose", "link_list"}
LooseRoles == (DOMAIN RoleTypes \cup {None}) \cup Retags
Options == UNION {OptionsOf(t) : t \in Types}
LooseOptions == Options \cup {None, "rich"}
Loose(S) ==
    [id : Seq(Nat), type : LooseTypes, role : LooseRoles, slot : S, option : LooseOptions, items : Nat]

LEMMA LooseFields ==
    /\ "prose" \in LooseTypes /\ "link_list" \in LooseTypes
    /\ None \in LooseRoles /\ None \in LooseOptions /\ "rich" \in LooseOptions
    /\ \A t \in Types : t \in LooseTypes
    /\ \A r \in DOMAIN RoleTypes \cup {None} : r \in LooseRoles
    /\ \A r \in Retags : r \in LooseRoles
    /\ \A o \in Options : o \in LooseOptions
<1>1. "prose" \in LooseTypes /\ "link_list" \in LooseTypes /\ \A t \in Types : t \in LooseTypes
  BY DEF LooseTypes
<1>2. /\ None \in LooseRoles
      /\ \A r \in DOMAIN RoleTypes \cup {None} : r \in LooseRoles
      /\ \A r \in Retags : r \in LooseRoles
  BY DEF LooseRoles
<1>3. None \in LooseOptions /\ "rich" \in LooseOptions /\ \A o \in Options : o \in LooseOptions
  BY DEF LooseOptions
<1> QED
  BY <1>1, <1>2, <1>3

LEMMA ElementLoose ==
    ASSUME NEW S, Slotted \subseteq S, NEW e \in Element
    PROVE  e \in Loose(S)
<1>1. /\ e.id \in Seq(Nat) /\ e.type \in Types /\ e.role \in DOMAIN RoleTypes \cup {None}
      /\ e.slot \in Slotted /\ e.option \in Options /\ e.items \in Nat
  BY DEF Element, Slotted, Options
<1>2. e.type \in LooseTypes /\ e.role \in LooseRoles /\ e.slot \in S /\ e.option \in LooseOptions
  BY <1>1, LooseFields
<1> QED
  BY <1>1, <1>2 DEF Element, Loose

LEMMA Tightened ==
    ASSUME NEW b, NEW S, b.elements \in Seq(Loose(S)), ValidateStructure(b),
           \A j \in DOMAIN b.elements : Tagged(b.elements[j])
    PROVE  b.elements \in Seq(Element)
<1>1. PICK s \in Seq(Loose(S)) : s = b.elements
  OBVIOUS
<1>2. ASSUME NEW j \in DOMAIN s PROVE s[j] \in Element
  <2>1. PICK e \in Loose(S) : e = s[j]
    OBVIOUS
  <2>2. /\ e.type \in Types /\ e.option \in UNION {OptionsOf(t) : t \in Types}
        /\ e.slot \in UNION {Images(Slots(l)) : l \in LayoutNames}
    BY <1>1, <2>1, StructureTypes
  <2>3. e.role \in DOMAIN RoleTypes \cup {None}
    BY <1>1, <2>1 DEF Tagged, Allows
  <2>4. e \in Element
    BY <2>2, <2>3 DEF Loose, Element
  <2> QED
    BY <2>1, <2>4
<1>3. Len(s) \in Nat /\ s \in [1 .. Len(s) -> Loose(S)]
  OBVIOUS
<1>4. s \in [1 .. Len(s) -> Element]
  BY <1>2, <1>3
<1> QED
  BY <1>1, <1>3, <1>4, SeqDef

(* What a save may send is loose at worst. *)
LEMMA LooseEdits ==
    ASSUME NEW S, NEW e \in Loose(S)
    PROVE  /\ \A n \in Nat : [e EXCEPT !.items = n] \in Loose(S)
           /\ \A r \in Retags : [e EXCEPT !.role = r] \in Loose(S)
<1>1. \A n \in Nat : [e EXCEPT !.items = n] \in Loose(S)
  BY DEF Loose
<1>2. \A r \in Retags : [e EXCEPT !.role = r] \in Loose(S)
  BY LooseFields DEF Loose
<1> QED
  BY <1>1, <1>2

LEMMA LooseRetyped ==
    ASSUME NEW S, NEW e \in Loose(S)
    PROVE  Retyped(e) \in Loose(S)
BY LooseFields DEF Loose, Retyped

LEMMA LooseStranger ==
    ASSUME NEW S, "none" \in S
    PROVE  [id |-> <<0>>, type |-> "prose", role |-> None, slot |-> "none",
            option |-> "rich", items |-> 0] \in Loose(S)
<1>1. PICK id \in Seq(Nat) : id = <<0>>
  <2>1. <<0>> \in Seq(Nat)
    OBVIOUS
  <2> QED
    BY <2>1
<1> QED
  BY <1>1, LooseFields DEF Loose

LEMMA LooseSwap ==
    ASSUME NEW L, NEW s \in Seq(L), NEW i \in DOMAIN s, NEW x \in L
    PROVE  [s EXCEPT ![i] = x] \in Seq(L)
OBVIOUS

LEMMA ChangedLoose ==
    ASSUME NEW e \in Seq(Element), page \in Seq(Block), NEW changed \in Changes(e)
    PROVE  changed \in Seq(Loose(Slotted \cup {"none"}))
<1>0. PICK L : L = Loose(Slotted \cup {"none"})
  OBVIOUS
<1>1. \A x \in Element : x \in L
  BY <1>0, ElementLoose
<1>2. e \in Seq(L) /\ \A i \in DOMAIN e : e[i] \in L
  <2>1. e \in Seq(L)
    BY <1>1, SeqMonotonic
  <2> QED
    BY <2>1
<1>3. \A x \in L : Retyped(x) \in L
  BY <1>0, LooseRetyped
<1>4. \A x \in L : \A n \in Nat : [x EXCEPT !.items = n] \in L
  BY <1>0, LooseEdits
<1>5. \A x \in L : \A r \in Retags : [x EXCEPT !.role = r] \in L
  BY <1>0, LooseEdits
<1>6. Strangers \subseteq L
  <2>1. PICK new \in L : new = [id |-> <<0>>, type |-> "prose", role |-> None, slot |-> "none",
                                option |-> "rich", items |-> 0]
    BY <1>0, LooseStranger
  <2>2. \A x \in Elements(page) : x \in L
    BY <1>1, ElementTypes
  <2>3. Strangers = {x \in Elements(page) \cup {new} : x.role \in Retags}
    BY <2>1 DEF Strangers
  <2> QED
    BY <2>2, <2>3
<1>7. MaxCollectionItems \in Nat
  BY LimitAssumption
<1> SUFFICES changed \in Seq(L)
  BY <1>0
<1>8. CASE changed = e
  BY <1>2, <1>8
<1>9. CASE \E i \in DOMAIN e : changed = Dropping(e, i)
  BY <1>2, <1>9, Dropped
<1>10. CASE \E i \in DOMAIN e : \E n \in 0 .. MaxCollectionItems + 1 : changed = [e EXCEPT ![i].items = n]
  <2>1. PICK i \in DOMAIN e : \E n \in 0 .. MaxCollectionItems + 1 : changed = [e EXCEPT ![i].items = n]
    BY <1>10
  <2>2. PICK n \in 0 .. MaxCollectionItems + 1 : changed = [e EXCEPT ![i].items = n]
    BY <2>1
  <2>3. [e[i] EXCEPT !.items = n] \in L
    BY <1>2, <1>4, <1>7
  <2>4. changed = [e EXCEPT ![i] = [e[i] EXCEPT !.items = n]]
    BY <2>2
  <2> QED
    BY <1>2, <2>3, <2>4, LooseSwap
<1>11. CASE \E i \in DOMAIN e : \E r \in Retags : changed = [e EXCEPT ![i].role = r]
  <2>1. PICK i \in DOMAIN e : \E r \in Retags : changed = [e EXCEPT ![i].role = r]
    BY <1>11
  <2>2. PICK r \in Retags : changed = [e EXCEPT ![i].role = r]
    BY <2>1
  <2>3. [e[i] EXCEPT !.role = r] \in L
    BY <1>2, <1>5
  <2>4. changed = [e EXCEPT ![i] = [e[i] EXCEPT !.role = r]]
    BY <2>2
  <2> QED
    BY <1>2, <2>3, <2>4, LooseSwap
<1>12. CASE \E i \in DOMAIN e : changed = [e EXCEPT ![i] = Retyped(@)]
  <2>1. PICK i \in DOMAIN e : changed = [e EXCEPT ![i] = Retyped(e[i])]
    BY <1>12
  <2>2. Retyped(e[i]) \in L
    BY <1>2, <1>3
  <2> QED
    BY <1>2, <2>1, <2>2, LooseSwap
<1>13. CASE \E x \in Strangers : changed = Append(e, x)
  <2>1. PICK x \in L : changed = Append(e, x)
    BY <1>6, <1>13
  <2> QED
    BY <1>2, <2>1
<1>14. \/ changed = e
       \/ \E i \in DOMAIN e : changed = Dropping(e, i)
       \/ \E i \in DOMAIN e : \E n \in 0 .. MaxCollectionItems + 1 : changed = [e EXCEPT ![i].items = n]
       \/ \E i \in DOMAIN e : \E r \in Retags : changed = [e EXCEPT ![i].role = r]
       \/ \E i \in DOMAIN e : changed = [e EXCEPT ![i] = Retyped(@)]
       \/ \E x \in Strangers : changed = Append(e, x)
  BY DEF Changes
<1> QED
  BY <1>8, <1>9, <1>10, <1>11, <1>12, <1>13, <1>14

LEMMA Reseated ==
    ASSUME NEW S, NEW s \in Seq(Loose(S)), NEW to
    PROVE  [i \in DOMAIN s |-> [s[i] EXCEPT !.slot = to[i]]] \in Seq(Loose({to[i] : i \in DOMAIN s}))
<1> DEFINE T == {to[i] : i \in DOMAIN s}
           u == [i \in DOMAIN s |-> [s[i] EXCEPT !.slot = to[i]]]
<1>1. ASSUME NEW i \in DOMAIN s PROVE [s[i] EXCEPT !.slot = to[i]] \in Loose(T)
  <2>1. PICK e \in Loose(S) : e = s[i]
    OBVIOUS
  <2>2. PICK x \in T : x = to[i]
    OBVIOUS
  <2>3. [e EXCEPT !.slot = x] \in Loose(T)
    BY DEF Loose
  <2> QED
    BY <2>1, <2>2, <2>3
<1>2. Len(s) \in Nat /\ DOMAIN s = 1 .. Len(s)
  OBVIOUS
<1>3. u \in [1 .. Len(s) -> Loose(T)]
  BY <1>1, <1>2
<1> QED
  BY <1>2, <1>3, SeqDef

-----------------------------------------------------------------------------
(* Each edit leaves a sound page. *)
Rebuilt(c, b, l, w, e) == c = [b EXCEPT !.layout = l, !.width = w, !.elements = e]

LEMMA BlockRebuilt ==
    ASSUME NEW b \in Block, NEW l \in LayoutNames, NEW w \in {"full", "two_thirds", "half", "third"},
           NEW e \in Seq(Element), NEW c, Rebuilt(c, b, l, w, e)
    PROVE  c \in Block
BY DEF Block, Rebuilt

LEMMA RebuiltFields ==
    ASSUME NEW b \in Block, NEW l, NEW w, NEW e, NEW c, Rebuilt(c, b, l, w, e)
    PROVE  /\ c.layout = l /\ c.width = w /\ c.elements = e /\ c.id = b.id
           /\ c.definition = b.definition
BY DEF Block, Rebuilt

LEMMA RebuiltHidden ==
    ASSUME NEW b \in Block, NEW l, NEW w, NEW e, NEW c, Rebuilt(c, b, l, w, e)
    PROVE  c.hidden = b.hidden
BY DEF Block, Rebuilt

LEMMA OneBlockEdited ==
    ASSUME NEW k \in Kinds, NEW m \in Nat, NEW p, Sound(k, p, m), NEW n \in DOMAIN p,
           NEW b \in Block, Heir(k, b, p[n]), ValidateStructure(b),
           NEW q, q = [p EXCEPT ![n] = b], ValidateBuilderConstraints(k, p, q)
    PROVE  Sound(k, q, m + 1)
<1>1. p \in Seq(Block) /\ Structured(p) /\ OwnIds(p)
  BY DEF Sound
<1>2. q \in Seq(Block)
  BY <1>1, LooseSwap
<1>3. DOMAIN q = DOMAIN p /\ q[n] = b /\ \A i \in DOMAIN p : i # n => q[i] = p[i]
  BY <1>1
<1>4. Structured(q)
  BY <1>1, <1>3 DEF Structured
<1>5. OwnIds(q)
  BY <1>1, <1>3 DEF OwnIds, Heir
<1>6. Descends(k, p, q)
  <2> SUFFICES ASSUME NEW j \in DOMAIN q PROVE \E i \in DOMAIN p : Heir(k, q[j], p[i])
    BY DEF Descends
  <2>1. CASE j = n
    BY <1>3, <2>1
  <2>2. CASE j # n
    <3>1. q[j] = p[j]
      BY <1>3, <2>2
    <3>2. Heir(k, p[j], p[j])
      BY DEF Heir
    <3> QED
      BY <1>3, <3>1, <3>2
  <2> QED
    BY <2>1, <2>2
<1> QED
  BY <1>2, <1>4, <1>5, <1>6, EditKeeps

LEMMA OneBlockRule ==
    ASSUME NEW k, NEW p, NEW q, ValidateBuilderConstraints(k, p, q), NEW n \in DOMAIN q
    PROVE  /\ q[n].width \in {"full", "two_thirds", "half", "third"}
           /\ \A j \in DOMAIN q[n].elements : Tagged(q[n].elements[j])
<1>1. WideEnough(q[n].width, q[n].layout)
  BY Rules DEF BlockRules, BlockRule
<1>2. \A j \in DOMAIN q[n].elements : q[n].elements[j] \in Elements(q)
  BY DEF Elements, Images
<1> QED
  BY <1>1, <1>2, WidthNamed, Rules DEF WideEnough, AllTagged

LEMMA SaveKeeps ==
    ASSUME kind \in Kinds, edits \in Nat, Sound(kind, page, edits), NEW n \in DOMAIN page,
           NEW layout, NEW width, NEW changed \in Changes(page[n].elements), NEW order,
           SaveBlock(n, [layout |-> layout, width |-> width, elements |-> Seated(changed, layout, order)])
    PROVE  Sound(kind, page', edits + 1)
<1>1. PICK e : e = Seated(changed, layout, order)
  OBVIOUS
<1>2. PICK b : b = [page[n] EXCEPT !.layout = layout, !.width = width, !.elements = e]
  OBVIOUS
<1>3. PICK q : q = [page EXCEPT ![n] = b]
  OBVIOUS
<1>4. ValidateStructure(b) /\ ValidateBuilderConstraints(kind, page, q) /\ page' = q
  BY <1>1, <1>2, <1>3 DEF SaveBlock, Saves
<1>5. page \in Seq(Block)
  BY DEF Sound
<1>6. page[n] \in Block /\ page[n].elements \in Seq(Element) /\ q[n] = b /\ n \in DOMAIN q
  BY <1>3, <1>5, BlockTypes
<1>6a. Rebuilt(b, page[n], layout, width, e)
  BY <1>2 DEF Rebuilt
<1>7. /\ b.layout = layout /\ b.width = width /\ b.elements = e /\ b.id = page[n].id
      /\ b.definition = page[n].definition
  BY <1>6, <1>6a, RebuiltFields
<1>8. Heir(kind, b, page[n])
  <2>1. b.hidden = page[n].hidden
    BY <1>6, <1>6a, RebuiltHidden
  <2> QED
    BY <1>7, <2>1 DEF Heir
<1>9. changed \in Seq(Loose(Slotted \cup {"none"}))
  BY <1>5, <1>6, ChangedLoose
<1>10. PICK to : to = [i \in DOMAIN changed |-> SlotAt(layout, order[i])]
  OBVIOUS
<1>11. e = [i \in DOMAIN changed |-> [changed[i] EXCEPT !.slot = to[i]]]
  BY <1>1, <1>10 DEF Seated
<1>12. e \in Seq(Loose({to[i] : i \in DOMAIN changed}))
  BY <1>9, <1>11, Reseated
<1>13. b.elements \in Seq(Element)
  <2>1. b.elements \in Seq(Loose({to[i] : i \in DOMAIN changed}))
    BY <1>7, <1>12
  <2>2. \A j \in DOMAIN b.elements : Tagged(b.elements[j])
    BY <1>4, <1>6, OneBlockRule
  <2> QED
    BY <1>4, <2>1, <2>2, Tightened
<1>14. layout \in LayoutNames /\ width \in {"full", "two_thirds", "half", "third"}
  BY <1>4, <1>6, <1>7, StructureTypes, OneBlockRule
<1>15. b \in Block
  BY <1>6, <1>6a, <1>7, <1>13, <1>14, BlockRebuilt
<1> QED
  BY <1>3, <1>4, <1>8, <1>15, OneBlockEdited

-----------------------------------------------------------------------------
Hung(c, b, n, hidden, w) == c = [b EXCEPT !.hidden = (n \in hidden), !.width = w]

LEMMA HungFields ==
    ASSUME NEW b \in Block, NEW w, NEW n, NEW hidden, NEW c, Hung(c, b, n, hidden, w)
    PROVE  /\ c.layout = b.layout /\ c.width = w /\ c.elements = b.elements /\ c.id = b.id
           /\ c.definition = b.definition
BY DEF Block, Hung

LEMMA HungHidden ==
    ASSUME NEW b \in Block, NEW w, NEW n, NEW hidden, NEW c, Hung(c, b, n, hidden, w)
    PROVE  c.hidden <=> n \in hidden
BY DEF Block, Hung

LEMMA HungTyped ==
    ASSUME NEW b \in Block, NEW w \in {"full", "two_thirds", "half", "third"}, NEW n, NEW hidden, NEW c,
           Hung(c, b, n, hidden, w)
    PROVE  c \in Block
<1>1. \A h \in BOOLEAN : [b EXCEPT !.hidden = h, !.width = w] \in Block
  BY DEF Block
<1>2. (n \in hidden) \in BOOLEAN
  OBVIOUS
<1> QED
  BY <1>1, <1>2, Zenon DEF Hung

LEMMA ArrangeKeeps ==
    ASSUME kind \in Kinds, edits \in Nat, Sound(kind, page, edits),
           NEW order \in [DOMAIN page -> DOMAIN page],
           \A i, j \in DOMAIN page : i # j => order[i] # order[j],
           NEW hidden, hidden \subseteq DOMAIN page, NEW widths, ArrangeBlocks(order, hidden, widths)
    PROVE  Sound(kind, page', edits + 1)
<1>1. PICK q : q = Arranged(order, hidden, widths)
  OBVIOUS
<1>2. ValidateBuilderConstraints(kind, page, q) /\ page' = q /\ \A n \in hidden : MayHide(page[n])
  BY <1>1 DEF ArrangeBlocks, Saves
<1>3. page \in Seq(Block) /\ Structured(page) /\ OwnIds(page)
  BY DEF Sound
<1>4. DOMAIN q = DOMAIN page /\ q = [i \in DOMAIN page |-> q[i]]
      /\ \A i \in DOMAIN page :
           q[i] = [page[order[i]] EXCEPT !.hidden = (order[i] \in hidden), !.width = widths[order[i]]]
  BY <1>1 DEF Arranged
<1>5. ASSUME NEW i \in DOMAIN page
      PROVE  q[i] \in Block /\ ValidateStructure(q[i]) /\ q[i].id = page[order[i]].id
             /\ Heir(kind, q[i], page[order[i]])
  <2>1. PICK n \in DOMAIN page : n = order[i]
    OBVIOUS
  <2>3. PICK w : w = widths[n]
    OBVIOUS
  <2>4. PICK c : c = q[i]
    OBVIOUS
  <2>4a. Hung(c, page[n], n, hidden, w)
    BY <1>4, <2>1, <2>3, <2>4 DEF Hung
  <2>5. page[n] \in Block
    BY <1>3, BlockTypes
  <2>6. /\ c.layout = page[n].layout /\ c.width = w /\ c.elements = page[n].elements
        /\ c.id = page[n].id /\ c.definition = page[n].definition
    BY <2>4a, <2>5, HungFields
  <2>7. w \in {"full", "two_thirds", "half", "third"}
    BY <1>2, <1>4, <2>4, <2>6, OneBlockRule
  <2>8. c \in Block
    BY <2>4a, <2>5, <2>7, HungTyped
  <2>9. ValidateStructure(c)
    <3>1. ValidateStructure(page[n])
      BY <1>3 DEF Structured
    <3> QED
      BY <2>6, <3>1 DEF ValidateStructure
  <2>10. Heir(kind, c, page[n])
    <3>1. c.hidden <=> n \in hidden
      BY <2>4a, <2>5, HungHidden
    <3>2. c.hidden => Hideable(kind, page[n])
      BY <1>2, <3>1 DEF MayHide, Hideable
    <3> QED
      BY <2>6, <3>2 DEF Heir
  <2> QED
    BY <2>1, <2>4, <2>6, <2>8, <2>9, <2>10
<1>6. q \in Seq(Block)
  <2>1. Len(page) \in Nat /\ DOMAIN page = 1 .. Len(page)
    BY <1>3
  <2>2. q \in [1 .. Len(page) -> Block]
    BY <1>4, <1>5, <2>1
  <2> QED
    BY <2>1, <2>2, SeqDef
<1>7. Structured(q)
  BY <1>4, <1>5 DEF Structured
<1>8. OwnIds(q)
  <2>1. \A i \in DOMAIN q : q[i].id = page[order[i]].id /\ i \in DOMAIN page
    BY <1>4, <1>5
  <2> SUFFICES ASSUME NEW i \in DOMAIN q, NEW j \in DOMAIN q, i # j PROVE q[i].id # q[j].id
    BY DEF OwnIds
  <2>2. PICK n, m \in DOMAIN page : n = order[i] /\ m = order[j] /\ n # m
    BY <2>1
  <2>3. page[n].id # page[m].id
    BY <1>3, <2>2 DEF OwnIds
  <2> QED
    BY <2>1, <2>2, <2>3
<1>9. Descends(kind, page, q)
  BY <1>4, <1>5 DEF Descends
<1> QED
  BY <1>2, <1>6, <1>7, <1>8, <1>9, EditKeeps

-----------------------------------------------------------------------------
(* A block fewer: those that stay are as they were. *)
Fewer(w, p, n) ==
    /\ w \in Seq(Block)
    /\ \E at \in [DOMAIN w -> DOMAIN p \ {n}] :
         /\ \A i \in DOMAIN w : w[i] = p[at[i]]
         /\ \A i, j \in DOMAIN w : i # j => at[i] # at[j]
         /\ \A x \in DOMAIN p \ {n} : \E i \in DOMAIN w : at[i] = x

LEMMA WithoutBlock ==
    ASSUME NEW p \in Seq(Block), NEW n \in DOMAIN p, NEW w, w = Dropping(p, n)
    PROVE  Fewer(w, p, n)
<1>1. /\ w \in Seq(Block) /\ DOMAIN w = 1 .. Len(p) - 1
      /\ \A i \in 1 .. Len(p) - 1 : w[i] = p[IF i < n THEN i ELSE i + 1]
  BY Dropped
<1>2. Len(p) \in Nat /\ DOMAIN p = 1 .. Len(p)
  OBVIOUS
<1> DEFINE at == [i \in 1 .. Len(p) - 1 |-> IF i < n THEN i ELSE i + 1]
<1>3. at \in [DOMAIN w -> DOMAIN p \ {n}] /\ \A i \in DOMAIN w : w[i] = p[at[i]]
  BY <1>1, <1>2
<1>4. \A i, j \in DOMAIN w : i # j => at[i] # at[j]
  BY <1>1, <1>2
<1>5. ASSUME NEW x \in DOMAIN p \ {n} PROVE \E i \in DOMAIN w : at[i] = x
  <2>1. CASE x < n
    <3>1. x \in DOMAIN w /\ at[x] = x
      BY <1>1, <1>2, <2>1
    <3> QED
      BY <3>1
  <2>2. CASE x > n
    <3>1. x - 1 \in DOMAIN w /\ at[x - 1] = x
      BY <1>1, <1>2, <2>2
    <3> QED
      BY <3>1
  <2>3. x \in Nat /\ n \in Nat /\ x # n
    BY <1>2
  <2>4. x < n \/ x > n
    BY <2>3
  <2> QED
    BY <2>1, <2>2, <2>4
<1> HIDE DEF at
<1> QED
  BY <1>1, <1>3, <1>4, <1>5 DEF Fewer

LEMMA RemoveKeeps ==
    ASSUME kind \in Kinds, edits \in Nat, Sound(kind, page, edits), NEW n \in DOMAIN page, RemoveBlock(n)
    PROVE  Sound(kind, page', edits + 1)
<1>1. PICK q : q = Dropping(page, n)
  OBVIOUS
<1>2. ValidateBuilderConstraints(kind, page, q) /\ page' = q
  BY <1>1 DEF RemoveBlock, Saves, Without
<1>3. page \in Seq(Block) /\ Structured(page) /\ OwnIds(page)
  BY DEF Sound
<1>3a. Fewer(q, page, n)
  BY <1>1, <1>3, WithoutBlock
<1>4. PICK at \in [DOMAIN q -> DOMAIN page \ {n}] :
                /\ \A i \in DOMAIN q : q[i] = page[at[i]]
                /\ \A i, j \in DOMAIN q : i # j => at[i] # at[j]
  BY <1>3a DEF Fewer
<1>5. q \in Seq(Block)
  BY <1>3a DEF Fewer
<1>6. Structured(q) /\ OwnIds(q)
  BY <1>3, <1>4 DEF Structured, OwnIds
<1>7. Descends(kind, page, q)
  BY <1>4 DEF Descends, Heir
<1> QED
  BY <1>2, <1>5, <1>6, <1>7, EditKeeps

-----------------------------------------------------------------------------
(* Content moved to another block. *)
Refilled(c, b, e) == c = [b EXCEPT !.elements = e]

LEMMA RefilledFields ==
    ASSUME NEW b \in Block, NEW e, NEW c, Refilled(c, b, e)
    PROVE  /\ c.layout = b.layout /\ c.width = b.width /\ c.elements = e /\ c.id = b.id
           /\ c.definition = b.definition
BY DEF Block, Refilled

LEMMA RefilledHidden ==
    ASSUME NEW b \in Block, NEW e, NEW c, Refilled(c, b, e)
    PROVE  c.hidden = b.hidden
BY DEF Block, Refilled

LEMMA RefilledTyped ==
    ASSUME NEW b \in Block, NEW e \in Seq(Element), NEW c, Refilled(c, b, e)
    PROVE  c \in Block
BY DEF Block, Refilled

LEMMA LooseWider ==
    ASSUME NEW S, NEW T, S \subseteq T, NEW s \in Seq(Loose(S))
    PROVE  s \in Seq(Loose(T))
<1>1. \A e \in Loose(S) : e \in Loose(T)
  BY DEF Loose
<1> QED
  BY <1>1, SeqMonotonic

LEMMA MovedLoose ==
    ASSUME NEW from, NEW to, from.elements \in Seq(Element), to.elements \in Seq(Element)
    PROVE  \E S : Moved(from, to) \in Seq(Loose(S))
<1>1. PICK free : free = FreeSlots(to)
  OBVIOUS
<1>2. PICK seat : seat = [i \in DOMAIN from.elements |-> IF i \in DOMAIN free THEN free[i] ELSE "none"]
  OBVIOUS
<1>3. PICK f : f = from.elements /\ f \in Seq(Element)
  OBVIOUS
<1>4. PICK t : t = to.elements /\ t \in Seq(Element)
  OBVIOUS
<1>5. PICK u : u = [i \in DOMAIN f |-> [f[i] EXCEPT !.slot = seat[i]]]
  OBVIOUS
<1>6. Moved(from, to) = t \o u
  BY <1>1, <1>2, <1>3, <1>4, <1>5 DEF Moved
<1>7. \A e \in Element : e \in Loose(Slotted)
  BY ElementLoose
<1>8. f \in Seq(Loose(Slotted)) /\ t \in Seq(Loose(Slotted))
  BY <1>3, <1>4, <1>7, SeqMonotonic
<1>9. PICK T : T = {seat[i] : i \in DOMAIN f}
  OBVIOUS
<1>10. u \in Seq(Loose(T))
  BY <1>5, <1>8, <1>9, Reseated
<1>11. PICK L : L = Loose(T \cup Slotted)
  OBVIOUS
<1>12. t \in Seq(L) /\ u \in Seq(L)
  BY <1>8, <1>10, <1>11, LooseWider
<1>13. t \o u \in Seq(L)
  BY <1>12
<1> QED
  BY <1>6, <1>11, <1>13

(* The page once the content of n is in m. *)
MovedPage(q, p, n, m, to) ==
    \E at \in [DOMAIN q -> DOMAIN p \ {n}] :
        /\ \A i \in DOMAIN q : q[i] = IF at[i] = m THEN to ELSE p[at[i]]
        /\ \A i, j \in DOMAIN q : i # j => at[i] # at[j]
        /\ \A x \in DOMAIN p \ {n} : \E i \in DOMAIN q : at[i] = x

LEMMA MovedShape ==
    ASSUME NEW p \in Seq(Block), OwnIds(p), NEW n \in DOMAIN p, NEW m \in DOMAIN p \ {n},
           NEW to, to.id = p[m].id, NEW w, Fewer(w, p, n),
           NEW q, q = [i \in DOMAIN w |-> IF w[i].id = to.id THEN to ELSE w[i]]
    PROVE  MovedPage(q, p, n, m, to) /\ DOMAIN q = DOMAIN w
<1>1. PICK at \in [DOMAIN w -> DOMAIN p \ {n}] :
         /\ \A i \in DOMAIN w : w[i] = p[at[i]]
         /\ \A i, j \in DOMAIN w : i # j => at[i] # at[j]
         /\ \A x \in DOMAIN p \ {n} : \E i \in DOMAIN w : at[i] = x
  BY DEF Fewer
<1>2. DOMAIN q = DOMAIN w
  OBVIOUS
<1>3. \A i \in DOMAIN w : w[i].id = to.id <=> at[i] = m
  BY <1>1 DEF OwnIds
<1>4. \A i \in DOMAIN w : q[i] = IF at[i] = m THEN to ELSE p[at[i]]
  BY <1>1, <1>3
<1> QED
  BY <1>1, <1>2, <1>4 DEF MovedPage

LEMMA MoveSteps ==
    ASSUME kind \in Kinds, edits \in Nat, Sound(kind, page, edits), NEW n, NEW m, MoveBlockContent(n, m)
    PROVE  \E to : /\ n \in DOMAIN page /\ m \in DOMAIN page \ {n}
                   /\ Refilled(to, page[m], Moved(page[n], page[m]))
                   /\ ValidateStructure(to) /\ ValidateBuilderConstraints(kind, page, page')
                   /\ MovedPage(page', page, n, m, to) /\ DOMAIN page' = DOMAIN Dropping(page, n)
<1>1. PICK to : to = [page[m] EXCEPT !.elements = Moved(page[n], page[m])]
  OBVIOUS
<1>2. PICK w : w = Dropping(page, n)
  OBVIOUS
<1>3. PICK q : q = [i \in DOMAIN w |-> IF w[i].id = to.id THEN to ELSE w[i]]
  OBVIOUS
<1>4. /\ ValidateStructure(to) /\ ValidateBuilderConstraints(kind, page, q) /\ page' = q
      /\ n \in DOMAIN page /\ m \in DOMAIN page \ {n}
  BY <1>1, <1>2, <1>3 DEF MoveBlockContent, Saves, Without
<1>5. Refilled(to, page[m], Moved(page[n], page[m]))
  BY <1>1 DEF Refilled
<1>6. page \in Seq(Block) /\ OwnIds(page)
  BY DEF Sound
<1>7. to.id = page[m].id
  BY <1>4, <1>5, <1>6, BlockTypes, RefilledFields
<1>8. Fewer(w, page, n)
  BY <1>2, <1>4, <1>6, WithoutBlock
<1>9. MovedPage(q, page, n, m, to) /\ DOMAIN q = DOMAIN w
  BY <1>3, <1>4, <1>6, <1>7, <1>8, MovedShape
<1> QED
  BY <1>2, <1>4, <1>5, <1>9

LEMMA MoveKeeps ==
    ASSUME kind \in Kinds, edits \in Nat, Sound(kind, page, edits), NEW n, NEW m, MoveBlockContent(n, m)
    PROVE  Sound(kind, page', edits + 1)
<1>1. PICK to : /\ n \in DOMAIN page /\ m \in DOMAIN page \ {n}
                /\ Refilled(to, page[m], Moved(page[n], page[m]))
                /\ ValidateStructure(to) /\ ValidateBuilderConstraints(kind, page, page')
                /\ MovedPage(page', page, n, m, to) /\ DOMAIN page' = DOMAIN Dropping(page, n)
  BY MoveSteps
<1>2. PICK q : q = page'
  OBVIOUS
<1>3. PICK at \in [DOMAIN q -> DOMAIN page \ {n}] :
        /\ \A i \in DOMAIN q : q[i] = IF at[i] = m THEN to ELSE page[at[i]]
        /\ \A i, j \in DOMAIN q : i # j => at[i] # at[j]
        /\ \A x \in DOMAIN page \ {n} : \E i \in DOMAIN q : at[i] = x
  BY <1>1, <1>2 DEF MovedPage
<1>4. page \in Seq(Block) /\ Structured(page) /\ OwnIds(page)
  BY DEF Sound
<1>5. page[m] \in Block /\ page[n].elements \in Seq(Element) /\ page[m].elements \in Seq(Element)
  BY <1>1, <1>4, BlockTypes
<1>6. to.id = page[m].id /\ to.definition = page[m].definition /\ to.elements = Moved(page[n], page[m])
  BY <1>1, <1>5, RefilledFields
<1>7. PICK x \in DOMAIN q : q[x] = to
  BY <1>1, <1>3
<1>8. to.elements \in Seq(Element)
  <2>1. PICK S : to.elements \in Seq(Loose(S))
    BY <1>5, <1>6, MovedLoose
  <2>2. \A j \in DOMAIN to.elements : Tagged(to.elements[j])
    BY <1>1, <1>2, <1>7, OneBlockRule
  <2> QED
    BY <1>1, <2>1, <2>2, Tightened
<1>9. to \in Block
  BY <1>1, <1>5, <1>6, <1>8, RefilledTyped
<1>10. Heir(kind, to, page[m])
  <2>1. to.hidden = page[m].hidden
    BY <1>1, <1>5, RefilledHidden
  <2> QED
    BY <1>6, <2>1 DEF Heir
<1>11. \A i \in DOMAIN q : q[i] \in Block /\ ValidateStructure(q[i]) /\ Heir(kind, q[i], page[at[i]])
  <2> SUFFICES ASSUME NEW i \in DOMAIN q
               PROVE  q[i] \in Block /\ ValidateStructure(q[i]) /\ Heir(kind, q[i], page[at[i]])
    OBVIOUS
  <2>1. CASE at[i] = m
    BY <1>1, <1>3, <1>9, <1>10, <2>1
  <2>2. CASE at[i] # m
    <3>1. q[i] = page[at[i]] /\ at[i] \in DOMAIN page
      BY <1>3, <2>2
    <3> QED
      BY <1>4, <3>1, BlockTypes DEF Structured, Heir
  <2> QED
    BY <2>1, <2>2
<1>12. q \in Seq(Block)
  <2>1. DOMAIN q = 1 .. Len(page) - 1 /\ Len(page) \in Nat /\ Len(page) > 0
    BY <1>1, <1>2, <1>4, Dropped
  <2>2. q = [i \in DOMAIN q |-> q[i]]
    BY <1>2 DEF MoveBlockContent, Saves
  <2>3. q \in [1 .. Len(page) - 1 -> Block] /\ Len(page) - 1 \in Nat
    BY <1>11, <2>1, <2>2
  <2> QED
    BY <2>3, SeqDef
<1>13. Structured(q) /\ Descends(kind, page, q)
  BY <1>3, <1>11 DEF Structured, Descends
<1>14. OwnIds(q)
  <2>1. \A i \in DOMAIN q : q[i].id = page[at[i]].id
    BY <1>11 DEF Heir
  <2> QED
    BY <1>3, <1>4, <2>1 DEF OwnIds
<1> QED
  BY <1>1, <1>2, <1>12, <1>13, <1>14, EditKeeps

-----------------------------------------------------------------------------
(* A block from the add tray. *)
LEMMA StartListed ==
    ASSUME NEW k, NEW d, DefinitionSound(k, d), NEW start \in Starts(d)
    PROVE  Len(start) \in Nat /\ DOMAIN start = 1 .. Len(start)
<1>1. CASE \E e : start = <<e>>
  BY <1>1
<1>2. CASE start = d.elements
  BY <1>2 DEF DefinitionSound
<1> QED
  BY <1>1, <1>2 DEF Starts

LEMMA AddKeeps ==
    ASSUME kind \in Kinds, edits \in Nat, Sound(kind, page, edits), NEW id, NEW start, AddBlock(id, start)
    PROVE  Sound(kind, page', edits + 1)
<1>1. PICK b : b = NewBlock(kind, id, start, edits + 1)
  OBVIOUS
<1>2. PICK q : q = Append(page, b)
  OBVIOUS
<1>3. /\ ValidateStructure(b) /\ ValidateBuilderConstraints(kind, q, q) /\ page' = q
      /\ OffersBlock(kind, id, start, page)
  BY <1>1, <1>2 DEF AddBlock, Saves
<1>4. PICK d : d = Definition(kind, id) /\ DefinitionSound(kind, d) /\ d \in Images(Catalog(kind))
               /\ start \in Starts(d) /\ d.id = id
  <2>1. InCatalog(kind, id)
    BY <1>3 DEF OffersBlock
  <2>2. PICK c \in DOMAIN Catalog(kind) : Catalog(kind)[c].id = id
    BY <2>1 DEF InCatalog
  <2>3. DefinitionSound(kind, Catalog(kind)[c]) /\ Definition(kind, id) = Catalog(kind)[c]
        /\ Catalog(kind)[c] \in Images(Catalog(kind))
    BY <2>2, OneDefinition
  <2> QED
    BY <1>3, <2>2, <2>3 DEF OffersBlock
<1>5. PICK new : new = <<edits + 1, 1>>
  OBVIOUS
<1>6. PICK items : items = [i \in DOMAIN start |-> 0]
  OBVIOUS
<1>7. Made(b, d, start, new, items)
  BY <1>1, <1>4, <1>5, <1>6 DEF NewBlock, Made
<1>8. PICK n \in Nat : n = Len(start) /\ DOMAIN start = 1 .. n
  BY <1>4, StartListed
<1>9. page \in Seq(Block) /\ Structured(page) /\ OwnIds(page) /\ MintedBy(page, edits) /\ Requires(kind, page)
  BY DEF Sound
<1>10. /\ DOMAIN q = 1 .. Len(page) + 1 /\ q[Len(page) + 1] = b /\ DOMAIN page = 1 .. Len(page) /\ Len(page) \in Nat
       /\ \A i \in DOMAIN page : q[i] = page[i]
  <2>1. Len(page) \in Nat /\ DOMAIN page = 1 .. Len(page)
    BY <1>9
  <2>2. DOMAIN q = 1 .. Len(page) + 1 /\ q[Len(page) + 1] = b /\ \A i \in 1 .. Len(page) : q[i] = page[i]
    BY <1>2, <1>9, AppendProperties
  <2> QED
    BY <2>1, <2>2
<1>11. b.id = new /\ b.definition = d.id /\ b.width = d.width
       /\ b.elements = Laid(d, start, b.layout, new, items)
  BY <1>7, RowFields
<1>12. /\ DOMAIN b.elements = 1 .. n
       /\ \A j \in 1 .. n : /\ b.elements[j].id = Append(new, j) /\ b.elements[j].role = start[j].role
                            /\ b.elements[j].type = start[j].type
  <2>1. PICK s : s = b.elements
    OBVIOUS
  <2> QED
    BY <1>8, <1>11, <2>1, LaidFields
<1>13. /\ new \in Nat \X Nat /\ new[1] = edits + 1
       /\ \A j \in 1 .. n : /\ Append(new, j) \in Seq(Nat) /\ Append(new, j) # <<>>
                            /\ Append(new, j)[1] = edits + 1
  <2>1. edits + 1 \in Nat /\ 1 \in Nat
    OBVIOUS
  <2>2. \A j \in Nat : /\ new \in Nat \X Nat /\ new[1] = edits + 1 /\ Append(new, j) \in Seq(Nat)
                       /\ Append(new, j) # <<>> /\ Append(new, j)[1] = edits + 1
    BY <1>5, <2>1, Minted
  <2>3. 0 \in Nat /\ \A j \in 1 .. n : j \in Nat
    OBVIOUS
  <2> QED
    BY <2>2, <2>3
<1>14. b \in Block
  <2>1. \A j \in DOMAIN b.elements : Tagged(b.elements[j])
    BY <1>3, <1>10, OneBlockRule
  <2>2. \A j \in 1 .. n : Tagged(start[j])
    BY <1>12, <2>1 DEF Tagged
  <2>3. d.id \in DefinitionIds
    BY <1>4 DEF DefinitionIds
  <2>4. Columns(d.width) # 0
    <3>1. WideEnough(b.width, b.layout)
      BY <1>3, <1>10, Rules DEF BlockRules, BlockRule
    <3> QED
      BY <1>11, <3>1 DEF WideEnough
  <2>5. \A j \in 1 .. n : items[j] \in Nat
    BY <1>6, <1>8
  <2> QED
    BY <1>3, <1>7, <1>8, <1>13, <2>2, <2>3, <2>4, <2>5, RowTyped
<1>15. q \in Seq(Block)
  BY <1>2, <1>9, <1>14, AppendProperties
<1>16. Structured(q)
  BY <1>3, <1>9, <1>10 DEF Structured
<1>17. \A i \in DOMAIN page : page[i].id[1] <= edits /\ page[i].id[1] \in Nat
  BY <1>9, BlockTypes DEF MintedBy
<1>18. OwnIds(q)
  <2>1. \A i \in DOMAIN page : page[i].id # b.id
    BY <1>11, <1>13, <1>17
  <2> QED
    BY <1>9, <1>10, <2>1 DEF OwnIds
<1>19. MintedBy(q, edits + 1)
  <2>1. \A i \in DOMAIN q : q[i].id[1] <= edits + 1
    BY <1>10, <1>11, <1>13, <1>17
  <2>2. \A e \in Elements(q) : e.id # <<>> /\ e.id[1] <= edits + 1
    <3> SUFFICES ASSUME NEW e \in Elements(q) PROVE e.id # <<>> /\ e.id[1] <= edits + 1
      OBVIOUS
    <3>1. PICK i \in DOMAIN q : e \in Images(q[i].elements)
      BY DEF Elements
    <3>2. CASE i \in DOMAIN page
      <4>1. e \in Elements(page)
        BY <1>10, <3>1, <3>2 DEF Elements
      <4>2. e.id # <<>> /\ e.id[1] <= edits /\ e.id[1] \in Nat
        BY <1>9, <4>1, ElementTypes DEF MintedBy
      <4> QED
        BY <4>2
    <3>3. CASE i \notin DOMAIN page
      <4>1. e \in Images(b.elements)
        BY <1>10, <3>1, <3>3
      <4>2. PICK j \in 1 .. n : e = b.elements[j]
        BY <1>12, <4>1 DEF Images
      <4>3. e.id = Append(new, j)
        BY <1>12, <4>2
      <4> QED
        BY <1>13, <4>3
    <3> QED
      BY <3>2, <3>3
  <2> QED
    BY <2>1, <2>2 DEF MintedBy
<1>20. Requires(kind, q)
  <2> SUFFICES ASSUME NEW x \in Images(Catalog(kind)), x.required PROVE RequiredOn(kind, q, x)
    BY DEF Requires
  <2>1. PICK i \in DOMAIN page :
          /\ page[i].definition = x.id /\ (page[i].hidden => x.hideable)
          /\ \A e \in Images(x.elements) : e.pinned =>
               \E c \in Images(page[i].elements) : c.role = e.role /\ c.type = e.type
    BY <1>9 DEF Requires, RequiredOn
  <2>2. i \in DOMAIN q /\ q[i] = page[i]
    BY <1>10
  <2> QED
    BY <2>1, <2>2 DEF RequiredOn
<1> QED
  BY <1>3, <1>15, <1>16, <1>18, <1>19, <1>20 DEF Sound

-----------------------------------------------------------------------------
(* What a kind asks for before publishing is pinned in a block it requires. *)
LEMMA OwnDefinition ==
    ASSUME NEW own, own \in Seq(Images(own)), NEW i \in DOMAIN own
    PROVE  own[i] \in Images(own \o Shared)
<1>0. PICK c : c = own \o Shared
  OBVIOUS
<1>1. Shared \in Seq(Images(Shared))
  BY SharedSound DEF CatalogSound
<1>2. PICK S : S = Images(own) \cup Images(Shared)
  OBVIOUS
<1>3. own \in Seq(S) /\ Shared \in Seq(S)
  BY <1>1, <1>2, SeqMonotonic
<1>4. i \in DOMAIN c /\ c[i] = own[i]
  BY <1>0, <1>3
<1> QED
  BY <1>0, <1>4 DEF Images

Pins(d, role) == d.required /\ \E e \in Images(d.elements) : e.pinned /\ e.role = role

LEMMA PinsFirst ==
    ASSUME NEW d, NEW role, NEW e, d.required = TRUE, 1 \in DOMAIN d.elements, d.elements[1] = e,
           e.pinned, e.role = role
    PROVE  Pins(d, role)
BY DEF Pins, Images

LEMMA OwnPins ==
    /\ Pins(Character[1], "description") /\ Pins(Character[2], "greetings")
    /\ Pins(LorebookKind[1], "lorebook_entries") /\ Pins(Preset[1], "prompt_fragments")
    /\ Pins(Theme[1], "theme_tokens") /\ Pins(Pack[1], "pack_items")
<1>1. Pins(Character[1], "description")
  <2> DEFINE d == Character[1]
  <2>1. d.required = TRUE
    BY DEF Character, Required, Optional
  <2>2. d.elements = <<Pinned(Rich("description")), Pinned(Rich("personality")), Pinned(Rich("scenario"))>>
    BY DEF Character, Required, Optional
  <2>3. Pinned(Rich("description")).role = "description" /\ Pinned(Rich("description")).pinned
    BY DEF Defined, Pinned, Rich
  <2> HIDE DEF d
  <2>4. 1 \in DOMAIN d.elements /\ d.elements[1] = Pinned(Rich("description"))
    BY <2>2, Triple
  <2>5. Pins(d, "description")
    BY <2>1, <2>3, <2>4, PinsFirst
  <2> QED
    BY <2>5 DEF d
<1>2. Pins(Character[2], "greetings")
  <2> DEFINE d == Character[2]
  <2>1. d.required = TRUE
    BY DEF Character, Required, Optional
  <2>2. d.elements = <<Pinned(Texts("greetings")), Pinned(Plain("example_dialogue")), Texts("group_greetings")>>
    BY DEF Character, Required, Optional
  <2>3. Pinned(Texts("greetings")).role = "greetings" /\ Pinned(Texts("greetings")).pinned
    BY DEF Defined, Pinned, Texts
  <2> HIDE DEF d
  <2>4. 1 \in DOMAIN d.elements /\ d.elements[1] = Pinned(Texts("greetings"))
    BY <2>2, Triple
  <2>5. Pins(d, "greetings")
    BY <2>1, <2>3, <2>4, PinsFirst
  <2> QED
    BY <2>5 DEF d
<1>3. Pins(LorebookKind[1], "lorebook_entries")
  <2> DEFINE d == LorebookKind[1]
  <2>1. d.required = TRUE
    BY DEF LorebookKind, Required, Optional
  <2>2. d.elements = <<Pinned(Plain("lorebook_entries"))>>
    BY DEF LorebookKind, Required, Optional
  <2>3. Pinned(Plain("lorebook_entries")).role = "lorebook_entries" /\ Pinned(Plain("lorebook_entries")).pinned
    BY DEF Defined, Pinned, Plain, RoleTypes
  <2> HIDE DEF d
  <2>4. 1 \in DOMAIN d.elements /\ d.elements[1] = Pinned(Plain("lorebook_entries"))
    BY <2>2, Triple
  <2>5. Pins(d, "lorebook_entries")
    BY <2>1, <2>3, <2>4, PinsFirst
  <2> QED
    BY <2>5 DEF d
<1>4. Pins(Preset[1], "prompt_fragments")
  <2> DEFINE d == Preset[1]
  <2>1. d.required = TRUE
    BY DEF Preset, Required, Optional
  <2>2. d.elements = <<Pinned(Plain("prompt_fragments"))>>
    BY DEF Preset, Required, Optional
  <2>3. Pinned(Plain("prompt_fragments")).role = "prompt_fragments" /\ Pinned(Plain("prompt_fragments")).pinned
    BY DEF Defined, Pinned, Plain, RoleTypes
  <2> HIDE DEF d
  <2>4. 1 \in DOMAIN d.elements /\ d.elements[1] = Pinned(Plain("prompt_fragments"))
    BY <2>2, Triple
  <2>5. Pins(d, "prompt_fragments")
    BY <2>1, <2>3, <2>4, PinsFirst
  <2> QED
    BY <2>5 DEF d
<1>5. Pins(Theme[1], "theme_tokens")
  <2> DEFINE d == Theme[1]
  <2>1. d.required = TRUE
    BY DEF Theme, Required, Optional
  <2>2. d.elements = <<Pinned(Plain("theme_tokens")), Pinned(Plain("theme_controls"))>>
    BY DEF Theme, Required, Optional
  <2>3. Pinned(Plain("theme_tokens")).role = "theme_tokens" /\ Pinned(Plain("theme_tokens")).pinned
    BY DEF Defined, Pinned, Plain, RoleTypes
  <2> HIDE DEF d
  <2>4. 1 \in DOMAIN d.elements /\ d.elements[1] = Pinned(Plain("theme_tokens"))
    BY <2>2, Triple
  <2>5. Pins(d, "theme_tokens")
    BY <2>1, <2>3, <2>4, PinsFirst
  <2> QED
    BY <2>5 DEF d
<1>6. Pins(Pack[1], "pack_items")
  <2> DEFINE d == Pack[1]
  <2>1. d.required = TRUE
    BY DEF Pack, Required, Optional
  <2>2. d.elements = <<Pinned(Plain("pack_items"))>>
    BY DEF Pack, Required, Optional
  <2>3. Pinned(Plain("pack_items")).role = "pack_items" /\ Pinned(Plain("pack_items")).pinned
    BY DEF Defined, Pinned, Plain, RoleTypes
  <2> HIDE DEF d
  <2>4. 1 \in DOMAIN d.elements /\ d.elements[1] = Pinned(Plain("pack_items"))
    BY <2>2, Triple
  <2>5. Pins(d, "pack_items")
    BY <2>1, <2>3, <2>4, PinsFirst
  <2> QED
    BY <2>5 DEF d
<1> QED
  BY <1>1, <1>2, <1>3, <1>4, <1>5, <1>6

LEMMA FloorsPinned ==
    ASSUME NEW k \in Kinds
    PROVE  /\ \A r \in ContentFloors(k) : \E d \in Images(Catalog(k)) : Pins(d, r)
           /\ ContentFloors(k) # {}
<1>1. /\ DOMAIN Character = 1 .. 7 /\ DOMAIN LorebookKind = 1 .. 1 /\ DOMAIN Preset = 1 .. 5
      /\ DOMAIN Theme = 1 .. 2 /\ DOMAIN Pack = 1 .. 1
  <2>1. DOMAIN Character = 1 .. 7
    BY DEF Character
  <2>2. DOMAIN LorebookKind = 1 .. 1
    BY DEF LorebookKind
  <2>3. DOMAIN Preset = 1 .. 5
    BY DEF Preset
  <2>4. DOMAIN Theme = 1 .. 2
    BY DEF Theme
  <2>5. DOMAIN Pack = 1 .. 1
    BY DEF Pack
  <2> QED
    BY <2>1, <2>2, <2>3, <2>4, <2>5
<1>2. CASE k = "character"
  <2>1. ContentFloors(k) = {"description", "greetings"}
    BY <1>2 DEF ContentFloors
  <2>2. Catalog(k) = Character \o Shared
    BY <1>2 DEF Catalog
  <2>4. Character \in Seq(Images(Character)) /\ 1 \in DOMAIN Character /\ 2 \in DOMAIN Character
    BY <1>1, Literal
  <2>3. Character[1] \in Images(Catalog(k)) /\ Character[2] \in Images(Catalog(k))
    BY <2>2, <2>4, OwnDefinition
  <2> QED
    BY <2>1, <2>3, OwnPins
<1>3. CASE k = "lorebook"
  <2>1. ContentFloors(k) = {"lorebook_entries"}
    BY <1>3 DEF ContentFloors
  <2>2. Catalog(k) = LorebookKind \o Shared
    BY <1>3 DEF Catalog
  <2>4. LorebookKind \in Seq(Images(LorebookKind)) /\ 1 \in DOMAIN LorebookKind
    BY <1>1, Literal
  <2>3. LorebookKind[1] \in Images(Catalog(k))
    BY <2>2, <2>4, OwnDefinition
  <2> QED
    BY <2>1, <2>3, OwnPins
<1>4. CASE k = "preset"
  <2>1. ContentFloors(k) = {"prompt_fragments"}
    BY <1>4 DEF ContentFloors
  <2>2. Catalog(k) = Preset \o Shared
    BY <1>4 DEF Catalog
  <2>4. Preset \in Seq(Images(Preset)) /\ 1 \in DOMAIN Preset
    BY <1>1, Literal
  <2>3. Preset[1] \in Images(Catalog(k))
    BY <2>2, <2>4, OwnDefinition
  <2> QED
    BY <2>1, <2>3, OwnPins
<1>5. CASE k = "theme"
  <2>1. ContentFloors(k) = {"theme_tokens"}
    BY <1>5 DEF ContentFloors
  <2>2. Catalog(k) = Theme \o Shared
    BY <1>5 DEF Catalog
  <2>4. Theme \in Seq(Images(Theme)) /\ 1 \in DOMAIN Theme
    BY <1>1, Literal
  <2>3. Theme[1] \in Images(Catalog(k))
    BY <2>2, <2>4, OwnDefinition
  <2> QED
    BY <2>1, <2>3, OwnPins
<1>6. CASE k = "pack"
  <2>1. ContentFloors(k) = {"pack_items"}
    BY <1>6 DEF ContentFloors
  <2>2. Catalog(k) = Pack \o Shared
    BY <1>6 DEF Catalog
  <2>4. Pack \in Seq(Images(Pack)) /\ 1 \in DOMAIN Pack
    BY <1>1, Literal
  <2>3. Pack[1] \in Images(Catalog(k))
    BY <2>2, <2>4, OwnDefinition
  <2> QED
    BY <2>1, <2>3, OwnPins
<1> QED
  BY <1>2, <1>3, <1>4, <1>5, <1>6 DEF Kinds

-----------------------------------------------------------------------------
(* The inductive invariant. *)
PageInv == kind \in PageKinds /\ edits \in 0 .. MaxEdits /\ Sound(kind, page, edits)

LEMMA Typing ==
    ASSUME PageInv
    PROVE  /\ kind \in Kinds /\ edits \in Nat /\ MaxEdits \in Nat /\ page \in Seq(Block)
           /\ \A t \in Sources(kind) : t \in Seq(Tag)
BY PagesAssumption DEF PageInv, Sound, Tag

LEMMA InvInit == Init => PageInv
<1> SUFFICES ASSUME Init PROVE PageInv
  OBVIOUS
<1>1. kind \in PageKinds /\ kind \in Kinds /\ edits = 0 /\ MaxEdits \in Nat
  BY PagesAssumption DEF Init
<1>2. PICK tagged \in Sources(kind) : Placeable(kind, tagged) /\ page = Place(kind, tagged, 0)
  BY DEF Init
<1>3. tagged \in Seq(Tag)
  BY <1>1, PagesAssumption DEF Tag
<1>4. Placed(kind, page, 0)
  BY <1>1, <1>2, <1>3, PlaceRows
<1>5. Sound(kind, page, 0)
  BY <1>1, <1>4, PlacedSound
<1> QED
  BY <1>1, <1>5 DEF PageInv

(* What an edit does, action by action. *)
LEMMA Edits ==
    ASSUME Edit
    PROVE  \/ \E tagged \in Sources(kind) : Replace(tagged)
           \/ \E id, start : AddBlock(id, start)
           \/ \E n \in DOMAIN page : \E layout, width, order : \E changed \in Changes(page[n].elements) :
                SaveBlock(n, [layout |-> layout, width |-> width,
                              elements |-> Seated(changed, layout, order)])
           \/ \E n, m \in DOMAIN page : ArrangeBlocks([AsItIs EXCEPT ![n] = m, ![m] = n], HiddenNow, WidthsNow)
           \/ \E n, m : MoveBlockContent(n, m)
           \/ \E n \in DOMAIN page : RemoveBlock(n)
           \/ \E n \in DOMAIN page : \E hidden \in SUBSET {n} : \E widths :
                ArrangeBlocks(AsItIs, hidden \cup (HiddenNow \ {n}), widths)
<1>1. CASE \E tagged \in Sources(kind) : Replace(tagged)
  BY <1>1
<1>2. CASE \E id \in {t \in Tray : InCatalog(kind, t)} :
             \E start \in Starts(Definition(kind, id)) : AddBlock(id, start)
  BY <1>2
<1>3. CASE \E n \in DOMAIN page : \E layout \in Layouts(page[n]), width \in SavedWidths \cup {page[n].width} :
             \E changed \in Changes(page[n].elements) : \E order \in Orders(changed) :
               SaveBlock(n, [layout |-> layout, width |-> width,
                             elements |-> Seated(changed, layout, order)])
  BY <1>3
<1>4. CASE \E n, m \in DOMAIN page :
             \/ ArrangeBlocks([AsItIs EXCEPT ![n] = m, ![m] = n], HiddenNow, WidthsNow)
             \/ MoveBlockContent(n, m)
  BY <1>4
<1>5. CASE \E n \in DOMAIN page :
             \/ RemoveBlock(n)
             \/ \E hidden \in SUBSET {n}, width \in SavedWidths :
                  ArrangeBlocks(AsItIs, hidden \cup (HiddenNow \ {n}), [WidthsNow EXCEPT ![n] = width])
  BY <1>5
<1> QED
  BY <1>1, <1>2, <1>3, <1>4, <1>5 DEF Edit

Swap(order, n, m) == order = [AsItIs EXCEPT ![n] = m, ![m] = n]

LEMMA SwapOrders ==
    ASSUME page \in Seq(Block), NEW n \in DOMAIN page, NEW m \in DOMAIN page,
           NEW order, Swap(order, n, m)
    PROVE  /\ order \in [DOMAIN page -> DOMAIN page]
           /\ \A i, j \in DOMAIN page : i # j => order[i] # order[j]
           /\ \A x \in DOMAIN page : \E i \in DOMAIN page : order[i] = x
<1>1. order \in [DOMAIN page -> DOMAIN page] /\ order[m] = n /\ order[n] = m
      /\ \A i \in DOMAIN page : i # n /\ i # m => order[i] = i
  BY DEF AsItIs, Swap
<1>2. \A i, j \in DOMAIN page : i # j => order[i] # order[j]
  BY <1>1
<1>3. \A x \in DOMAIN page : \E i \in DOMAIN page : order[i] = x
  BY <1>1
<1> QED
  BY <1>1, <1>2, <1>3

LEMMA SameOrder ==
    /\ AsItIs \in [DOMAIN page -> DOMAIN page]
    /\ \A i, j \in DOMAIN page : i # j => AsItIs[i] # AsItIs[j]
    /\ \A x \in DOMAIN page : \E i \in DOMAIN page : AsItIs[i] = x
BY DEF AsItIs

LEMMA EditKeepsSound ==
    ASSUME PageInv, Edit
    PROVE  Sound(kind, page', edits + 1)
<1>0. /\ kind \in Kinds /\ edits \in Nat /\ Sound(kind, page, edits) /\ page \in Seq(Block)
      /\ \A t \in Sources(kind) : t \in Seq(Tag)
  BY Typing DEF PageInv
<1>1. CASE \E tagged \in Sources(kind) : Replace(tagged)
  <2>1. PICK tagged \in Sources(kind) : Replace(tagged)
    BY <1>1
  <2>2. Placeable(kind, tagged) /\ page' = Place(kind, tagged, edits + 1)
    BY <2>1 DEF Replace, Saves
  <2>3. edits + 1 \in Nat /\ tagged \in Seq(Tag)
    BY <1>0
  <2>4. Placed(kind, page', edits + 1)
    BY <1>0, <2>2, <2>3, PlaceRows
  <2> QED
    BY <1>0, <2>3, <2>4, PlacedSound
<1>2. CASE \E id, start : AddBlock(id, start)
  BY <1>0, <1>2, AddKeeps
<1>3. CASE \E n \in DOMAIN page : \E layout, width, order : \E changed \in Changes(page[n].elements) :
             SaveBlock(n, [layout |-> layout, width |-> width,
                           elements |-> Seated(changed, layout, order)])
  BY <1>0, <1>3, SaveKeeps
<1>4. CASE \E n, m \in DOMAIN page : ArrangeBlocks([AsItIs EXCEPT ![n] = m, ![m] = n], HiddenNow, WidthsNow)
  <2>1. PICK n, m \in DOMAIN page : ArrangeBlocks([AsItIs EXCEPT ![n] = m, ![m] = n], HiddenNow, WidthsNow)
    BY <1>4
  <2>2. PICK order : order = [AsItIs EXCEPT ![n] = m, ![m] = n]
    OBVIOUS
  <2>3. /\ order \in [DOMAIN page -> DOMAIN page]
        /\ \A i, j \in DOMAIN page : i # j => order[i] # order[j]
    <3>1. Swap(order, n, m)
      BY <2>2 DEF Swap
    <3> QED
      BY <1>0, <3>1, SwapOrders
  <2>4. HiddenNow \subseteq DOMAIN page
    BY DEF HiddenNow
  <2>5. ArrangeBlocks(order, HiddenNow, WidthsNow)
    BY <2>1, <2>2
  <2> QED
    BY <1>0, <2>3, <2>4, <2>5, ArrangeKeeps
<1>5. CASE \E n, m : MoveBlockContent(n, m)
  BY <1>0, <1>5, MoveKeeps
<1>6. CASE \E n \in DOMAIN page : RemoveBlock(n)
  BY <1>0, <1>6, RemoveKeeps
<1>7. CASE \E n \in DOMAIN page : \E hidden \in SUBSET {n} : \E widths :
             ArrangeBlocks(AsItIs, hidden \cup (HiddenNow \ {n}), widths)
  <2>1. PICK n \in DOMAIN page : \E hidden \in SUBSET {n} : \E widths :
             ArrangeBlocks(AsItIs, hidden \cup (HiddenNow \ {n}), widths)
    BY <1>7
  <2>2. PICK hidden \in SUBSET {n} : \E widths : ArrangeBlocks(AsItIs, hidden \cup (HiddenNow \ {n}), widths)
    BY <2>1
  <2>3. PICK hid : hid = hidden \cup (HiddenNow \ {n})
    OBVIOUS
  <2>4. PICK widths : ArrangeBlocks(AsItIs, hid, widths)
    BY <2>2, <2>3
  <2>5. hid \subseteq DOMAIN page
    BY <2>3 DEF HiddenNow
  <2> QED
    BY <1>0, <2>4, <2>5, SameOrder, ArrangeKeeps
<1> QED
  BY <1>1, <1>2, <1>3, <1>4, <1>5, <1>6, <1>7, Edits

LEMMA EditCounts ==
    ASSUME PageInv, Edit
    PROVE  edits < MaxEdits /\ edits' = edits + 1 /\ kind' = kind
<1>1. \A after : Saves(after) => edits < MaxEdits /\ edits' = edits + 1 /\ kind' = kind
  BY DEF Saves
<1>2. /\ \A tagged : Replace(tagged) => \E after : Saves(after)
      /\ \A id, start : AddBlock(id, start) => \E after : Saves(after)
      /\ \A n, update : SaveBlock(n, update) => \E after : Saves(after)
  BY DEF Replace, AddBlock, SaveBlock
<1>3. /\ \A order, hidden, widths : ArrangeBlocks(order, hidden, widths) => \E after : Saves(after)
      /\ \A n : RemoveBlock(n) => \E after : Saves(after)
      /\ \A n, m : MoveBlockContent(n, m) => \E after : Saves(after)
  BY DEF ArrangeBlocks, RemoveBlock, MoveBlockContent
<1>4. \E after : Saves(after)
  BY <1>2, <1>3, Edits
<1> QED
  BY <1>1, <1>4

LEMMA InvNext == PageInv /\ [Next]_vars => PageInv'
<1> SUFFICES ASSUME PageInv, [Next]_vars PROVE PageInv'
  OBVIOUS
<1>1. CASE Edit
  <2>1. edits < MaxEdits /\ edits' = edits + 1 /\ kind' = kind
    BY <1>1, EditCounts
  <2>2. Sound(kind', page', edits')
    BY <1>1, <2>1, EditKeepsSound
  <2>3. edits' \in 0 .. MaxEdits /\ kind' \in PageKinds
    BY <2>1, Typing DEF PageInv
  <2> QED
    BY <2>2, <2>3 DEF PageInv
<1>2. CASE UNCHANGED vars
  BY <1>2 DEF vars, PageInv
<1> QED
  BY <1>1, <1>2 DEF Next, RemovalRefused

(* Whatever files are placed and however a page is edited (insertBlocks,      *)
(* SaveBlock, AddBlock, ArrangeBlocks, RemoveBlock, MoveBlockContent), the     *)
(* page is sound and no id on it is a later edit's or twice there.            *)
THEOREM PageInvHolds == Spec => []PageInv
BY InvInit, InvNext, PTL DEF Spec

(* A sound page is what PageSound says of it. *)
LEMMA InvSound == PageInv => PageSound
<1> SUFFICES ASSUME PageInv PROVE PageSound
  OBVIOUS
<1>1. kind \in Kinds /\ edits \in 0 .. MaxEdits /\ Sound(kind, page, edits)
  BY Typing DEF PageInv
<1>2. PageIsEditable
  BY <1>1 DEF Sound, Structured, PageIsEditable
<1>3. RequiredStays
  BY <1>1 DEF Sound, Requires, RequiredOn, RequiredStays
<1>4. \A i \in DOMAIN page : InCatalog(kind, page[i].definition)
  BY <1>1, Rules DEF Sound, BlockRules, BlockRule
<1> QED
  BY <1>1, <1>2, <1>3, <1>4 DEF PageSound, TypeOK, Sound

(* For every kind, every file and any number of edits the page keeps the    *)
(* rules of ValidateStructure and ValidateBuilderConstraints as a whole and *)
(* each required block with its pinned elements, although no operation       *)
(* checks all of that.                                                     *)
THEOREM PageStaysSound == Spec => []PageSound
BY PageInvHolds, InvSound, PTL

-----------------------------------------------------------------------------
(* Two pages that differ in what their elements hold. *)
AlikeElements(s, t) ==
    /\ DOMAIN t = DOMAIN s
    /\ \A j \in DOMAIN s : t[j].id = s[j].id /\ t[j].role = s[j].role /\ t[j].type = s[j].type
Alike(p, q) ==
    /\ DOMAIN q = DOMAIN p
    /\ \A a \in DOMAIN p :
         /\ q[a].id = p[a].id /\ q[a].definition = p[a].definition
         /\ q[a].layout = p[a].layout /\ q[a].width = p[a].width
         /\ AlikeElements(p[a].elements, q[a].elements)

LEMMA AlikeRules ==
    ASSUME NEW k, NEW p, NEW q, ValidateBuilderConstraints(k, p, p), Alike(p, q)
    PROVE  ValidateBuilderConstraints(k, p, q)
<1>1. BlockRules(k, p) /\ SeatRules(p) /\ AllTagged(p)
  BY Rules
<1>2. BlockRules(k, q)
  BY <1>1 DEF BlockRules, BlockRule, Alike
<1>3. \A s \in Seats(q) : s \in Seats(p) /\ At(q, s).id = At(p, s).id /\ At(q, s).role = At(p, s).role
  <2> SUFFICES ASSUME NEW s \in Seats(q)
               PROVE  s \in Seats(p) /\ At(q, s).id = At(p, s).id /\ At(q, s).role = At(p, s).role
    OBVIOUS
  <2>1. PICK a \in DOMAIN q : s \in {<<a, j>> : j \in DOMAIN q[a].elements}
    BY DEF Seats
  <2>2. PICK j \in DOMAIN q[a].elements : s = <<a, j>>
    BY <2>1
  <2>3. a \in DOMAIN p /\ AlikeElements(p[a].elements, q[a].elements)
    BY DEF Alike
  <2>4. j \in DOMAIN p[a].elements
    BY <2>3 DEF AlikeElements
  <2>5. s \in {<<a, x>> : x \in DOMAIN p[a].elements}
    BY <2>2, <2>4
  <2>6. s \in Seats(p)
    BY <2>3, <2>5 DEF Seats
  <2>7. s[1] = a /\ s[2] = j
    BY <2>2
  <2>8. At(q, s) = q[a].elements[j] /\ At(p, s) = p[a].elements[j]
    BY <2>7 DEF At
  <2> QED
    BY <2>3, <2>4, <2>6, <2>8 DEF AlikeElements
<1>4. SeatRules(q)
  BY <1>1, <1>3 DEF SeatRules, Apart
<1>5. ASSUME NEW e \in Elements(q)
      PROVE  \E f \in Elements(p) : f.id = e.id /\ f.role = e.role /\ f.type = e.type
  <2>1. PICK a \in DOMAIN p : e \in Images(q[a].elements) /\ AlikeElements(p[a].elements, q[a].elements)
    BY DEF Elements, Alike
  <2>2. PICK j \in DOMAIN p[a].elements : e = q[a].elements[j]
    BY <2>1 DEF Images, AlikeElements
  <2>3. p[a].elements[j] \in Elements(p)
    BY DEF Elements, Images
  <2> QED
    BY <2>1, <2>2, <2>3 DEF AlikeElements
<1>6. Known(p, q) /\ AllTagged(q)
  BY <1>1, <1>5 DEF Known, AllTagged, Tagged
<1>7. PinsKept(k, p, q)
  <2> SUFFICES ASSUME NEW a \in DOMAIN p, NEW e \in Images(p[a].elements)
               PROVE  PinnedElementPresent(q, p[a], e)
    BY DEF PinsKept
  <2>1. PICK j \in DOMAIN p[a].elements : e = p[a].elements[j]
    BY DEF Images
  <2>2. a \in DOMAIN q /\ q[a].id = p[a].id /\ AlikeElements(p[a].elements, q[a].elements)
    BY DEF Alike
  <2>3. q[a].elements[j] \in Images(q[a].elements)
    BY <2>2 DEF Images, AlikeElements
  <2> QED
    BY <2>1, <2>2, <2>3 DEF PinnedElementPresent, AlikeElements
<1> QED
  BY <1>2, <1>4, <1>6, <1>7, Rules

-----------------------------------------------------------------------------
(* Filling one element. *)
LEMMA FilledElement ==
    ASSUME NEW e \in Element
    PROVE  LET x == [e EXCEPT !.items = 1]
           IN /\ x.id = e.id /\ x.role = e.role /\ x.type = e.type /\ x.slot = e.slot
              /\ x.option = e.option /\ x.items = 1
BY DEF Element

LEMMA FilledStructure ==
    ASSUME NEW b, NEW c, ValidateStructure(b), b.elements \in Seq(Element), c.layout = b.layout,
           NEW i \in DOMAIN b.elements, NEW x,
           c.elements = [b.elements EXCEPT ![i] = x],
           x.id = b.elements[i].id, x.type = b.elements[i].type, x.slot = b.elements[i].slot,
           x.option = b.elements[i].option, x.items = 1
    PROVE  ValidateStructure(c)
<1>1. PICK s \in Seq(Element) : s = b.elements
  OBVIOUS
<1>2. PICK t : t = c.elements
  OBVIOUS
<1>3. DOMAIN t = DOMAIN s /\ t[i] = x /\ \A j \in DOMAIN s : j # i => t[j] = s[j]
  BY <1>1, <1>2
<1>4. \A j \in DOMAIN s : /\ t[j].id = s[j].id /\ t[j].type = s[j].type /\ t[j].slot = s[j].slot
                          /\ t[j].option = s[j].option
  BY <1>1, <1>3
<1>5. ValidateContentLimits(t)
  <2>1. 1 <= MaxCollectionItems
    BY LimitAssumption
  <2> QED
    BY <1>1, <1>3, <2>1 DEF ValidateStructure, ValidateContentLimits
<1>6. Len(t) = Len(s)
  BY <1>1, <1>2
<1>7. \A y, j \in DOMAIN t : y # j => t[y].id # t[j].id /\ t[y].slot # t[j].slot
  BY <1>1, <1>3, <1>4 DEF ValidateStructure
<1>8. \A j \in DOMAIN t : /\ t[j].type \in Types /\ t[j].option \in OptionsOf(t[j].type)
                          /\ t[j].slot \in Images(Slots(c.layout))
  BY <1>1, <1>3, <1>4 DEF ValidateStructure
<1>9. Slots(c.layout) # <<>> /\ Len(t) <= Len(Slots(c.layout))
  BY <1>1, <1>6 DEF ValidateStructure
<1> QED
  BY <1>2, <1>5, <1>7, <1>8, <1>9 DEF ValidateStructure

Filled(q, p, n, i) == q = [p EXCEPT ![n].elements[i].items = 1]

LEMMA FilledPage ==
    ASSUME NEW p \in Seq(Block), NEW n \in DOMAIN p, NEW i \in DOMAIN p[n].elements,
           NEW q, Filled(q, p, n, i), ValidateStructure(p[n])
    PROVE  /\ Alike(p, q) /\ ValidateStructure(q[n]) /\ i \in DOMAIN q[n].elements
           /\ q[n].elements[i].items = 1 /\ q[n].elements[i].role = p[n].elements[i].role
<1>1. p[n] \in Block /\ p[n].elements \in Seq(Element)
  BY BlockTypes
<1>2. PICK s \in Seq(Element) : s = p[n].elements
  BY <1>1
<1>3. s[i] \in Element
  BY <1>2
<1>4. PICK x : x = [s[i] EXCEPT !.items = 1]
  OBVIOUS
<1>5. /\ x.id = s[i].id /\ x.role = s[i].role /\ x.type = s[i].type /\ x.slot = s[i].slot
      /\ x.option = s[i].option /\ x.items = 1
  BY <1>3, <1>4, FilledElement
<1>6. PICK t : t = [s EXCEPT ![i] = x]
  OBVIOUS
<1>7. PICK b : b = [p[n] EXCEPT !.elements = t]
  OBVIOUS
<1>8. q = [p EXCEPT ![n] = b]
  BY <1>2, <1>4, <1>6, <1>7 DEF Filled
<1>9. Refilled(b, p[n], t)
  BY <1>7 DEF Refilled
<1>10. /\ b.layout = p[n].layout /\ b.width = p[n].width /\ b.elements = t /\ b.id = p[n].id
       /\ b.definition = p[n].definition
  BY <1>1, <1>9, RefilledFields
<1>11. DOMAIN t = DOMAIN s /\ t[i] = x /\ \A j \in DOMAIN s : j # i => t[j] = s[j]
  BY <1>2, <1>6
<1>12. AlikeElements(s, t)
  BY <1>5, <1>11 DEF AlikeElements
<1>13. DOMAIN q = DOMAIN p /\ q[n] = b /\ \A a \in DOMAIN p : a # n => q[a] = p[a]
  BY <1>8
<1>14. Alike(p, q)
  <2>1. ASSUME NEW a \in DOMAIN p
        PROVE  /\ q[a].id = p[a].id /\ q[a].definition = p[a].definition
               /\ q[a].layout = p[a].layout /\ q[a].width = p[a].width
               /\ AlikeElements(p[a].elements, q[a].elements)
    <3>1. CASE a = n
      BY <1>2, <1>10, <1>12, <1>13, <3>1
    <3>2. CASE a # n
      BY <1>13, <3>2 DEF AlikeElements
    <3> QED
      BY <3>1, <3>2
  <2> QED
    BY <1>13, <2>1 DEF Alike
<1>15. ValidateStructure(b)
  BY <1>1, <1>2, <1>5, <1>6, <1>10, FilledStructure
<1>16. i \in DOMAIN t /\ t[i].items = 1 /\ t[i].role = s[i].role
  BY <1>2, <1>5, <1>11
<1> QED
  BY <1>2, <1>10, <1>13, <1>14, <1>15, <1>16

LEMMA InvFloor == PageInv => FloorCanBeMet
<1> SUFFICES ASSUME PageInv, NEW r \in UnmetOn(page)
             PROVE  \E n \in DOMAIN page, i \in 1 .. 3 :
                      /\ i \in DOMAIN page[n].elements /\ page[n].elements[i].role = r
                      /\ LET filled == [page EXCEPT ![n].elements[i].items = 1]
                         IN /\ ValidateStructure(filled[n])
                            /\ ValidateBuilderConstraints(kind, page, filled)
                            /\ r \notin UnmetOn(filled)
  BY DEF FloorCanBeMet
<1>1. /\ kind \in Kinds /\ page \in Seq(Block) /\ Structured(page)
      /\ ValidateBuilderConstraints(kind, page, page) /\ Requires(kind, page)
  BY Typing DEF PageInv, Sound
<1>2. r \in ContentFloors(kind)
  BY DEF UnmetOn
<1>3. PICK d \in Images(Catalog(kind)) : Pins(d, r)
  BY <1>1, <1>2, FloorsPinned
<1>4. PICK e \in Images(d.elements) : e.pinned /\ e.role = r
  BY <1>3 DEF Pins
<1>5. RequiredOn(kind, page, d)
  BY <1>1, <1>3 DEF Requires, Pins
<1>6. PICK n \in DOMAIN page : \E c \in Images(page[n].elements) : c.role = r
  BY <1>4, <1>5 DEF RequiredOn
<1>7. PICK i \in DOMAIN page[n].elements : page[n].elements[i].role = r
  BY <1>6 DEF Images
<1>8. ValidateStructure(page[n]) /\ page[n].elements \in Seq(Element)
  BY <1>1, BlockTypes DEF Structured
<1>9. i \in 1 .. 3
  <2>1. Len(page[n].elements) <= Len(Slots(page[n].layout)) /\ Len(Slots(page[n].layout)) \in 0 .. 3
    BY <1>8, SlotsCounted DEF ValidateStructure
  <2>2. i \in 1 .. Len(page[n].elements) /\ Len(page[n].elements) \in Nat
    BY <1>8
  <2>3. PICK a, b : a = Len(page[n].elements) /\ b = Len(Slots(page[n].layout))
    OBVIOUS
  <2>4. a \in Nat /\ b \in 0 .. 3 /\ a <= b /\ i \in 1 .. a
    BY <2>1, <2>2, <2>3
  <2> QED
    BY <2>4
<1>10. PICK q : q = [page EXCEPT ![n].elements[i].items = 1]
  OBVIOUS
<1>11. /\ Alike(page, q) /\ ValidateStructure(q[n]) /\ i \in DOMAIN q[n].elements
       /\ q[n].elements[i].items = 1 /\ q[n].elements[i].role = r
  <2>1. Filled(q, page, n, i)
    BY <1>10 DEF Filled
  <2> QED
    BY <1>1, <1>7, <1>8, <2>1, FilledPage
<1>12. ValidateBuilderConstraints(kind, page, q)
  BY <1>1, <1>11, AlikeRules
<1>13. r \notin UnmetOn(q)
  <2>1. q[n].elements[i] \in Elements(q)
    BY <1>11 DEF Elements, Images, Alike
  <2> QED
    BY <1>11, <2>1 DEF UnmetOn
<1> QED
  BY <1>7, <1>9, <1>10, <1>11, <1>12, <1>13

(* A role ContentFloor asks for always has its element on the page, and one *)
(* save that fills it is accepted and meets the floor.                      *)
THEOREM FloorIsMet == Spec => []FloorCanBeMet
BY PageInvHolds, InvFloor, PTL

-----------------------------------------------------------------------------
(* What a page holds is what its blocks hold. *)
OwnBodies(b) == {Body(e) : e \in Images(b.elements)}

LEMMA PageBodies ==
    ASSUME NEW p, NEW x
    PROVE  x \in Bodies(p) <=> \E i \in DOMAIN p : x \in OwnBodies(p[i])
BY DEF Bodies, OwnBodies, Elements

WholeBlocks ==
    Ids(page') \subseteq Ids(page) => \A n \in DOMAIN page :
        (\A i \in DOMAIN page' : page'[i].id # page[n].id) =>
            LET own == {Body(e) : e \in Images(page[n].elements)}
            IN Bodies(page') \in {Bodies(page), Bodies(page) \ own}

(* An edit that keeps every block's id. *)
LEMMA Lasting ==
    ASSUME \A n \in DOMAIN page : \E i \in DOMAIN page' : page'[i].id = page[n].id
    PROVE  WholeBlocks
BY DEF WholeBlocks

LEMMA RemoveWhole ==
    ASSUME PageInv, NEW n \in DOMAIN page, RemoveBlock(n)
    PROVE  WholeBlocks
<1>1. PICK q : q = page'
  OBVIOUS
<1>2. q = Dropping(page, n)
  BY <1>1 DEF RemoveBlock, Saves, Without
<1>3. page \in Seq(Block) /\ SeatRules(page)
  BY Typing, Rules DEF PageInv, Sound
<1>4. Fewer(q, page, n)
  BY <1>2, <1>3, WithoutBlock
<1>5. PICK at \in [DOMAIN q -> DOMAIN page \ {n}] :
         /\ \A i \in DOMAIN q : q[i] = page[at[i]]
         /\ \A x \in DOMAIN page \ {n} : \E i \in DOMAIN q : at[i] = x
  BY <1>4 DEF Fewer
<1>6. ASSUME NEW a \in DOMAIN page, a # n, NEW x \in OwnBodies(page[a]) PROVE x \notin OwnBodies(page[n])
  <2> SUFFICES ASSUME x \in OwnBodies(page[n]) PROVE FALSE
    OBVIOUS
  <2>1. PICK e \in Images(page[a].elements) : x = Body(e)
    BY <1>6 DEF OwnBodies
  <2>2. PICK f \in Images(page[n].elements) : x = Body(f)
    BY DEF OwnBodies
  <2>3. e.id = f.id
    BY <2>1, <2>2 DEF Body
  <2>4. PICK i \in DOMAIN page[a].elements : e = page[a].elements[i]
    BY DEF Images
  <2>5. PICK j \in DOMAIN page[n].elements : f = page[n].elements[j]
    BY DEF Images
  <2>6. PICK s, t : s = <<a, i>> /\ t = <<n, j>>
    OBVIOUS
  <2>7. s \in Seats(page) /\ t \in Seats(page)
    <3>1. s \in {<<a, y>> : y \in DOMAIN page[a].elements} /\ t \in {<<n, y>> : y \in DOMAIN page[n].elements}
      BY <2>6
    <3> QED
      BY <3>1 DEF Seats
  <2>8. s[1] = a /\ s[2] = i /\ t[1] = n /\ t[2] = j
    BY <2>6
  <2>9. s # t /\ At(page, s) = e /\ At(page, t) = f
    BY <1>6, <2>4, <2>5, <2>8 DEF At
  <2> QED
    BY <1>3, <2>3, <2>7, <2>9 DEF SeatRules, Apart
<1>7. \A x : x \in Bodies(q) <=> x \in Bodies(page) \ OwnBodies(page[n])
  <2> SUFFICES ASSUME NEW x PROVE x \in Bodies(q) <=> x \in Bodies(page) /\ x \notin OwnBodies(page[n])
    OBVIOUS
  <2>1. ASSUME x \in Bodies(q) PROVE x \in Bodies(page) /\ x \notin OwnBodies(page[n])
    <3>1. PICK i \in DOMAIN q : x \in OwnBodies(q[i])
      BY <2>1, PageBodies
    <3>2. PICK a \in DOMAIN page : a # n /\ x \in OwnBodies(page[a])
      BY <1>5, <3>1
    <3> QED
      BY <1>6, <3>2, PageBodies
  <2>2. ASSUME x \in Bodies(page), x \notin OwnBodies(page[n]) PROVE x \in Bodies(q)
    <3>1. PICK a \in DOMAIN page : x \in OwnBodies(page[a])
      BY <2>2, PageBodies
    <3>2. a \in DOMAIN page \ {n}
      BY <2>2, <3>1
    <3>3. PICK i \in DOMAIN q : q[i] = page[a]
      BY <1>5, <3>2
    <3> QED
      BY <3>1, <3>3, PageBodies
  <2> QED
    BY <2>1, <2>2
<1>8. Bodies(q) = Bodies(page) \ OwnBodies(page[n])
  BY <1>7
<1>9. ASSUME NEW x \in DOMAIN page, \A i \in DOMAIN q : q[i].id # page[x].id PROVE x = n
  BY <1>5, <1>9
<1> QED
  BY <1>1, <1>8, <1>9 DEF WholeBlocks, OwnBodies

(* Content that is moved is all there. *)
LEMMA MovedBodies ==
    ASSUME NEW from, NEW to, from.elements \in Seq(Element), to.elements \in Seq(Element),
           NEW b, b.elements = Moved(from, to), NEW x
    PROVE  x \in OwnBodies(b) <=> x \in OwnBodies(from) \/ x \in OwnBodies(to)
<1>1. PICK free : free = FreeSlots(to)
  OBVIOUS
<1>2. PICK seat : seat = [i \in DOMAIN from.elements |-> IF i \in DOMAIN free THEN free[i] ELSE "none"]
  OBVIOUS
<1>3. PICK f : f = from.elements /\ f \in Seq(Element)
  OBVIOUS
<1>4. PICK t : t = to.elements /\ t \in Seq(Element)
  OBVIOUS
<1>5. PICK u : u = [i \in DOMAIN f |-> [f[i] EXCEPT !.slot = seat[i]]]
  OBVIOUS
<1>6. b.elements = t \o u
  BY <1>1, <1>2, <1>3, <1>4, <1>5 DEF Moved
<1>7. DOMAIN u = DOMAIN f /\ \A i \in DOMAIN f : Body(u[i]) = Body(f[i])
  <2>1. \A e \in Element : \A s : Body([e EXCEPT !.slot = s]) = Body(e)
    BY DEF Body, Element
  <2>2. \A i \in DOMAIN f : f[i] \in Element /\ u[i] = [f[i] EXCEPT !.slot = seat[i]]
    BY <1>3, <1>5
  <2> QED
    BY <1>5, <2>1, <2>2
<1>8. Len(f) \in Nat /\ Len(t) \in Nat /\ DOMAIN f = 1 .. Len(f) /\ DOMAIN t = 1 .. Len(t)
  BY <1>3, <1>4
<1>9. u = [i \in 1 .. Len(f) |-> u[i]]
  BY <1>5, <1>8
<1>10. u \in Seq(Images(u)) /\ Len(u) = Len(f)
  BY <1>8, <1>9, ListedLen
<1>11. t \in Seq(Element \cup Images(u)) /\ u \in Seq(Element \cup Images(u))
  BY <1>4, <1>10, SeqMonotonic
<1>12. PICK v : v = t \o u
  OBVIOUS
<1>13. /\ DOMAIN v = 1 .. Len(t) + Len(u)
       /\ \A i \in 1 .. Len(t) + Len(u) : v[i] = IF i <= Len(t) THEN t[i] ELSE u[i - Len(t)]
  BY <1>11, <1>12
<1>14. \A y : y \in Images(v) <=> y \in Images(t) \/ y \in Images(u)
  <2>1. \A y \in Images(v) : y \in Images(t) \/ y \in Images(u)
    <3> SUFFICES ASSUME NEW i \in DOMAIN v PROVE v[i] \in Images(t) \/ v[i] \in Images(u)
      BY DEF Images
    <3>1. CASE i <= Len(t)
      <4>1. i \in DOMAIN t /\ v[i] = t[i]
        BY <1>8, <1>10, <1>13, <3>1
      <4> QED
        BY <4>1 DEF Images
    <3>2. CASE ~(i <= Len(t))
      <4>1. i - Len(t) \in DOMAIN u /\ v[i] = u[i - Len(t)]
        BY <1>7, <1>8, <1>10, <1>13, <3>2
      <4> QED
        BY <4>1 DEF Images
    <3> QED
      BY <3>1, <3>2
  <2>2. \A i \in DOMAIN t : i \in DOMAIN v /\ v[i] = t[i]
    BY <1>8, <1>10, <1>13
  <2>3. \A i \in DOMAIN u : i + Len(t) \in DOMAIN v /\ v[i + Len(t)] = u[i]
    BY <1>7, <1>8, <1>10, <1>13
  <2> QED
    BY <2>1, <2>2, <2>3 DEF Images
<1>15. x \in OwnBodies(b) <=> \E e \in Images(t) \cup Images(u) : x = Body(e)
  BY <1>6, <1>12, <1>14 DEF OwnBodies
<1>16. (\E e \in Images(u) : x = Body(e)) <=> \E e \in Images(f) : x = Body(e)
  BY <1>7 DEF Images
<1> QED
  BY <1>3, <1>4, <1>15, <1>16 DEF OwnBodies

LEMMA MoveWhole ==
    ASSUME PageInv, NEW n, NEW m, MoveBlockContent(n, m)
    PROVE  WholeBlocks
<1>1. kind \in Kinds /\ edits \in Nat /\ Sound(kind, page, edits) /\ page \in Seq(Block)
  BY Typing DEF PageInv
<1>2. PICK to : /\ n \in DOMAIN page /\ m \in DOMAIN page \ {n}
                /\ Refilled(to, page[m], Moved(page[n], page[m]))
                /\ MovedPage(page', page, n, m, to)
  BY <1>1, MoveSteps
<1>3. PICK q : q = page'
  OBVIOUS
<1>4. PICK at \in [DOMAIN q -> DOMAIN page \ {n}] :
        /\ \A i \in DOMAIN q : q[i] = IF at[i] = m THEN to ELSE page[at[i]]
        /\ \A x \in DOMAIN page \ {n} : \E i \in DOMAIN q : at[i] = x
  BY <1>2, <1>3 DEF MovedPage
<1>5. page[m] \in Block /\ page[n].elements \in Seq(Element) /\ page[m].elements \in Seq(Element)
  BY <1>1, <1>2, BlockTypes
<1>6. to.elements = Moved(page[n], page[m]) /\ to.id = page[m].id
  BY <1>2, <1>5, RefilledFields
<1>7. \A x : x \in OwnBodies(to) <=> x \in OwnBodies(page[n]) \/ x \in OwnBodies(page[m])
  BY <1>5, <1>6, MovedBodies
<1>8. \A x : x \in Bodies(q) <=> x \in Bodies(page)
  <2> SUFFICES ASSUME NEW x PROVE x \in Bodies(q) <=> x \in Bodies(page)
    OBVIOUS
  <2>1. ASSUME x \in Bodies(q) PROVE x \in Bodies(page)
    <3>1. PICK i \in DOMAIN q : x \in OwnBodies(q[i])
      BY <2>1, PageBodies
    <3>2. \E a \in DOMAIN page : x \in OwnBodies(page[a])
      BY <1>2, <1>4, <1>7, <3>1
    <3> QED
      BY <3>2, PageBodies
  <2>2. ASSUME x \in Bodies(page) PROVE x \in Bodies(q)
    <3>1. PICK a \in DOMAIN page : x \in OwnBodies(page[a])
      BY <2>2, PageBodies
    <3>2. CASE a \in {n, m}
      <4>1. PICK i \in DOMAIN q : q[i] = to
        BY <1>2, <1>4
      <4> QED
        BY <1>7, <3>1, <3>2, <4>1, PageBodies
    <3>3. CASE a \notin {n, m}
      <4>1. PICK i \in DOMAIN q : q[i] = page[a]
        BY <1>4, <3>3
      <4> QED
        BY <3>1, <4>1, PageBodies
    <3> QED
      BY <3>2, <3>3
  <2> QED
    BY <2>1, <2>2
<1>9. Bodies(q) = Bodies(page)
  BY <1>8
<1> QED
  BY <1>3, <1>9 DEF WholeBlocks

(* A page placed afresh has nothing of the page before. *)
LEMMA ReplaceWhole ==
    ASSUME PageInv, NEW tagged \in Sources(kind), Replace(tagged)
    PROVE  WholeBlocks
<1>1. /\ kind \in Kinds /\ edits \in Nat /\ edits + 1 \in Nat /\ page \in Seq(Block) /\ tagged \in Seq(Tag)
      /\ MintedBy(page, edits)
  BY Typing DEF PageInv, Sound
<1>2. PICK q : q = page'
  OBVIOUS
<1>3. Placed(kind, q, edits + 1)
  BY <1>1, <1>2, PlaceRows DEF Replace, Saves
<1>4. PICK at : Rows(kind, q, edits + 1, at) /\ q \in Seq(Block)
  BY <1>3 DEF Placed
<1>5. Requires(kind, q)
  BY <1>1, <1>4, PlacedRequires
<1>6. PICK r \in ContentFloors(kind) : \E d \in Images(Catalog(kind)) : Pins(d, r)
  BY <1>1, FloorsPinned
<1>7. PICK d \in Images(Catalog(kind)) : Pins(d, r)
  BY <1>6
<1>8. RequiredOn(kind, q, d)
  BY <1>5, <1>7 DEF Requires, Pins
<1>9. PICK i \in DOMAIN q : \E c \in Images(q[i].elements) : c.role = r
  BY <1>7, <1>8 DEF RequiredOn, Pins
<1>10. PICK j : j \in DOMAIN q[i].elements
  BY <1>9 DEF Images
<1>11. q[i].elements[j].id[1] = edits + 1 /\ q[i].elements[j] \in Elements(q)
  BY <1>1, <1>4, <1>10, PlacedElement DEF Elements, Images
<1>12. ASSUME NEW f \in Elements(page) PROVE f.id # q[i].elements[j].id
  <2>1. f.id # <<>> /\ f.id[1] <= edits /\ f.id[1] \in Nat
    BY <1>1, ElementTypes DEF MintedBy
  <2> QED
    BY <1>1, <1>11, <2>1
<1>13. q[i].elements[j].id \in Ids(q) /\ q[i].elements[j].id \notin Ids(page)
  BY <1>11, <1>12 DEF Ids
<1> QED
  BY <1>2, <1>13 DEF WholeBlocks

LEMMA ArrangeLasts ==
    ASSUME page \in Seq(Block), NEW order \in [DOMAIN page -> DOMAIN page],
           \A x \in DOMAIN page : \E i \in DOMAIN page : order[i] = x,
           NEW hidden, NEW widths, ArrangeBlocks(order, hidden, widths)
    PROVE  WholeBlocks
<1>1. PICK q : q = page'
  OBVIOUS
<1>2. DOMAIN q = DOMAIN page
      /\ \A i \in DOMAIN page :
           q[i] = [page[order[i]] EXCEPT !.hidden = (order[i] \in hidden), !.width = widths[order[i]]]
  BY <1>1 DEF ArrangeBlocks, Saves, Arranged
<1>3. \A i \in DOMAIN page : Hung(q[i], page[order[i]], order[i], hidden, widths[order[i]])
  BY <1>2 DEF Hung
<1>4. \A i \in DOMAIN page : q[i].id = page[order[i]].id
  <2> SUFFICES ASSUME NEW i \in DOMAIN page PROVE q[i].id = page[order[i]].id
    OBVIOUS
  <2>1. PICK n \in DOMAIN page : n = order[i]
    OBVIOUS
  <2>2. page[n] \in Block /\ Hung(q[i], page[n], n, hidden, widths[n])
    BY <1>3, <2>1, BlockTypes
  <2> QED
    BY <2>1, <2>2, HungFields
<1>5. \A x \in DOMAIN page : \E i \in DOMAIN page' : page'[i].id = page[x].id
  <2>1. DOMAIN q = DOMAIN page
    BY <1>2
  <2> SUFFICES ASSUME NEW x \in DOMAIN page PROVE \E i \in DOMAIN q : q[i].id = page[x].id
    BY <1>1
  <2>2. PICK i \in DOMAIN page : order[i] = x
    OBVIOUS
  <2> QED
    BY <1>4, <2>1, <2>2
<1> QED
  BY <1>5, Lasting

LEMMA SaveLasts ==
    ASSUME page \in Seq(Block), NEW n, NEW update, SaveBlock(n, update)
    PROVE  WholeBlocks
<1>1. PICK b : b = [page[n] EXCEPT !.layout = update.layout, !.width = update.width,
                                   !.elements = update.elements]
  OBVIOUS
<1>2. page' = [page EXCEPT ![n] = b] /\ n \in DOMAIN page
  BY <1>1 DEF SaveBlock, Saves
<1>3. Rebuilt(b, page[n], update.layout, update.width, update.elements)
  BY <1>1 DEF Rebuilt
<1>4. b.id = page[n].id
  BY <1>2, <1>3, BlockTypes, RebuiltFields
<1>5. \A i \in DOMAIN page : i \in DOMAIN page' /\ page'[i].id = page[i].id
  BY <1>2, <1>4
<1> QED
  BY <1>5, Lasting

LEMMA AddLasts ==
    ASSUME page \in Seq(Block), NEW id, NEW start, AddBlock(id, start)
    PROVE  WholeBlocks
<1>1. PICK b : page' = Append(page, b)
  BY DEF AddBlock, Saves
<1>2. \A i \in DOMAIN page : i \in DOMAIN page' /\ page'[i] = page[i]
  <2>1. DOMAIN page = 1 .. Len(page) /\ Len(page) \in Nat /\ Len(page) + 1 \in Nat
    OBVIOUS
  <2>2. DOMAIN Append(page, b) = 1 .. Len(page) + 1 /\ \A i \in 1 .. Len(page) : Append(page, b)[i] = page[i]
    OBVIOUS
  <2> QED
    BY <1>1, <2>1, <2>2
<1> QED
  BY <1>2, Lasting

LEMMA StepWhole == PageInv /\ [Next]_vars => [WholeBlocks]_vars
<1> SUFFICES ASSUME PageInv, Edit PROVE WholeBlocks
  BY DEF Next, RemovalRefused
<1>0. page \in Seq(Block)
  BY Typing
<1>1. CASE \E tagged \in Sources(kind) : Replace(tagged)
  BY <1>1, ReplaceWhole
<1>2. CASE \E id, start : AddBlock(id, start)
  BY <1>0, <1>2, AddLasts
<1>3. CASE \E n \in DOMAIN page : \E layout, width, order : \E changed \in Changes(page[n].elements) :
             SaveBlock(n, [layout |-> layout, width |-> width,
                           elements |-> Seated(changed, layout, order)])
  BY <1>0, <1>3, SaveLasts
<1>4. CASE \E n, m \in DOMAIN page : ArrangeBlocks([AsItIs EXCEPT ![n] = m, ![m] = n], HiddenNow, WidthsNow)
  <2>1. PICK n, m \in DOMAIN page : ArrangeBlocks([AsItIs EXCEPT ![n] = m, ![m] = n], HiddenNow, WidthsNow)
    BY <1>4
  <2>2. PICK order : Swap(order, n, m) /\ ArrangeBlocks(order, HiddenNow, WidthsNow)
    BY <2>1 DEF Swap
  <2> QED
    BY <1>0, <2>2, SwapOrders, ArrangeLasts
<1>5. CASE \E n, m : MoveBlockContent(n, m)
  BY <1>5, MoveWhole
<1>6. CASE \E n \in DOMAIN page : RemoveBlock(n)
  BY <1>6, RemoveWhole
<1>7. CASE \E n \in DOMAIN page : \E hidden \in SUBSET {n} : \E widths :
             ArrangeBlocks(AsItIs, hidden \cup (HiddenNow \ {n}), widths)
  BY <1>0, <1>7, SameOrder, ArrangeLasts
<1> QED
  BY <1>1, <1>2, <1>3, <1>4, <1>5, <1>6, <1>7, Edits

(* A block that goes takes all its elements (RemoveBlock) or leaves all of  *)
(* them on another block (MoveBlockContent), and no other element is        *)
(* touched.                                                               *)
THEOREM BlocksGoWhole == Spec => AllOrNothing
<1>1. Spec => [][WholeBlocks]_vars
  BY PageInvHolds, StepWhole, PTL DEF Spec
<1> QED
  BY <1>1 DEF AllOrNothing, WholeBlocks

=============================================================================
