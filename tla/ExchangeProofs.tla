---------------------------- MODULE ExchangeProofs ----------------------------
(***************************************************************************)
(* What every reader makes of every file, and of every row of the old site:  *)
(* no sealed text on the page, and a place on it for each role.              *)
(***************************************************************************)
EXTENDS Exchange, FiniteSetTheorems, SequenceTheorems, WellFoundedInduction, TLAPS

-----------------------------------------------------------------------------
(* Lists *)

(* The places kept of a list, in their order, are those places. *)
LEMMA OrderedPlaces ==
    ASSUME NEW n \in Nat, NEW keep \in SUBSET (1 .. n)
    PROVE  /\ Cardinality(keep) \in Nat /\ DOMAIN Ordered(keep) = 1 .. Cardinality(keep)
           /\ \A m \in DOMAIN Ordered(keep) : Ordered(keep)[m] \in keep
<1> DEFINE Upto(i) == {k \in keep : k <= i}
           size == Cardinality(keep)
           rank == [i \in keep |-> Rank(i, keep)]
<1>0. \A i \in keep : i \in Nat
  OBVIOUS
<1>1. IsFiniteSet(keep) /\ size \in Nat
  <2>1. IsFiniteSet(1 .. n)
    BY FS_Interval
  <2>2. IsFiniteSet(keep)
    BY <2>1, FS_Subset
  <2> QED
    BY <2>2, FS_CardinalityType
<1>2. ASSUME NEW i \in keep
      PROVE  IsFiniteSet(Upto(i)) /\ Rank(i, keep) \in 1 .. size
  <2>1. Upto(i) \in SUBSET keep /\ i \in Upto(i) /\ Rank(i, keep) = Cardinality(Upto(i))
    BY DEF Rank
  <2>2. IsFiniteSet(Upto(i)) /\ Cardinality(Upto(i)) \in Nat /\ Cardinality(Upto(i)) <= size
    BY <1>1, <2>1, FS_Subset, FS_CardinalityType
  <2>3. Cardinality(Upto(i)) # 0
    BY <2>1, <2>2, FS_EmptySet
  <2> QED
    BY <1>1, <2>1, <2>2, <2>3
<1>3. ASSUME NEW i \in keep, NEW j \in keep, i < j
      PROVE  Rank(i, keep) # Rank(j, keep)
  <2>1. Upto(i) \in SUBSET Upto(j) /\ j \in Upto(j) /\ j \notin Upto(i)
    <3>1. \A k \in keep : k <= i => k <= j
      BY <1>0, <1>3
    <3>2. j <= j /\ ~(j <= i)
      BY <1>0, <1>3
    <3> QED
      BY <3>1, <3>2
  <2>2. Cardinality(Upto(i)) # Cardinality(Upto(j))
    BY <1>2, <2>1, FS_Subset
  <2> QED
    BY <2>2 DEF Rank
<1>4. rank \in Injection(keep, 1 .. size)
  <2>1. rank \in [keep -> 1 .. size]
    BY <1>2
  <2>2. \A i, j \in keep : rank[i] = rank[j] => i = j
    BY <1>0, <1>3
  <2> HIDE DEF rank
  <2> QED
    BY <2>1, <2>2 DEF Injection, IsInjective
<1>5. rank \in Surjection(keep, 1 .. size)
  <2>1. IsFiniteSet(1 .. size) /\ Cardinality(1 .. size) = size
    BY <1>1, FS_Interval
  <2> QED
    BY <1>1, <1>4, <2>1, FS_Injection
<1>6. \A m \in 1 .. size : \E i \in keep : Rank(i, keep) = m
  BY <1>5 DEF Surjection
<1> QED
  BY <1>1, <1>6 DEF Ordered

(* A set of places has a first one. *)
LEMMA LeastNat ==
    ASSUME NEW S \in SUBSET Nat, S # {}
    PROVE  First(S) \in S /\ \A m \in S : First(S) <= m
<1>1. PICK n \in S : \A m \in S : ~(<<m, n>> \in OpToRel(<, Nat))
  BY NatLessThanWellFounded, WFMin
<1>2. \A m \in S : ~(m < n)
  BY <1>1 DEF OpToRel
<1>3. \E j \in S : \A k \in S : j <= k
  BY <1>2
<1> QED
  BY <1>3 DEF First

(* What keys.Take gives of a list is a list. *)
Numbered(list) == \E n \in Nat : DOMAIN list = 1 .. n

(* A list a reader takes is numbered from one. *)
LEMMA ListsNumbered ==
    ASSUME NEW fields, NEW key
    PROVE  Numbered(ListOf(fields, key))
<1>1. CASE Takes(fields, key, "array")
  <2>1. PICK v : v = fields[key]
    OBVIOUS
  <2>2. Len(v) \in Nat \ {0} /\ v = [i \in 1 .. Len(v) |-> v[i]]
    BY <1>1, <2>1 DEF Takes, IsList
  <2>3. v \in Seq({v[i] : i \in 1 .. Len(v)})
    BY <2>2
  <2>4. DOMAIN Tail(v) = 1 .. (Len(v) - 1) /\ Len(v) - 1 \in Nat
    BY <2>2, <2>3
  <2>5. ListOf(fields, key) = Tail(v)
    BY <1>1, <2>1 DEF ListOf
  <2> QED
    BY <2>4, <2>5 DEF Numbered
<1>2. CASE ~Takes(fields, key, "array")
  BY <1>2 DEF ListOf, Numbered
<1> QED
  BY <1>1, <1>2

(* So is what is kept of it, *)
LEMMA KeptNumbered ==
    ASSUME NEW list, Numbered(list), NEW keep \in SUBSET DOMAIN list
    PROVE  Numbered(Kept(list, keep))
<1>1. PICK n \in Nat : DOMAIN list = 1 .. n
  BY DEF Numbered
<1>2. Cardinality(keep) \in Nat
  BY <1>1, OrderedPlaces
<1> QED
  BY <1>2 DEF Kept, Numbered

(* and the objects in it. *)
LEMMA ObjectsNumbered ==
    ASSUME NEW fields, NEW key
    PROVE  LET raw == Objects(ListOf(fields, key))
           IN  Numbered([i \in DOMAIN raw |-> FieldsOf(raw[i])])
<1>1. Numbered(Objects(ListOf(fields, key)))
  BY ListsNumbered, KeptNumbered DEF Objects
<1> QED
  BY <1>1 DEF Numbered

-----------------------------------------------------------------------------
(* Functions put together. *)

(* What is put first wins. *)
LEMMA Together ==
    ASSUME NEW f, NEW g
    PROVE  /\ DOMAIN (f @@ g) = DOMAIN f \cup DOMAIN g
           /\ \A x \in DOMAIN f : (f @@ g)[x] = f[x]
BY DEF @@

(* WriteIfSet writes no other key. *)
LEMMA SetKeys ==
    ASSUME NEW key, NEW set, NEW value
    PROVE  DOMAIN WriteIfSet(key, set, value) \subseteq {key}
BY DEF WriteIfSet, :>

-----------------------------------------------------------------------------
(* Lumiverse presets *)

(* The parts of what LumiverseModule.Parse returns. *)
LEMMA LumiverseRead ==
    ASSUME NEW opened, ParseLumiverse(opened) # Unreadable
    PROVE  LET a == ParseLumiverse(opened)
               blocks == Blocks(opened.root)
           IN  /\ a.kind = "preset" /\ a.origin = Lumiverse
               /\ a.content = LumiverseContent(opened.root, blocks)
               /\ a.protected = {SealedPrompt(ItemId(i), blocks[i]) : i \in SealedIn(blocks)}
BY DEF ParseLumiverse, Parsed

PresetRolesRead ==
    {"prompt_fragments", "prompt_variables", "sampler_settings", "prompt_nudges", "regex_scripts"}

(* It makes content for five roles at most, the prompts among them. *)
LEMMA LumiverseContents ==
    ASSUME NEW root, NEW blocks
    PROVE  LET content == LumiverseContent(root, blocks)
           IN  /\ DOMAIN content \subseteq PresetRolesRead /\ "prompt_fragments" \in DOMAIN content
               /\ content["prompt_fragments"] = ReadPrompts(blocks)
<1> DEFINE variables == AllVariables(root, blocks)
           settings == SettingsElement(FieldsAt(root, "samplerOverrides"), Lumiverse)
           nudges == NudgesElement(FieldsAt(root, "promptBehavior"), Lumiverse)
           scripts == ScriptsIn(root)
           a == [prompt_fragments |-> ReadPrompts(blocks)]
           b == WriteIfSet("prompt_variables", variables # <<>>, variables)
           c == WriteIfSet("sampler_settings", settings # <<>>, settings)
           d == WriteIfSet("prompt_nudges", nudges # <<>>, nudges)
           e == WriteIfSet("regex_scripts", scripts # <<>>, ReadScripts(Lumiverse, scripts))
<1>1. LumiverseContent(root, blocks) = a @@ b @@ c @@ d @@ e
  BY Zenon DEF LumiverseContent
<1>2. /\ DOMAIN b \subseteq {"prompt_variables"} /\ DOMAIN c \subseteq {"sampler_settings"}
      /\ DOMAIN d \subseteq {"prompt_nudges"} /\ DOMAIN e \subseteq {"regex_scripts"}
  BY SetKeys
<1>3. DOMAIN a = {"prompt_fragments"} /\ a["prompt_fragments"] = ReadPrompts(blocks)
  OBVIOUS
<1> HIDE DEF a, b, c, d, e
<1>4. PICK ab : ab = a @@ b
  OBVIOUS
<1>5. PICK abc : abc = ab @@ c
  OBVIOUS
<1>6. PICK abcd : abcd = abc @@ d
  OBVIOUS
<1>7. /\ DOMAIN ab \subseteq PresetRolesRead /\ "prompt_fragments" \in DOMAIN ab
      /\ ab["prompt_fragments"] = ReadPrompts(blocks)
  BY <1>2, <1>3, <1>4, Together, ZenonT(30) DEF PresetRolesRead
<1>8. /\ DOMAIN abc \subseteq PresetRolesRead /\ "prompt_fragments" \in DOMAIN abc
      /\ abc["prompt_fragments"] = ReadPrompts(blocks)
  BY <1>2, <1>5, <1>7, Together DEF PresetRolesRead
<1>9. /\ DOMAIN abcd \subseteq PresetRolesRead /\ "prompt_fragments" \in DOMAIN abcd
      /\ abcd["prompt_fragments"] = ReadPrompts(blocks)
  BY <1>2, <1>6, <1>8, Together DEF PresetRolesRead
<1>10. PICK whole : whole = abcd @@ e
  OBVIOUS
<1>11. /\ DOMAIN whole \subseteq PresetRolesRead /\ "prompt_fragments" \in DOMAIN whole
       /\ whole["prompt_fragments"] = ReadPrompts(blocks)
  BY <1>2, <1>9, <1>10, Together DEF PresetRolesRead
<1>12. LumiverseContent(root, blocks) = whole
  BY <1>1, <1>4, <1>5, <1>6, <1>10
<1> QED
  BY <1>11, <1>12

(* A sealed block becomes a protected fragment without text. *)
LEMMA FragmentFields ==
    ASSUME NEW blocks, NEW i
    PROVE  LET f == ReadFragment(blocks, i)
           IN  /\ f.id = ItemId(i) /\ f.protected = IsSealed(blocks[i])
               /\ IsSealed(blocks[i]) => f.text = NoText
BY DEF ReadFragment

(* Each fragment is one of the file's blocks. *)
LEMMA FragmentsRead ==
    ASSUME NEW blocks, Numbered(blocks), NEW f \in Range(ReadPrompts(blocks).fragments)
    PROVE  \E i \in PromptsIn(blocks) : f = ReadFragment(blocks, i)
<1>1. PICK n \in Nat : DOMAIN blocks = 1 .. n
  BY DEF Numbered
<1>2. PICK prompts : prompts = Ordered(PromptsIn(blocks))
  OBVIOUS
<1>3. \A m \in DOMAIN prompts : prompts[m] \in PromptsIn(blocks)
  BY <1>1, <1>2, OrderedPlaces DEF PromptsIn
<1>4. ReadPrompts(blocks).fragments = [m \in DOMAIN prompts |-> ReadFragment(blocks, prompts[m])]
  BY <1>2 DEF ReadPrompts
<1> QED
  BY <1>3, <1>4 DEF Range

FragmentKeys == {"id", "text", "role", "placement", "marker", "enabled", "group", "protected"}
PromptKeys == {"fragment", "key", "reuse", "text"}

(* The fields of a fragment, *)
LEMMA FragmentDomain ==
    ASSUME NEW blocks, NEW i
    PROVE  DOMAIN ReadFragment(blocks, i) = FragmentKeys
BY DEF ReadFragment, FragmentKeys

(* and of the sealed prompt beside it. *)
LEMMA SealedPromptFields ==
    ASSUME NEW id, NEW f
    PROVE  DOMAIN SealedPrompt(id, f) = PromptKeys /\ SealedPrompt(id, f).fragment = id
BY DEF SealedPrompt, PromptKeys

(* Items have ids of their own. *)
LEMMA ItemsApart ==
    ASSUME NEW i, NEW j, ItemId(i) = ItemId(j)
    PROVE  i = j
BY DEF ItemId

(* A preset's sealed prompts beside its fragments: one for each that is protected, which has *)
(* no text, and none for the others.                                                     *)
OnePromptEach(fragments, prompts) ==
    /\ \A f \in fragments : DOMAIN f = FragmentKeys
    /\ \A f, g \in fragments : f.id = g.id => f = g
    /\ \A p \in prompts : DOMAIN p = PromptKeys
    /\ \A f \in fragments : f.protected => f.text = NoText
    /\ \A f \in fragments : f.protected =>
           \E p \in prompts : {q \in prompts : q.fragment = f.id} = {p}
    /\ \A f \in fragments : ~f.protected => {q \in prompts : q.fragment = f.id} = {}

(* readLumiverseBlocks puts one sealed prompt beside each protected fragment. *)
LEMMA LumiverseApart ==
    ASSUME NEW blocks, Numbered(blocks)
    PROVE  OnePromptEach(Range(ReadPrompts(blocks).fragments),
                         {SealedPrompt(ItemId(i), blocks[i]) : i \in SealedIn(blocks)})
<1> DEFINE prompts == {SealedPrompt(ItemId(i), blocks[i]) : i \in SealedIn(blocks)}
<1>1. PICK fragments : fragments = Range(ReadPrompts(blocks).fragments)
  OBVIOUS
<1>2. \A f \in fragments : \E i \in PromptsIn(blocks) : f = ReadFragment(blocks, i)
  BY <1>1, FragmentsRead
<1>3. \A f \in fragments : DOMAIN f = FragmentKeys
  BY <1>2, FragmentDomain
<1>4. ASSUME NEW f \in fragments, NEW g \in fragments, f.id = g.id
      PROVE  f = g
  <2>1. PICK i \in PromptsIn(blocks) : f = ReadFragment(blocks, i)
    BY <1>2
  <2>2. PICK j \in PromptsIn(blocks) : g = ReadFragment(blocks, j)
    BY <1>2
  <2>3. ItemId(i) = ItemId(j)
    BY <1>4, <2>1, <2>2, FragmentFields
  <2> QED
    BY <2>1, <2>2, <2>3, ItemsApart
<1>5. \A p \in prompts : DOMAIN p = PromptKeys
  BY SealedPromptFields
<1>6. ASSUME NEW f \in fragments, f.protected
      PROVE  f.text = NoText /\ \E p \in prompts : {q \in prompts : q.fragment = f.id} = {p}
  <2>1. PICK i \in PromptsIn(blocks) : f = ReadFragment(blocks, i)
    BY <1>2
  <2>2. IsSealed(blocks[i]) /\ f.text = NoText /\ f.id = ItemId(i)
    BY <1>6, <2>1, FragmentFields
  <2>3. i \in SealedIn(blocks)
    BY <2>2 DEF SealedIn
  <2>4. PICK p : p = SealedPrompt(ItemId(i), blocks[i])
    OBVIOUS
  <2>5. p \in prompts /\ p.fragment = f.id
    BY <2>2, <2>3, <2>4, SealedPromptFields
  <2>6. ASSUME NEW q \in prompts, q.fragment = f.id
        PROVE  q = p
    <3>1. PICK j \in SealedIn(blocks) : q = SealedPrompt(ItemId(j), blocks[j])
      OBVIOUS
    <3>2. ItemId(j) = ItemId(i)
      BY <2>2, <2>6, <3>1, SealedPromptFields
    <3> QED
      BY <2>4, <3>1, <3>2, ItemsApart
  <2> HIDE DEF prompts
  <2> QED
    BY <2>2, <2>5, <2>6
<1>7. ASSUME NEW f \in fragments, ~f.protected
      PROVE  {q \in prompts : q.fragment = f.id} = {}
  <2>1. PICK i \in PromptsIn(blocks) : f = ReadFragment(blocks, i)
    BY <1>2
  <2>2. ~IsSealed(blocks[i]) /\ f.id = ItemId(i)
    BY <1>7, <2>1, FragmentFields
  <2>3. ASSUME NEW q \in prompts, q.fragment = f.id
        PROVE  FALSE
    <3>1. PICK j \in SealedIn(blocks) : q = SealedPrompt(ItemId(j), blocks[j])
      OBVIOUS
    <3>2. ItemId(j) = ItemId(i)
      BY <2>2, <2>3, <3>1, SealedPromptFields
    <3>3. IsSealed(blocks[i])
      BY <3>2, ItemsApart DEF SealedIn
    <3> QED
      BY <2>2, <3>3
  <2> HIDE DEF prompts
  <2> QED
    BY <2>3
<1> HIDE DEF prompts
<1>8. OnePromptEach(fragments, prompts)
  BY <1>3, <1>4, <1>5, <1>6, <1>7, Zenon DEF OnePromptEach
<1> QED
  BY <1>1, <1>8 DEF prompts

(* That is what the property asks of a file's asset. *)
LEMMA ApartWhenRead ==
    ASSUME NEW a, NEW fragments, NEW f \in fragments, OnePromptEach(fragments, a.protected),
           a.origin # OriginV1
    PROVE  SealedApart(a, f)
<1>1. PICK prompts : prompts = {p \in a.protected : p.fragment = f.id}
  OBVIOUS
<1>2. f.protected => f.text = NoText /\ Cardinality(prompts) = 1
  BY <1>1, FS_Singleton DEF OnePromptEach
<1>3. ~f.protected => prompts = {}
  BY <1>1 DEF OnePromptEach
<1> QED
  BY <1>1, <1>2, <1>3 DEF SealedApart

(* A Lumiverse preset leaves no sealed text on its page. *)
LEMMA LumiverseSealed ==
    ASSUME NEW opened, ParseLumiverse(opened) # Unreadable,
           NEW f \in Range(ParseLumiverse(opened).content["prompt_fragments"].fragments)
    PROVE  SealedApart(ParseLumiverse(opened), f)
<1>1. PICK a : a = ParseLumiverse(opened)
  OBVIOUS
<1>2. PICK blocks : blocks = Blocks(opened.root)
  OBVIOUS
<1>3. /\ a.origin = Lumiverse /\ a.content = LumiverseContent(opened.root, blocks)
      /\ a.protected = {SealedPrompt(ItemId(i), blocks[i]) : i \in SealedIn(blocks)}
  BY <1>1, <1>2, LumiverseRead
<1>4. a.content["prompt_fragments"] = ReadPrompts(blocks)
  BY <1>3, LumiverseContents
<1>5. Numbered(blocks)
  BY <1>2, ObjectsNumbered DEF Blocks
<1>6. PICK fragments : fragments = Range(ReadPrompts(blocks).fragments)
  OBVIOUS
<1>7. OnePromptEach(fragments, a.protected)
  BY <1>3, <1>5, <1>6, LumiverseApart
<1>8. a.origin # OriginV1
  BY <1>3 DEF Lumiverse, OriginV1
<1>9. f \in fragments
  BY <1>1, <1>4, <1>6
<1>10. SealedApart(a, f)
  BY <1>7, <1>8, <1>9, ApartWhenRead
<1> QED
  BY <1>1, <1>10

-----------------------------------------------------------------------------
(* SillyTavern presets: nothing is sealed. *)

Plain(fragment) == "protected" \in DOMAIN fragment /\ fragment.protected = FALSE

(* A SillyTavern prompt is read as a fragment that is not protected, *)
LEMMA PlainPrompt ==
    ASSUME NEW i, NEW f, NEW ordered
    PROVE  Plain(ReadPrompt(i, f, ordered))
BY DEF ReadPrompt, Plain

(* and stays one when the order switches it. *)
LEMMA PlainSwitched ==
    ASSUME NEW fragment, Plain(fragment), NEW b
    PROVE  Plain([fragment EXCEPT !.enabled = b])
BY DEF Plain

(* The live order is a list. *)
LEMMA LiveNumbered ==
    ASSUME NEW root
    PROVE  Numbered(LiveOrder(root))
<1>1. PICK lines : lines = ListOf(FieldsOf(ListOf(root, "prompt_order")[LiveIndex(root)]), "order")
  OBVIOUS
<1>2. Numbered(lines)
  BY <1>1, ListsNumbered
<1>3. Numbered(Kept(lines, {i \in DOMAIN lines : StringAt(FieldsOf(lines[i]), "identifier")}))
  BY <1>2, KeptNumbered
<1>4. Numbered(<<>>)
  BY DEF Numbered
<1> QED
  BY <1>1, <1>3, <1>4 DEF LiveOrder

(* What is in two joined lists is in one of them. *)
LEMMA JoinedRange ==
    ASSUME NEW s, NEW t, Numbered(s), Numbered(t),
           s = [i \in DOMAIN s |-> s[i]], t = [i \in DOMAIN t |-> t[i]]
    PROVE  \A x \in Range(s \o t) : x \in Range(s) \/ x \in Range(t)
<1>1. PICK S : S = Range(s) \cup Range(t)
  OBVIOUS
<1>2. PICK m \in Nat : DOMAIN s = 1 .. m
  BY DEF Numbered
<1>3. PICK n \in Nat : DOMAIN t = 1 .. n
  BY DEF Numbered
<1>4. (\A i \in 1 .. m : s[i] \in S) /\ \A i \in 1 .. n : t[i] \in S
  BY <1>1, <1>2, <1>3 DEF Range
<1>5. s \in [1 .. m -> S] /\ t \in [1 .. n -> S]
  BY <1>2, <1>3, <1>4
<1>6. s \in Seq(S) /\ t \in Seq(S)
  BY <1>5
<1> QED
  BY <1>6, RangeConcatenation

(* Ordering the prompts makes no new ones. *)
LEMMA PromptsOrdered ==
    ASSUME NEW prompts, Numbered(prompts), NEW live, Numbered(live),
           NEW read, read = [i \in DOMAIN prompts |-> read[i]],
           \A i \in DOMAIN prompts : Plain(read[i]),
           NEW f \in Range(OrderedPrompts(read, prompts, live))
    PROVE  Plain(f)
<1> DEFINE Named(k) == NamedBy(prompts, FieldsOf(live[k]))
           Listed(n) == {First(Named(k)) : k \in {l \in 1 .. n : Named(l) # {}}}
           first == {k \in DOMAIN live : Named(k) # {} /\ First(Named(k)) \notin Listed(k - 1)}
           others == {i \in DOMAIN read : i \notin Listed(Len(live))}
           sent == Ordered(first)
           rest == Ordered(others)
           s == [n \in DOMAIN sent |->
                    [read[First(Named(sent[n]))]
                        EXCEPT !.enabled = IsSet(FieldsOf(live[sent[n]]), "enabled", FALSE)]]
           t == [n \in DOMAIN rest |-> read[rest[n]]]
<1>1. OrderedPrompts(read, prompts, live) = s \o t
  BY Zenon DEF OrderedPrompts
<1>2. PICK m \in Nat : DOMAIN live = 1 .. m
  BY DEF Numbered
<1>3. PICK n \in Nat : DOMAIN prompts = 1 .. n /\ DOMAIN read = 1 .. n
  BY DEF Numbered
<1>4. first \in SUBSET (1 .. m) /\ \A k \in first : Named(k) # {}
  BY <1>2
<1>5. others \in SUBSET (1 .. n)
  BY <1>3
<1>6. \A k : Named(k) \in SUBSET (1 .. n)
  BY <1>3 DEF NamedBy
<1> HIDE DEF first, others, Named
<1>7. Numbered(sent) /\ \A j \in DOMAIN sent : sent[j] \in first
  BY <1>2, <1>4, OrderedPlaces DEF Numbered
<1>8. Numbered(rest) /\ \A j \in DOMAIN rest : rest[j] \in others
  BY <1>3, <1>5, OrderedPlaces DEF Numbered
<1> HIDE DEF sent, rest
<1>9. ASSUME NEW j \in DOMAIN sent
      PROVE  First(Named(sent[j])) \in 1 .. n
  <2>1. Named(sent[j]) # {} /\ Named(sent[j]) \in SUBSET Nat
    BY <1>4, <1>6, <1>7
  <2> QED
    BY <1>6, <2>1, LeastNat
<1>10. ASSUME NEW j \in DOMAIN sent
       PROVE  Plain(s[j])
  <2>1. PICK b : b = IsSet(FieldsOf(live[sent[j]]), "enabled", FALSE)
    OBVIOUS
  <2>2. PICK prompt : prompt = read[First(Named(sent[j]))]
    OBVIOUS
  <2>3. Plain(prompt)
    BY <1>3, <1>9, <2>2
  <2>4. s[j] = [prompt EXCEPT !.enabled = b]
    BY <2>1, <2>2
  <2> QED
    BY <2>3, <2>4, PlainSwitched
<1>11. \A j \in DOMAIN rest : Plain(t[j])
  BY <1>3, <1>5, <1>8
<1>12. Numbered(s) /\ Numbered(t) /\ s = [i \in DOMAIN s |-> s[i]] /\ t = [i \in DOMAIN t |-> t[i]]
  BY <1>7, <1>8 DEF Numbered
<1>13. DOMAIN s = DOMAIN sent /\ DOMAIN t = DOMAIN rest
  OBVIOUS
<1> HIDE DEF s, t
<1>14. f \in Range(s) \/ f \in Range(t)
  BY <1>1, <1>12, JoinedRange
<1> QED
  BY <1>10, <1>11, <1>13, <1>14 DEF Range

(* The parts of what SillyTavernModule.Parse returns. *)
LEMMA SillyTavernRead ==
    ASSUME NEW opened, ParseSillyTavern(opened) # Unreadable
    PROVE  LET a == ParseSillyTavern(opened)
           IN  /\ a.kind = "preset" /\ a.origin = SillyTavern /\ a.protected = {}
               /\ a.content = SillyTavernContent(opened.root, SillyTavernPrompts(opened.root))
BY DEF ParseSillyTavern, Parsed

(* It makes content for the roles a preset has. *)
LEMMA SillyTavernContents ==
    ASSUME NEW root, NEW prompts
    PROVE  LET content == SillyTavernContent(root, prompts)
               read == [i \in DOMAIN prompts |-> ReadPrompt(i, prompts[i], LiveIndex(root) # 0)]
           IN  /\ DOMAIN content \subseteq PresetRolesRead /\ "prompt_fragments" \in DOMAIN content
               /\ content["prompt_fragments"].fragments
                     = OrderedPrompts(read, prompts, LiveOrder(root))
<1> DEFINE made == [i \in DOMAIN prompts |-> ReadPrompt(i, prompts[i], LiveIndex(root) # 0)]
           settings == SettingsElement(root, SillyTavern)
           nudges == NudgesElement(root, SillyTavern)
           scripts == ScriptsIn(FieldsAt(root, "extensions"))
           list == [groups |-> <<>>, fragments |-> OrderedPrompts(made, prompts, LiveOrder(root))]
           a == [prompt_fragments |-> list]
           c == WriteIfSet("sampler_settings", settings # <<>>, settings)
           d == WriteIfSet("prompt_nudges", nudges # <<>>, nudges)
           e == WriteIfSet("regex_scripts", scripts # <<>>, ReadScripts(SillyTavern, scripts))
<1>1. SillyTavernContent(root, prompts) = a @@ c @@ d @@ e
  BY Zenon DEF SillyTavernContent
<1>2. /\ DOMAIN c \subseteq {"sampler_settings"}
      /\ DOMAIN d \subseteq {"prompt_nudges"} /\ DOMAIN e \subseteq {"regex_scripts"}
  BY SetKeys
<1>3. DOMAIN a = {"prompt_fragments"} /\ a["prompt_fragments"] = list
  OBVIOUS
<1>4. list.fragments = OrderedPrompts(made, prompts, LiveOrder(root))
  OBVIOUS
<1> HIDE DEF a, c, d, e, list
<1>5. PICK ac : ac = a @@ c
  OBVIOUS
<1>6. PICK acd : acd = ac @@ d
  OBVIOUS
<1>7. /\ DOMAIN ac \subseteq PresetRolesRead /\ "prompt_fragments" \in DOMAIN ac
      /\ ac["prompt_fragments"] = list
  BY <1>2, <1>3, <1>5, Together DEF PresetRolesRead
<1>8. /\ DOMAIN acd \subseteq PresetRolesRead /\ "prompt_fragments" \in DOMAIN acd
      /\ acd["prompt_fragments"] = list
  BY <1>2, <1>6, <1>7, Together DEF PresetRolesRead
<1>9. PICK whole : whole = acd @@ e
  OBVIOUS
<1>10. /\ DOMAIN whole \subseteq PresetRolesRead /\ "prompt_fragments" \in DOMAIN whole
       /\ whole["prompt_fragments"] = list
  BY <1>2, <1>8, <1>9, Together DEF PresetRolesRead
<1>11. SillyTavernContent(root, prompts) = whole
  BY <1>1, <1>5, <1>6, <1>9
<1> HIDE DEF made
<1>12. /\ DOMAIN whole \subseteq PresetRolesRead /\ "prompt_fragments" \in DOMAIN whole
       /\ whole["prompt_fragments"].fragments = OrderedPrompts(made, prompts, LiveOrder(root))
  BY <1>4, <1>10
<1> QED
  BY <1>11, <1>12 DEF made

(* A SillyTavern preset seals nothing. *)
LEMMA SillyTavernUnsealed ==
    ASSUME NEW opened, ParseSillyTavern(opened) # Unreadable,
           NEW f \in Range(ParseSillyTavern(opened).content["prompt_fragments"].fragments)
    PROVE  SealedApart(ParseSillyTavern(opened), f)
<1>1. PICK a : a = ParseSillyTavern(opened)
  OBVIOUS
<1>2. PICK prompts : prompts = SillyTavernPrompts(opened.root)
  OBVIOUS
<1>3. PICK read : read = [i \in DOMAIN prompts |->
                             ReadPrompt(i, prompts[i], LiveIndex(opened.root) # 0)]
  OBVIOUS
<1>4. PICK live : live = LiveOrder(opened.root)
  OBVIOUS
<1>5. a.origin = SillyTavern /\ a.protected = {} /\ a.content = SillyTavernContent(opened.root, prompts)
  BY <1>1, <1>2, SillyTavernRead
<1>6. a.content["prompt_fragments"].fragments = OrderedPrompts(read, prompts, live)
  BY <1>3, <1>4, <1>5, SillyTavernContents
<1>7. Numbered(prompts) /\ Numbered(live)
  BY <1>2, <1>4, ObjectsNumbered, LiveNumbered DEF SillyTavernPrompts
<1>8. ASSUME NEW i \in DOMAIN prompts
      PROVE  Plain(read[i])
  <2>1. PICK ordered : ordered = (LiveIndex(opened.root) # 0)
    OBVIOUS
  <2>2. read[i] = ReadPrompt(i, prompts[i], ordered)
    BY <1>3, <2>1
  <2> QED
    BY <2>2, PlainPrompt
<1>9. f \in Range(OrderedPrompts(read, prompts, live))
  BY <1>1, <1>6
<1>10. read = [i \in DOMAIN prompts |-> read[i]]
  BY <1>3
<1>11. Plain(f)
  BY <1>7, <1>8, <1>9, <1>10, PromptsOrdered
<1>12. a.origin # OriginV1
  BY <1>5 DEF SillyTavern, OriginV1
<1>13. SealedApart(a, f)
  BY <1>5, <1>11, <1>12 DEF SealedApart, Plain
<1> QED
  BY <1>1, <1>13

-----------------------------------------------------------------------------
(* Presets of the old site *)

ParsedKeys == {"kind", "origin", "cover", "header", "content", "preserved", "protected"}

(* What activateCurrentSealedPrompts makes of a prompt and of a fragment. *)
TextKept(row, key) == (CHOOSE s \in SealedRows(row, key) : TRUE).text
Settled(row, p) == [p EXCEPT !.reuse = FALSE, !.text = TextKept(row, p.key)]
Switched(f) == IF Placeheld(f) THEN [f EXCEPT !.text = NoText, !.protected = TRUE] ELSE f

Activated(row, parsed, list, made) ==
    /\ DOMAIN made = ParsedKeys /\ made.kind = parsed.kind
    /\ made.protected = {Settled(row, p) : p \in CurrentPrompts(parsed)}
    /\ DOMAIN made.content = DOMAIN parsed.content
    /\ made.content["prompt_fragments"].fragments
          = [i \in DOMAIN list.fragments |-> Switched(list.fragments[i])]

(* The fields of what a reader returns, *)
LEMMA LumiverseDomain ==
    ASSUME NEW opened, ParseLumiverse(opened) # Unreadable
    PROVE  DOMAIN ParseLumiverse(opened) = ParsedKeys
BY DEF ParseLumiverse, Parsed, ParsedKeys

(* and of its list of prompts. *)
LEMMA PromptsDomain ==
    ASSUME NEW blocks
    PROVE  DOMAIN ReadPrompts(blocks) = {"groups", "fragments"}
BY DEF ReadPrompts

(* What activateCurrentSealedPrompts changes of them. *)
LEMMA ActivatedFields ==
    ASSUME NEW row, NEW parsed, DOMAIN parsed = ParsedKeys, NEW content, content = parsed.content,
           "prompt_fragments" \in DOMAIN content, NEW list, list = content["prompt_fragments"],
           "fragments" \in DOMAIN list, NEW made, made = ActivateSealed(row, parsed)
    PROVE  Activated(row, parsed, list, made)
<1> DEFINE seals == {[p EXCEPT !.reuse = FALSE,
                               !.text = (CHOOSE s \in SealedRows(row, p.key) : TRUE).text]
                     : p \in CurrentPrompts(parsed)}
           switches == [i \in DOMAIN list.fragments |->
                           IF Placeheld(list.fragments[i])
                           THEN [list.fragments[i] EXCEPT !.text = NoText, !.protected = TRUE]
                           ELSE list.fragments[i]]
           lists == [list EXCEPT !.fragments = switches]
           roles == [content EXCEPT !["prompt_fragments"] = lists]
<1>1. made = [[parsed EXCEPT !.protected = seals] EXCEPT !.content = roles]
  BY DEF ActivateSealed, ParsedKeys
<1>2. seals = {Settled(row, p) : p \in CurrentPrompts(parsed)}
  BY DEF Settled, TextKept
<1>3. switches = [i \in DOMAIN list.fragments |-> Switched(list.fragments[i])]
  BY DEF Switched
<1>4. DOMAIN roles = DOMAIN content /\ roles["prompt_fragments"] = lists /\ lists.fragments = switches
  OBVIOUS
<1> HIDE DEF seals, switches, lists, roles
<1>5. /\ DOMAIN made = ParsedKeys /\ made.kind = parsed.kind /\ made.protected = seals
      /\ made.content = roles
  BY <1>1 DEF ParsedKeys
<1> QED
  BY <1>2, <1>3, <1>4, <1>5 DEF Activated

(* The reader of old presets returns that, under the old site's origin. *)
LEMMA PresetRowRead ==
    ASSUME NEW row, ReadPreset(row) # Unreadable,
           NEW parsed, parsed = ParseLumiverse(row.payload),
           NEW a, a = ReadPreset(row)
    PROVE  /\ parsed # Unreadable /\ ~SealsUnread(row, parsed)
           /\ DOMAIN ActivateSealed(row, parsed) = ParsedKeys =>
                /\ a.origin = OriginV1 /\ a.kind = ActivateSealed(row, parsed).kind
                /\ a.protected = ActivateSealed(row, parsed).protected
                /\ a.content = ActivateSealed(row, parsed).content
<1>1. PICK schema : schema = PayloadValue([root |-> row.payload.root], "schemaVersion")
  OBVIOUS
<1>2. PICK made : made = ActivateSealed(row, parsed)
  OBVIOUS
<1>3. PICK header : header = [Header(row.name, NoText, BoundBlurb(row.description)) EXCEPT !.version = row.latest]
  OBVIOUS
<1>4. PICK left : left = StripRemainder(made.preserved, Lumiverse, {"name", "description", "presetVersion"})
  OBVIOUS
<1>5. a = IF schema \cap {"1", "2"} = {} \/ parsed = Unreadable THEN Unreadable
          ELSE IF SealsUnread(row, parsed) THEN Unreadable
          ELSE [made EXCEPT !.origin = OriginV1, !.header = header,
                   !.preserved = StripRemainder(@, Lumiverse, {"name", "description", "presetVersion"})]
  BY <1>1, <1>2, <1>3 DEF ReadPreset
<1>6. /\ parsed # Unreadable /\ ~SealsUnread(row, parsed)
      /\ a = [made EXCEPT !.origin = OriginV1, !.header = header,
                 !.preserved = StripRemainder(@, Lumiverse, {"name", "description", "presetVersion"})]
  BY <1>5
<1>7. DOMAIN made = ParsedKeys =>
        a.origin = OriginV1 /\ a.kind = made.kind /\ a.protected = made.protected /\ a.content = made.content
  BY <1>6 DEF ParsedKeys
<1> QED
  BY <1>2, <1>6, <1>7

(* A sealed prompt of the old site gets the text the row keeps for its key. *)
LEMMA SettledFields ==
    ASSUME NEW row, NEW p, DOMAIN p = PromptKeys
    PROVE  /\ Settled(row, p).fragment = p.fragment /\ Settled(row, p).key = p.key
           /\ ~Settled(row, p).reuse /\ Settled(row, p).text = TextKept(row, p.key)
<1>1. PICK text : text = TextKept(row, p.key)
  OBVIOUS
<1>2. Settled(row, p) = [p EXCEPT !.reuse = FALSE, !.text = text]
  BY <1>1 DEF Settled
<1> QED
  BY <1>1, <1>2 DEF PromptKeys

(* A fragment that held a placeholder is protected and blank; others stay. *)
LEMMA SwitchedFields ==
    ASSUME NEW f, DOMAIN f = FragmentKeys
    PROVE  /\ Switched(f).id = f.id
           /\ Placeheld(f) => Switched(f).protected /\ Switched(f).text = NoText
           /\ ~Placeheld(f) => Switched(f) = f
BY DEF Switched, FragmentKeys

(* An empty text is no placeholder. *)
LEMMA NoTextHoldsNothing ==
    ASSUME NEW f, f.text = NoText
    PROVE  ~Placeheld(f)
BY PlaceholderAssumption DEF Placeheld

(* The text a row keeps for a prompt is not its placeholder. *)
LEMMA KeptTextReal ==
    ASSUME NEW row, NEW p, SealAgrees(row, p)
    PROVE  TextKept(row, p.key) # Placeholder(p.key)
<1>1. PICK s \in SealedRows(row, p.key) : SealedRows(row, p.key) = {s} /\ s.text # Placeholder(p.key)
  BY DEF SealAgrees
<1>2. (CHOOSE t \in SealedRows(row, p.key) : TRUE) = s
  BY <1>1
<1> QED
  BY <1>1, <1>2 DEF TextKept

HeldBy(f) == [fragment |-> f.id, key |-> PlaceheldKey(f), reuse |-> TRUE, text |-> NoText]

(* The prompt made of a placeholder is its fragment's. *)
LEMMA HeldFields ==
    ASSUME NEW f
    PROVE  DOMAIN HeldBy(f) = PromptKeys /\ HeldBy(f).fragment = f.id
BY DEF HeldBy, PromptKeys

(* Activated so, each fragment has one prompt or none, and no placeholder. *)
LEMMA OldPresetApart ==
    ASSUME NEW row, NEW parsed, ~SealsUnread(row, parsed),
           NEW fragments, fragments = Range(parsed.content["prompt_fragments"].fragments),
           OnePromptEach(fragments, parsed.protected),
           NEW a, a.protected = {Settled(row, p) : p \in CurrentPrompts(parsed)},
           NEW o \in fragments
    PROVE  SealedApart(a, Switched(o))
<1> DEFINE Near(prompts) == {p \in prompts : p.fragment = o.id}
           held == {HeldBy(g) : g \in {h \in fragments : Placeheld(h)}}
<1>1. PICK current : current = CurrentPrompts(parsed)
  OBVIOUS
<1>2. current = parsed.protected \cup held
  BY <1>1 DEF CurrentPrompts, HeldBy
<1>3. \A p \in current : DOMAIN p = PromptKeys
  BY <1>2, HeldFields DEF OnePromptEach
<1>4. PICK f : f = Switched(o)
  OBVIOUS
<1>5. DOMAIN o = FragmentKeys
  BY DEF OnePromptEach
<1>6. PICK prompts : prompts = {p \in a.protected : p.fragment = f.id}
  OBVIOUS
<1>7. prompts = {Settled(row, p) : p \in Near(current)}
  <2>1. f.id = o.id
    BY <1>4, <1>5, SwitchedFields
  <2>2. a.protected = {Settled(row, p) : p \in current}
    BY <1>1
  <2>3. \A p \in current : Settled(row, p).fragment = p.fragment
    BY <1>3, SettledFields
  <2> QED
    BY <1>6, <2>1, <2>2, <2>3
<1>8. ASSUME NEW q \in prompts
      PROVE  ~q.reuse /\ q.text # Placeholder(q.key)
  <2>1. PICK p \in current : q = Settled(row, p)
    BY <1>7
  <2>2. SealAgrees(row, p)
    BY <1>1, <2>1 DEF SealsUnread
  <2>3. DOMAIN p = PromptKeys
    BY <1>3, <2>1
  <2> QED
    BY <2>1, <2>2, <2>3, SettledFields, KeptTextReal
<1>9. CASE Placeheld(o)
  <2>1. o.text # NoText
    BY <1>9, NoTextHoldsNothing
  <2>2. Near(parsed.protected) = {}
    BY <2>1 DEF OnePromptEach
  <2>3. Near(held) = {HeldBy(o)}
    <3>1. HeldBy(o) \in held /\ HeldBy(o).fragment = o.id
      BY <1>9, HeldFields
    <3>2. ASSUME NEW p \in held, p.fragment = o.id
          PROVE  p = HeldBy(o)
      <4>1. PICK g \in fragments : p = HeldBy(g)
        OBVIOUS
      <4>2. g = o
        BY <3>2, <4>1, HeldFields DEF OnePromptEach
      <4> QED
        BY <4>1, <4>2
    <3> HIDE DEF held
    <3> QED
      BY <3>1, <3>2
  <2>4. Near(current) = {HeldBy(o)}
    BY <1>2, <2>2, <2>3
  <2>5. prompts = {Settled(row, HeldBy(o))}
    BY <1>7, <2>4
  <2>6. Cardinality(prompts) = 1
    BY <2>5, FS_Singleton
  <2>7. f.protected /\ f.text = NoText
    BY <1>4, <1>5, <1>9, SwitchedFields
  <2>8. ~Placeheld(f)
    BY <2>7, NoTextHoldsNothing
  <2>9. SealedApart(a, f)
    BY <1>6, <1>8, <2>6, <2>7, <2>8 DEF SealedApart
  <2> QED
    BY <1>4, <2>9
<1>10. CASE ~Placeheld(o)
  <2>1. f = o
    BY <1>4, <1>5, <1>10, SwitchedFields
  <2>2. Near(held) = {}
    <3>1. ASSUME NEW p \in held, p.fragment = o.id
          PROVE  FALSE
      <4>1. PICK g \in fragments : p = HeldBy(g) /\ Placeheld(g)
        OBVIOUS
      <4>2. g = o
        BY <3>1, <4>1, HeldFields DEF OnePromptEach
      <4> QED
        BY <1>10, <4>1, <4>2
    <3> HIDE DEF held
    <3> QED
      BY <3>1
  <2>3. Near(current) = Near(parsed.protected)
    BY <1>2, <2>2
  <2>4. ASSUME f.protected
        PROVE  f.text = NoText /\ Cardinality(prompts) = 1
    <3>1. PICK p : Near(parsed.protected) = {p}
      BY <2>1, <2>4 DEF OnePromptEach
    <3>2. prompts = {Settled(row, p)}
      BY <1>7, <2>3, <3>1
    <3>3. f.text = NoText
      BY <2>1, <2>4 DEF OnePromptEach
    <3> QED
      BY <3>2, <3>3, FS_Singleton
  <2>5. ~f.protected => prompts = {}
    BY <1>7, <2>1, <2>3 DEF OnePromptEach
  <2>6. SealedApart(a, f)
    BY <1>6, <1>8, <1>10, <2>1, <2>4, <2>5 DEF SealedApart
  <2> QED
    BY <1>4, <2>6
<1> QED
  BY <1>9, <1>10

(* What readPreset makes: the sealed prompts and the fragments of what Lumiverse's reader made. *)
LEMMA PresetRowContent ==
    ASSUME NEW row, ReadPreset(row) # Unreadable, NEW a, a = ReadPreset(row),
           NEW parsed, parsed = ParseLumiverse(row.payload)
    PROVE  LET old == parsed.content["prompt_fragments"].fragments
           IN  /\ a.kind = "preset" /\ DOMAIN a.content = DOMAIN parsed.content
               /\ OnePromptEach(Range(old), parsed.protected)
               /\ a.protected = {Settled(row, p) : p \in CurrentPrompts(parsed)}
               /\ a.content["prompt_fragments"].fragments = [i \in DOMAIN old |-> Switched(old[i])]
<1>1. PICK made : made = ActivateSealed(row, parsed)
  OBVIOUS
<1>2. PICK blocks : blocks = Blocks(row.payload.root)
  OBVIOUS
<1>3. parsed # Unreadable
  BY PresetRowRead
<1>4. /\ parsed.kind = "preset" /\ parsed.content = LumiverseContent(row.payload.root, blocks)
      /\ parsed.protected = {SealedPrompt(ItemId(i), blocks[i]) : i \in SealedIn(blocks)}
  BY <1>2, <1>3, LumiverseRead
<1>5. PICK content : content = parsed.content
  OBVIOUS
<1>6. PICK list : list = content["prompt_fragments"]
  OBVIOUS
<1>7. "prompt_fragments" \in DOMAIN content /\ list = ReadPrompts(blocks)
  BY <1>4, <1>5, <1>6, LumiverseContents
<1>8. Numbered(blocks)
  BY <1>2, ObjectsNumbered DEF Blocks
<1>9. OnePromptEach(Range(list.fragments), parsed.protected)
  BY <1>4, <1>7, <1>8, LumiverseApart
<1>10. DOMAIN parsed = ParsedKeys
  BY <1>3, LumiverseDomain
<1>11. "fragments" \in DOMAIN list
  BY <1>7, PromptsDomain
<1>12. Activated(row, parsed, list, made)
  BY <1>1, <1>5, <1>6, <1>7, <1>10, <1>11, ActivatedFields, Zenon
<1>13. /\ DOMAIN made = ParsedKeys /\ made.kind = parsed.kind
       /\ made.protected = {Settled(row, p) : p \in CurrentPrompts(parsed)}
       /\ DOMAIN made.content = DOMAIN parsed.content
       /\ made.content["prompt_fragments"].fragments
             = [i \in DOMAIN list.fragments |-> Switched(list.fragments[i])]
  BY <1>12 DEF Activated
<1>14. a.kind = made.kind /\ a.protected = made.protected /\ a.content = made.content
  BY <1>1, <1>13, PresetRowRead
<1>15. list = parsed.content["prompt_fragments"]
  BY <1>5, <1>6
<1> QED
  BY <1>4, <1>9, <1>13, <1>14, <1>15

(* An old preset leaves no sealed text, and no placeholder, on its page. *)
LEMMA OldPresetSealed ==
    ASSUME NEW row, ReadPreset(row) # Unreadable,
           NEW f \in Range(ReadPreset(row).content["prompt_fragments"].fragments)
    PROVE  SealedApart(ReadPreset(row), f)
<1>1. PICK a : a = ReadPreset(row)
  OBVIOUS
<1>2. PICK parsed : parsed = ParseLumiverse(row.payload)
  OBVIOUS
<1>3. PICK old : old = parsed.content["prompt_fragments"].fragments
  OBVIOUS
<1>4. ~SealsUnread(row, parsed)
  BY <1>2, PresetRowRead
<1>5. /\ OnePromptEach(Range(old), parsed.protected)
      /\ a.protected = {Settled(row, p) : p \in CurrentPrompts(parsed)}
      /\ a.content["prompt_fragments"].fragments = [i \in DOMAIN old |-> Switched(old[i])]
  BY <1>1, <1>2, <1>3, PresetRowContent
<1>6. PICK o \in Range(old) : f = Switched(o)
  BY <1>1, <1>5 DEF Range
<1>7. SealedApart(a, Switched(o))
  BY <1>3, <1>4, <1>5, OldPresetApart
<1> QED
  BY <1>1, <1>6, <1>7

-----------------------------------------------------------------------------
(* The catalogs: every block has a layout with room for all of its elements. *)

(* Layouts have names. *)
LEMMA LayoutsNamed ==
    /\ "single" # Page!None /\ "duo" # Page!None /\ "main-aside" # Page!None
    /\ "trio" # Page!None /\ "stack-2" # Page!None /\ "stack-3" # Page!None
BY DEF Page!None

(* A list of at most three elements, and a layout with as many slots. *)
Roomy(elements, layouts) ==
    /\ \E n \in 0 .. 3 : /\ DOMAIN elements = 1 .. n
                         /\ \E j \in DOMAIN layouts : Len(Page!Slots(layouts[j])) >= n
    /\ DOMAIN layouts \in SUBSET Nat
    /\ \A j \in DOMAIN layouts : layouts[j] # Page!None /\ Len(Page!Slots(layouts[j])) \in Nat

(* How many slots each layout has. *)
LEMMA SlotCounts ==
    /\ Len(Page!Slots("single")) = 1 /\ Len(Page!Slots("duo")) = 2
    /\ Len(Page!Slots("main-aside")) = 2 /\ Len(Page!Slots("trio")) = 3
    /\ Len(Page!Slots("stack-2")) = 2 /\ Len(Page!Slots("stack-3")) = 3
BY DEF Page!Slots

(* A block that defines no element has a layout for none; *)
LEMMA RoomForNone ==
    Roomy(<<>>, <<"single", "duo", "main-aside", "trio", "stack-2", "stack-3">>)
<1>1. PICK layouts : layouts = <<"single", "duo", "main-aside", "trio", "stack-2", "stack-3">>
  OBVIOUS
<1>2. /\ DOMAIN layouts = 1 .. 6 /\ layouts[1] = "single" /\ layouts[2] = "duo"
      /\ layouts[3] = "main-aside" /\ layouts[4] = "trio" /\ layouts[5] = "stack-2"
      /\ layouts[6] = "stack-3"
  BY <1>1
<1>3. \A j \in DOMAIN layouts : layouts[j] # Page!None /\ Len(Page!Slots(layouts[j])) \in Nat
  <2>1. \A j \in 1 .. 6 : j = 1 \/ j = 2 \/ j = 3 \/ j = 4 \/ j = 5 \/ j = 6
    OBVIOUS
  <2> QED
    BY <1>2, <2>1, SlotCounts, LayoutsNamed
<1>4. \E j \in DOMAIN layouts : Len(Page!Slots(layouts[j])) >= 0
  BY <1>2, SlotCounts
<1>5. DOMAIN <<>> = 1 .. 0
  OBVIOUS
<1> QED
  BY <1>1, <1>2, <1>3, <1>4, <1>5 DEF Roomy

(* one with one element has room for it, *)
LEMMA RoomForOne ==
    ASSUME NEW a
    PROVE  Roomy(<<a>>, <<"single">>)
<1>1. PICK layouts : layouts = <<"single">>
  OBVIOUS
<1>2. DOMAIN layouts = {1} /\ layouts[1] = "single"
  BY <1>1
<1>3. DOMAIN <<a>> = 1 .. 1
  OBVIOUS
<1> QED
  BY <1>1, <1>2, <1>3, SlotCounts, LayoutsNamed DEF Roomy

(* one with two for either and both, *)
LEMMA RoomForTwo ==
    ASSUME NEW a, NEW b, NEW layouts, layouts \in {<<"stack-2", "duo">>, <<"duo", "stack-2">>}
    PROVE  Roomy(<<a, b>>, layouts)
<1>1. /\ DOMAIN layouts = {1, 2} /\ layouts[1] \in {"stack-2", "duo"}
      /\ layouts[2] \in {"stack-2", "duo"}
  OBVIOUS
<1>2. DOMAIN <<a, b>> = 1 .. 2
  OBVIOUS
<1> QED
  BY <1>1, <1>2, SlotCounts, LayoutsNamed DEF Roomy

(* one with three likewise, *)
LEMMA RoomForThree ==
    ASSUME NEW a, NEW b, NEW c, NEW layouts,
           layouts \in {<<"stack-3", "trio">>, <<"stack-2", "stack-3">>, <<"trio", "stack-3">>}
    PROVE  Roomy(<<a, b, c>>, layouts)
<1>1. /\ DOMAIN layouts = {1, 2} /\ layouts[1] \in {"stack-2", "stack-3", "trio"}
      /\ layouts[2] \in {"stack-3", "trio"}
  OBVIOUS
<1>2. DOMAIN <<a, b, c>> = 1 .. 3
  OBVIOUS
<1> QED
  BY <1>1, <1>2, SlotCounts, LayoutsNamed DEF Roomy

(* stacked too. *)
LEMMA RoomForPrompts ==
    ASSUME NEW a, NEW b, NEW c
    PROVE  Roomy(<<a, b, c>>, <<"stack-3">>)
<1>1. PICK layouts : layouts = <<"stack-3">>
  OBVIOUS
<1>2. DOMAIN layouts = {1} /\ layouts[1] = "stack-3"
  BY <1>1
<1>3. DOMAIN <<a, b, c>> = 1 .. 3
  OBVIOUS
<1> QED
  BY <1>1, <1>2, <1>3, SlotCounts, LayoutsNamed, SMTT(30) DEF Roomy


(* Every block of the catalogs has a layout for any part of its elements: characters, *)
LEMMA CharacterRoomy ==
    /\ DOMAIN Page!Character = 1 .. 7 /\ Len(Page!Character) = 7 /\ Page!Character = [i \in 1 .. 7 |-> Page!Character[i]]
    /\ \A d \in Range(Page!Character) : Roomy(d.elements, d.layouts)
<1>1. DOMAIN Page!Character = 1 .. 7 /\ Len(Page!Character) = 7 /\ Page!Character = [i \in 1 .. 7 |-> Page!Character[i]]
  BY DEF Page!Character
<1>2. Roomy(Page!Character[1].elements, Page!Character[1].layouts)
  BY RoomForThree DEF Page!Character, Page!Required, Page!Optional
<1>3. Roomy(Page!Character[2].elements, Page!Character[2].layouts)
  BY RoomForThree DEF Page!Character, Page!Required, Page!Optional
<1>4. Roomy(Page!Character[3].elements, Page!Character[3].layouts)
  BY RoomForOne DEF Page!Character, Page!Required, Page!Optional
<1>5. Roomy(Page!Character[4].elements, Page!Character[4].layouts)
  BY RoomForOne DEF Page!Character, Page!Required, Page!Optional
<1>6. Roomy(Page!Character[5].elements, Page!Character[5].layouts)
  BY RoomForPrompts DEF Page!Character, Page!Required, Page!Optional
<1>7. Roomy(Page!Character[6].elements, Page!Character[6].layouts)
  BY RoomForTwo DEF Page!Character, Page!Required, Page!Optional
<1>8. Roomy(Page!Character[7].elements, Page!Character[7].layouts)
  BY RoomForOne DEF Page!Character, Page!Required, Page!Optional
<1>9. \A i \in 1 .. 7 : i = 1 \/ i = 2 \/ i = 3 \/ i = 4 \/ i = 5 \/ i = 6 \/ i = 7
  OBVIOUS
<1> QED
  BY <1>1, <1>2, <1>3, <1>4, <1>5, <1>6, <1>7, <1>8, <1>9 DEF Range

(* lorebooks, *)
LEMMA LorebookKindRoomy ==
    /\ DOMAIN Page!LorebookKind = 1 .. 1 /\ Len(Page!LorebookKind) = 1 /\ Page!LorebookKind = [i \in 1 .. 1 |-> Page!LorebookKind[i]]
    /\ \A d \in Range(Page!LorebookKind) : Roomy(d.elements, d.layouts)
<1>1. DOMAIN Page!LorebookKind = 1 .. 1 /\ Len(Page!LorebookKind) = 1 /\ Page!LorebookKind = [i \in 1 .. 1 |-> Page!LorebookKind[i]]
  BY DEF Page!LorebookKind
<1>2. Roomy(Page!LorebookKind[1].elements, Page!LorebookKind[1].layouts)
  BY RoomForOne DEF Page!LorebookKind, Page!Required, Page!Optional
<1> QED
  BY <1>1, <1>2 DEF Range

(* presets, *)
LEMMA PresetRoomy ==
    /\ DOMAIN Page!Preset = 1 .. 5 /\ Len(Page!Preset) = 5 /\ Page!Preset = [i \in 1 .. 5 |-> Page!Preset[i]]
    /\ \A d \in Range(Page!Preset) : Roomy(d.elements, d.layouts)
<1>1. DOMAIN Page!Preset = 1 .. 5 /\ Len(Page!Preset) = 5 /\ Page!Preset = [i \in 1 .. 5 |-> Page!Preset[i]]
  BY DEF Page!Preset
<1>2. Roomy(Page!Preset[1].elements, Page!Preset[1].layouts)
  BY RoomForOne DEF Page!Preset, Page!Required, Page!Optional
<1>3. Roomy(Page!Preset[2].elements, Page!Preset[2].layouts)
  BY RoomForThree DEF Page!Preset, Page!Required, Page!Optional
<1>4. Roomy(Page!Preset[3].elements, Page!Preset[3].layouts)
  BY RoomForOne DEF Page!Preset, Page!Required, Page!Optional
<1>5. Roomy(Page!Preset[4].elements, Page!Preset[4].layouts)
  BY RoomForOne DEF Page!Preset, Page!Required, Page!Optional
<1>6. Roomy(Page!Preset[5].elements, Page!Preset[5].layouts)
  BY RoomForOne DEF Page!Preset, Page!Required, Page!Optional
<1>7. \A i \in 1 .. 5 : i = 1 \/ i = 2 \/ i = 3 \/ i = 4 \/ i = 5
  OBVIOUS
<1> QED
  BY <1>1, <1>2, <1>3, <1>4, <1>5, <1>6, <1>7 DEF Range

(* themes, *)
LEMMA ThemeRoomy ==
    /\ DOMAIN Page!Theme = 1 .. 2 /\ Len(Page!Theme) = 2 /\ Page!Theme = [i \in 1 .. 2 |-> Page!Theme[i]]
    /\ \A d \in Range(Page!Theme) : Roomy(d.elements, d.layouts)
<1>1. DOMAIN Page!Theme = 1 .. 2 /\ Len(Page!Theme) = 2 /\ Page!Theme = [i \in 1 .. 2 |-> Page!Theme[i]]
  BY DEF Page!Theme
<1>2. Roomy(Page!Theme[1].elements, Page!Theme[1].layouts)
  BY RoomForTwo DEF Page!Theme, Page!Required, Page!Optional
<1>3. Roomy(Page!Theme[2].elements, Page!Theme[2].layouts)
  BY RoomForOne DEF Page!Theme, Page!Required, Page!Optional
<1>4. \A i \in 1 .. 2 : i = 1 \/ i = 2
  OBVIOUS
<1> QED
  BY <1>1, <1>2, <1>3, <1>4 DEF Range

(* packs, *)
LEMMA PackRoomy ==
    /\ DOMAIN Page!Pack = 1 .. 1 /\ Len(Page!Pack) = 1 /\ Page!Pack = [i \in 1 .. 1 |-> Page!Pack[i]]
    /\ \A d \in Range(Page!Pack) : Roomy(d.elements, d.layouts)
<1>1. DOMAIN Page!Pack = 1 .. 1 /\ Len(Page!Pack) = 1 /\ Page!Pack = [i \in 1 .. 1 |-> Page!Pack[i]]
  BY DEF Page!Pack
<1>2. Roomy(Page!Pack[1].elements, Page!Pack[1].layouts)
  BY RoomForOne DEF Page!Pack, Page!Required, Page!Optional
<1> QED
  BY <1>1, <1>2 DEF Range

(* the notes every kind may have, *)
LEMMA NotesRoomy ==
    /\ DOMAIN Page!Notes = 1 .. 6 /\ Len(Page!Notes) = 6 /\ Page!Notes = [i \in 1 .. 6 |-> Page!Notes[i]]
    /\ \A d \in Range(Page!Notes) : Roomy(d.elements, d.layouts)
<1>1. DOMAIN Page!Notes = 1 .. 6 /\ Len(Page!Notes) = 6 /\ Page!Notes = [i \in 1 .. 6 |-> Page!Notes[i]]
  BY DEF Page!Notes
<1>2. Roomy(Page!Notes[1].elements, Page!Notes[1].layouts)
  BY RoomForOne DEF Page!Notes, Page!Required, Page!Optional
<1>3. Roomy(Page!Notes[2].elements, Page!Notes[2].layouts)
  BY RoomForOne DEF Page!Notes, Page!Required, Page!Optional
<1>4. Roomy(Page!Notes[3].elements, Page!Notes[3].layouts)
  BY RoomForOne DEF Page!Notes, Page!Required, Page!Optional
<1>5. Roomy(Page!Notes[4].elements, Page!Notes[4].layouts)
  BY RoomForOne DEF Page!Notes, Page!Required, Page!Optional
<1>6. Roomy(Page!Notes[5].elements, Page!Notes[5].layouts)
  BY RoomForOne DEF Page!Notes, Page!Required, Page!Optional
<1>7. Roomy(Page!Notes[6].elements, Page!Notes[6].layouts)
  BY RoomForNone DEF Page!Notes, Page!Required, Page!Optional, Page!CustomBlock
<1>8. \A i \in 1 .. 6 : i = 1 \/ i = 2 \/ i = 3 \/ i = 4 \/ i = 5 \/ i = 6
  OBVIOUS
<1> QED
  BY <1>1, <1>2, <1>3, <1>4, <1>5, <1>6, <1>7, <1>8 DEF Range

(* and the gallery. *)
LEMMA GalleryRoomy == Roomy(Page!Gallery.elements, Page!Gallery.layouts)
BY RoomForOne DEF Page!Gallery, Page!Optional

IsListed(s) == Numbered(s) /\ s = [i \in DOMAIN s |-> s[i]]

(* What two joined lists hold. *)
LEMMA ListsJoined ==
    ASSUME NEW s, NEW t, IsListed(s), IsListed(t)
    PROVE  IsListed(s \o t) /\ Range(s \o t) = Range(s) \cup Range(t)
<1>1. PICK m \in Nat : DOMAIN s = 1 .. m
  BY DEF IsListed, Numbered
<1>2. PICK n \in Nat : DOMAIN t = 1 .. n
  BY DEF IsListed, Numbered
<1>3. PICK S : S = Range(s) \cup Range(t)
  OBVIOUS
<1>4. (\A i \in 1 .. m : s[i] \in S) /\ \A i \in 1 .. n : t[i] \in S
  BY <1>1, <1>2, <1>3 DEF Range
<1>5. s \in [1 .. m -> S] /\ t \in [1 .. n -> S]
  BY <1>1, <1>2, <1>4 DEF IsListed
<1>6. s \in Seq(S) /\ t \in Seq(S)
  BY <1>5
<1>7. s \o t \in Seq(S)
  BY <1>6, ConcatProperties
<1>8. IsListed(s \o t)
  <2>1. PICK u : u = s \o t
    OBVIOUS
  <2>2. Len(u) \in Nat /\ u \in [1 .. Len(u) -> S]
    BY <1>7, <2>1, LenProperties
  <2>3. Numbered(u) /\ u = [i \in DOMAIN u |-> u[i]]
    BY <2>2 DEF Numbered
  <2> QED
    BY <2>1, <2>3 DEF IsListed
<1> QED
  BY <1>6, <1>8, RangeConcatenation

(* All the blocks kinds share, *)
LEMMA SharedRoomy ==
    /\ IsListed(Page!Shared) /\ Page!Gallery \in Range(Page!Shared)
    /\ \A d \in Range(Page!Shared) : Roomy(d.elements, d.layouts)
<1>1. PICK g : g = <<Page!Gallery>>
  OBVIOUS
<1>2. IsListed(g) /\ Range(g) = {Page!Gallery}
  BY <1>1 DEF IsListed, Numbered, Range
<1>3. IsListed(Page!Notes)
  BY NotesRoomy DEF IsListed, Numbered
<1>4. Page!Shared = g \o Page!Notes
  BY <1>1 DEF Page!Shared
<1>5. IsListed(g \o Page!Notes) /\ Range(g \o Page!Notes) = {Page!Gallery} \cup Range(Page!Notes)
  BY <1>2, <1>3, ListsJoined
<1> QED
  BY <1>4, <1>5, GalleryRoomy, NotesRoomy

(* A kind's catalog is its own blocks and the ones every kind has. *)
LEMMA CatalogWhole ==
    ASSUME NEW own, IsListed(own), \A d \in Range(own) : Roomy(d.elements, d.layouts),
           NEW catalog, catalog = own \o Page!Shared
    PROVE  /\ Range(catalog) = Range(own) \cup Range(Page!Shared)
           /\ \A d \in Range(catalog) : Roomy(d.elements, d.layouts)
<1>1. Range(catalog) = Range(own) \cup Range(Page!Shared)
  BY SharedRoomy, ListsJoined
<1> QED
  BY <1>1, SharedRoomy

OwnBlocks(kind) ==
    CASE kind = "character" -> Page!Character
      [] kind = "lorebook" -> Page!LorebookKind
      [] kind = "preset" -> Page!Preset
      [] kind = "theme" -> Page!Theme
      [] kind = "pack" -> Page!Pack

(* all a kind has to itself, *)
LEMMA OwnRoomy ==
    ASSUME NEW kind \in Page!Kinds
    PROVE  IsListed(OwnBlocks(kind)) /\ \A d \in Range(OwnBlocks(kind)) : Roomy(d.elements, d.layouts)
<1>1. kind \in {"character", "lorebook", "preset", "theme", "pack"}
  BY DEF Page!Kinds
<1>2. CASE kind = "character"
  <2>1. OwnBlocks(kind) = Page!Character
    BY <1>2 DEF OwnBlocks
  <2> QED
    BY <2>1, CharacterRoomy DEF IsListed, Numbered
<1>3. CASE kind = "lorebook"
  <2>1. OwnBlocks(kind) = Page!LorebookKind
    BY <1>3 DEF OwnBlocks
  <2> QED
    BY <2>1, LorebookKindRoomy DEF IsListed, Numbered
<1>4. CASE kind = "preset"
  <2>1. OwnBlocks(kind) = Page!Preset
    BY <1>4 DEF OwnBlocks
  <2> QED
    BY <2>1, PresetRoomy DEF IsListed, Numbered
<1>5. CASE kind = "theme"
  <2>1. OwnBlocks(kind) = Page!Theme
    BY <1>5 DEF OwnBlocks
  <2> QED
    BY <2>1, ThemeRoomy DEF IsListed, Numbered
<1>6. CASE kind = "pack"
  <2>1. OwnBlocks(kind) = Page!Pack
    BY <1>6 DEF OwnBlocks
  <2> QED
    BY <2>1, PackRoomy DEF IsListed, Numbered
<1> QED
  BY <1>1, <1>2, <1>3, <1>4, <1>5, <1>6

(* and so its whole catalog. *)
LEMMA CatalogRoomy ==
    ASSUME NEW kind \in Page!Kinds
    PROVE  /\ Range(Page!Catalog(kind)) = Range(OwnBlocks(kind)) \cup Range(Page!Shared)
           /\ \A d \in Range(Page!Catalog(kind)) : Roomy(d.elements, d.layouts)
<1>1. PICK own : own = OwnBlocks(kind)
  OBVIOUS
<1>2. PICK catalog : catalog = Page!Catalog(kind)
  OBVIOUS
<1>3. catalog = own \o Page!Shared
  BY <1>1, <1>2 DEF Page!Catalog, OwnBlocks
<1>4. IsListed(own) /\ \A d \in Range(own) : Roomy(d.elements, d.layouts)
  BY <1>1, OwnRoomy
<1> QED
  BY <1>1, <1>2, <1>3, <1>4, CatalogWhole

(* The roles the readers of a kind make elements of. *)
RolesRead(kind) ==
    CASE kind = "character" -> {"description", "personality", "greetings", "example_dialogue",
                                "group_greetings", "lorebook_entries", "expressions", "gallery"}
      [] kind = "lorebook" -> {"lorebook_entries"}
      [] kind = "preset" -> PresetRolesRead
      [] kind = "theme" -> {"theme_tokens", "theme_controls", "stylesheets"}
      [] kind = "pack" -> {"pack_items"}

PlaceIn(d, role) == \E e \in Range(d.elements) : e.role = role /\ e.type = Page!RoleTypes[role]

(* What short lists hold. *)
LEMMA InTuple ==
    ASSUME NEW a, NEW b, NEW c
    PROVE  /\ a \in Range(<<a>>) /\ a \in Range(<<a, b>>) /\ b \in Range(<<a, b>>)
           /\ a \in Range(<<a, b, c>>) /\ b \in Range(<<a, b, c>>) /\ c \in Range(<<a, b, c>>)
BY DEF Range

(* Each role a reader fills has an element of its type in a block of its kind: characters, *)
LEMMA CharacterPlaces ==
    /\ PlaceIn(Page!Character[1], "description")
    /\ PlaceIn(Page!Character[1], "personality")
    /\ PlaceIn(Page!Character[2], "greetings")
    /\ PlaceIn(Page!Character[2], "example_dialogue")
    /\ PlaceIn(Page!Character[2], "group_greetings")
    /\ PlaceIn(Page!Character[3], "expressions")
    /\ PlaceIn(Page!Character[4], "lorebook_entries")
<1>1. PlaceIn(Page!Character[1], "description")
  <2>1. PICK e : e = Page!Pinned(Page!Rich("description"))
    OBVIOUS
  <2>2. Page!Character[1].elements = <<Page!Pinned(Page!Rich("description")), Page!Pinned(Page!Rich("personality")), Page!Pinned(Page!Rich("scenario"))>>
    BY DEF Page!Character, Page!Required, Page!Optional
  <2>3. e \in Range(Page!Character[1].elements)
    BY <2>1, <2>2, InTuple
  <2>4. e.role = "description" /\ e.type = Page!RoleTypes["description"]
    BY <2>1 DEF Page!Pinned, Page!Plain, Page!Rich, Page!Texts, Page!Defined, Page!RoleTypes
  <2> QED
    BY <2>3, <2>4 DEF PlaceIn
<1>2. PlaceIn(Page!Character[1], "personality")
  <2>1. PICK e : e = Page!Pinned(Page!Rich("personality"))
    OBVIOUS
  <2>2. Page!Character[1].elements = <<Page!Pinned(Page!Rich("description")), Page!Pinned(Page!Rich("personality")), Page!Pinned(Page!Rich("scenario"))>>
    BY DEF Page!Character, Page!Required, Page!Optional
  <2>3. e \in Range(Page!Character[1].elements)
    BY <2>1, <2>2, InTuple
  <2>4. e.role = "personality" /\ e.type = Page!RoleTypes["personality"]
    BY <2>1 DEF Page!Pinned, Page!Plain, Page!Rich, Page!Texts, Page!Defined, Page!RoleTypes
  <2> QED
    BY <2>3, <2>4 DEF PlaceIn
<1>3. PlaceIn(Page!Character[2], "greetings")
  <2>1. PICK e : e = Page!Pinned(Page!Texts("greetings"))
    OBVIOUS
  <2>2. Page!Character[2].elements = <<Page!Pinned(Page!Texts("greetings")), Page!Pinned(Page!Plain("example_dialogue")), Page!Texts("group_greetings")>>
    BY DEF Page!Character, Page!Required, Page!Optional
  <2>3. e \in Range(Page!Character[2].elements)
    BY <2>1, <2>2, InTuple
  <2>4. e.role = "greetings" /\ e.type = Page!RoleTypes["greetings"]
    BY <2>1 DEF Page!Pinned, Page!Plain, Page!Rich, Page!Texts, Page!Defined, Page!RoleTypes
  <2> QED
    BY <2>3, <2>4 DEF PlaceIn
<1>4. PlaceIn(Page!Character[2], "example_dialogue")
  <2>1. PICK e : e = Page!Pinned(Page!Plain("example_dialogue"))
    OBVIOUS
  <2>2. Page!Character[2].elements = <<Page!Pinned(Page!Texts("greetings")), Page!Pinned(Page!Plain("example_dialogue")), Page!Texts("group_greetings")>>
    BY DEF Page!Character, Page!Required, Page!Optional
  <2>3. e \in Range(Page!Character[2].elements)
    BY <2>1, <2>2, InTuple
  <2>4. e.role = "example_dialogue" /\ e.type = Page!RoleTypes["example_dialogue"]
    BY <2>1 DEF Page!Pinned, Page!Plain, Page!Rich, Page!Texts, Page!Defined, Page!RoleTypes
  <2> QED
    BY <2>3, <2>4 DEF PlaceIn
<1>5. PlaceIn(Page!Character[2], "group_greetings")
  <2>1. PICK e : e = Page!Texts("group_greetings")
    OBVIOUS
  <2>2. Page!Character[2].elements = <<Page!Pinned(Page!Texts("greetings")), Page!Pinned(Page!Plain("example_dialogue")), Page!Texts("group_greetings")>>
    BY DEF Page!Character, Page!Required, Page!Optional
  <2>3. e \in Range(Page!Character[2].elements)
    BY <2>1, <2>2, InTuple
  <2>4. e.role = "group_greetings" /\ e.type = Page!RoleTypes["group_greetings"]
    BY <2>1 DEF Page!Pinned, Page!Plain, Page!Rich, Page!Texts, Page!Defined, Page!RoleTypes
  <2> QED
    BY <2>3, <2>4 DEF PlaceIn
<1>6. PlaceIn(Page!Character[3], "expressions")
  <2>1. PICK e : e = Page!Defined("expressions", "image_set", "small")
    OBVIOUS
  <2>2. Page!Character[3].elements = <<Page!Defined("expressions", "image_set", "small")>>
    BY DEF Page!Character, Page!Required, Page!Optional
  <2>3. e \in Range(Page!Character[3].elements)
    BY <2>1, <2>2, InTuple
  <2>4. e.role = "expressions" /\ e.type = Page!RoleTypes["expressions"]
    BY <2>1 DEF Page!Pinned, Page!Plain, Page!Rich, Page!Texts, Page!Defined, Page!RoleTypes
  <2> QED
    BY <2>3, <2>4 DEF PlaceIn
<1>7. PlaceIn(Page!Character[4], "lorebook_entries")
  <2>1. PICK e : e = Page!Plain("lorebook_entries")
    OBVIOUS
  <2>2. Page!Character[4].elements = <<Page!Plain("lorebook_entries")>>
    BY DEF Page!Character, Page!Required, Page!Optional
  <2>3. e \in Range(Page!Character[4].elements)
    BY <2>1, <2>2, InTuple
  <2>4. e.role = "lorebook_entries" /\ e.type = Page!RoleTypes["lorebook_entries"]
    BY <2>1 DEF Page!Pinned, Page!Plain, Page!Rich, Page!Texts, Page!Defined, Page!RoleTypes
  <2> QED
    BY <2>3, <2>4 DEF PlaceIn
<1> QED
  BY <1>1, <1>2, <1>3, <1>4, <1>5, <1>6, <1>7

(* lorebooks, *)
LEMMA LorebookKindPlaces ==
    /\ PlaceIn(Page!LorebookKind[1], "lorebook_entries")
<1>1. PlaceIn(Page!LorebookKind[1], "lorebook_entries")
  <2>1. PICK e : e = Page!Pinned(Page!Plain("lorebook_entries"))
    OBVIOUS
  <2>2. Page!LorebookKind[1].elements = <<Page!Pinned(Page!Plain("lorebook_entries"))>>
    BY DEF Page!LorebookKind, Page!Required, Page!Optional
  <2>3. e \in Range(Page!LorebookKind[1].elements)
    BY <2>1, <2>2, InTuple
  <2>4. e.role = "lorebook_entries" /\ e.type = Page!RoleTypes["lorebook_entries"]
    BY <2>1 DEF Page!Pinned, Page!Plain, Page!Rich, Page!Texts, Page!Defined, Page!RoleTypes
  <2> QED
    BY <2>3, <2>4 DEF PlaceIn
<1> QED
  BY <1>1

(* presets, *)
LEMMA PresetPlaces ==
    /\ PlaceIn(Page!Preset[1], "prompt_fragments")
    /\ PlaceIn(Page!Preset[2], "sampler_settings")
    /\ PlaceIn(Page!Preset[3], "prompt_variables")
    /\ PlaceIn(Page!Preset[4], "regex_scripts")
    /\ PlaceIn(Page!Preset[5], "prompt_nudges")
<1>1. PlaceIn(Page!Preset[1], "prompt_fragments")
  <2>1. PICK e : e = Page!Pinned(Page!Plain("prompt_fragments"))
    OBVIOUS
  <2>2. Page!Preset[1].elements = <<Page!Pinned(Page!Plain("prompt_fragments"))>>
    BY DEF Page!Preset, Page!Required, Page!Optional
  <2>3. e \in Range(Page!Preset[1].elements)
    BY <2>1, <2>2, InTuple
  <2>4. e.role = "prompt_fragments" /\ e.type = Page!RoleTypes["prompt_fragments"]
    BY <2>1 DEF Page!Pinned, Page!Plain, Page!Rich, Page!Texts, Page!Defined, Page!RoleTypes
  <2> QED
    BY <2>3, <2>4 DEF PlaceIn
<1>2. PlaceIn(Page!Preset[2], "sampler_settings")
  <2>1. PICK e : e = Page!Plain("sampler_settings")
    OBVIOUS
  <2>2. Page!Preset[2].elements = <<Page!Plain("sampler_settings"), Page!Plain("completion_settings"), Page!Plain("advanced_settings")>>
    BY DEF Page!Preset, Page!Required, Page!Optional
  <2>3. e \in Range(Page!Preset[2].elements)
    BY <2>1, <2>2, InTuple
  <2>4. e.role = "sampler_settings" /\ e.type = Page!RoleTypes["sampler_settings"]
    BY <2>1 DEF Page!Pinned, Page!Plain, Page!Rich, Page!Texts, Page!Defined, Page!RoleTypes
  <2> QED
    BY <2>3, <2>4 DEF PlaceIn
<1>3. PlaceIn(Page!Preset[3], "prompt_variables")
  <2>1. PICK e : e = Page!Plain("prompt_variables")
    OBVIOUS
  <2>2. Page!Preset[3].elements = <<Page!Plain("prompt_variables")>>
    BY DEF Page!Preset, Page!Required, Page!Optional
  <2>3. e \in Range(Page!Preset[3].elements)
    BY <2>1, <2>2, InTuple
  <2>4. e.role = "prompt_variables" /\ e.type = Page!RoleTypes["prompt_variables"]
    BY <2>1 DEF Page!Pinned, Page!Plain, Page!Rich, Page!Texts, Page!Defined, Page!RoleTypes
  <2> QED
    BY <2>3, <2>4 DEF PlaceIn
<1>4. PlaceIn(Page!Preset[4], "regex_scripts")
  <2>1. PICK e : e = Page!Plain("regex_scripts")
    OBVIOUS
  <2>2. Page!Preset[4].elements = <<Page!Plain("regex_scripts")>>
    BY DEF Page!Preset, Page!Required, Page!Optional
  <2>3. e \in Range(Page!Preset[4].elements)
    BY <2>1, <2>2, InTuple
  <2>4. e.role = "regex_scripts" /\ e.type = Page!RoleTypes["regex_scripts"]
    BY <2>1 DEF Page!Pinned, Page!Plain, Page!Rich, Page!Texts, Page!Defined, Page!RoleTypes
  <2> QED
    BY <2>3, <2>4 DEF PlaceIn
<1>5. PlaceIn(Page!Preset[5], "prompt_nudges")
  <2>1. PICK e : e = Page!Defined("prompt_nudges", "text_set", "verbatim")
    OBVIOUS
  <2>2. Page!Preset[5].elements = <<Page!Defined("prompt_nudges", "text_set", "verbatim")>>
    BY DEF Page!Preset, Page!Required, Page!Optional
  <2>3. e \in Range(Page!Preset[5].elements)
    BY <2>1, <2>2, InTuple
  <2>4. e.role = "prompt_nudges" /\ e.type = Page!RoleTypes["prompt_nudges"]
    BY <2>1 DEF Page!Pinned, Page!Plain, Page!Rich, Page!Texts, Page!Defined, Page!RoleTypes
  <2> QED
    BY <2>3, <2>4 DEF PlaceIn
<1> QED
  BY <1>1, <1>2, <1>3, <1>4, <1>5

(* themes, *)
LEMMA ThemePlaces ==
    /\ PlaceIn(Page!Theme[1], "theme_tokens")
    /\ PlaceIn(Page!Theme[1], "theme_controls")
    /\ PlaceIn(Page!Theme[2], "stylesheets")
<1>1. PlaceIn(Page!Theme[1], "theme_tokens")
  <2>1. PICK e : e = Page!Pinned(Page!Plain("theme_tokens"))
    OBVIOUS
  <2>2. Page!Theme[1].elements = <<Page!Pinned(Page!Plain("theme_tokens")), Page!Pinned(Page!Plain("theme_controls"))>>
    BY DEF Page!Theme, Page!Required, Page!Optional
  <2>3. e \in Range(Page!Theme[1].elements)
    BY <2>1, <2>2, InTuple
  <2>4. e.role = "theme_tokens" /\ e.type = Page!RoleTypes["theme_tokens"]
    BY <2>1 DEF Page!Pinned, Page!Plain, Page!Rich, Page!Texts, Page!Defined, Page!RoleTypes
  <2> QED
    BY <2>3, <2>4 DEF PlaceIn
<1>2. PlaceIn(Page!Theme[1], "theme_controls")
  <2>1. PICK e : e = Page!Pinned(Page!Plain("theme_controls"))
    OBVIOUS
  <2>2. Page!Theme[1].elements = <<Page!Pinned(Page!Plain("theme_tokens")), Page!Pinned(Page!Plain("theme_controls"))>>
    BY DEF Page!Theme, Page!Required, Page!Optional
  <2>3. e \in Range(Page!Theme[1].elements)
    BY <2>1, <2>2, InTuple
  <2>4. e.role = "theme_controls" /\ e.type = Page!RoleTypes["theme_controls"]
    BY <2>1 DEF Page!Pinned, Page!Plain, Page!Rich, Page!Texts, Page!Defined, Page!RoleTypes
  <2> QED
    BY <2>3, <2>4 DEF PlaceIn
<1>3. PlaceIn(Page!Theme[2], "stylesheets")
  <2>1. PICK e : e = Page!Pinned(Page!Plain("stylesheets"))
    OBVIOUS
  <2>2. Page!Theme[2].elements = <<Page!Pinned(Page!Plain("stylesheets"))>>
    BY DEF Page!Theme, Page!Required, Page!Optional
  <2>3. e \in Range(Page!Theme[2].elements)
    BY <2>1, <2>2, InTuple
  <2>4. e.role = "stylesheets" /\ e.type = Page!RoleTypes["stylesheets"]
    BY <2>1 DEF Page!Pinned, Page!Plain, Page!Rich, Page!Texts, Page!Defined, Page!RoleTypes
  <2> QED
    BY <2>3, <2>4 DEF PlaceIn
<1> QED
  BY <1>1, <1>2, <1>3

(* packs, *)
LEMMA PackPlaces ==
    /\ PlaceIn(Page!Pack[1], "pack_items")
<1>1. PlaceIn(Page!Pack[1], "pack_items")
  <2>1. PICK e : e = Page!Pinned(Page!Plain("pack_items"))
    OBVIOUS
  <2>2. Page!Pack[1].elements = <<Page!Pinned(Page!Plain("pack_items"))>>
    BY DEF Page!Pack, Page!Required, Page!Optional
  <2>3. e \in Range(Page!Pack[1].elements)
    BY <2>1, <2>2, InTuple
  <2>4. e.role = "pack_items" /\ e.type = Page!RoleTypes["pack_items"]
    BY <2>1 DEF Page!Pinned, Page!Plain, Page!Rich, Page!Texts, Page!Defined, Page!RoleTypes
  <2> QED
    BY <2>3, <2>4 DEF PlaceIn
<1> QED
  BY <1>1

(* and the gallery, which all share. *)
LEMMA GalleryPlaces == PlaceIn(Page!Gallery, "gallery")
<1>1. 1 \in DOMAIN Page!Gallery.elements
  BY DEF Page!Gallery, Page!Optional
<1>2. /\ Page!Gallery.elements[1].role = "gallery"
      /\ Page!Gallery.elements[1].type = Page!RoleTypes["gallery"]
  BY DEF Page!Gallery, Page!Optional, Page!Defined, Page!RoleTypes
<1> QED
  BY <1>1, <1>2 DEF PlaceIn, Range

(* So the catalog of the kind has a place for it. *)
LEMMA EveryRolePlaced ==
    ASSUME NEW kind \in Page!Kinds, NEW role \in RolesRead(kind)
    PROVE  \E d \in Range(Page!Catalog(kind)) : PlaceIn(d, role)
<1>0. kind \in {"character", "lorebook", "preset", "theme", "pack"}
  BY DEF Page!Kinds
<1>1. Range(Page!Catalog(kind)) = Range(OwnBlocks(kind)) \cup Range(Page!Shared)
  BY CatalogRoomy
<1>2. CASE kind = "character"
  <2>1. OwnBlocks(kind) = Page!Character
    BY <1>2 DEF OwnBlocks
  <2>2. Page!Character[1] \in Range(Page!Character) /\ Page!Character[2] \in Range(Page!Character) /\ Page!Character[3] \in Range(Page!Character) /\ Page!Character[4] \in Range(Page!Character)
    BY CharacterRoomy DEF Range
  <2>3. role \in {"description", "personality", "greetings", "example_dialogue", "group_greetings", "expressions", "lorebook_entries", "gallery"}
    BY <1>2 DEF RolesRead, PresetRolesRead
  <2> QED
    BY <1>1, <2>1, <2>2, <2>3, CharacterPlaces, GalleryPlaces, SharedRoomy
<1>3. CASE kind = "lorebook"
  <2>1. OwnBlocks(kind) = Page!LorebookKind
    BY <1>3 DEF OwnBlocks
  <2>2. Page!LorebookKind[1] \in Range(Page!LorebookKind)
    BY LorebookKindRoomy DEF Range
  <2>3. role \in {"lorebook_entries"}
    BY <1>3 DEF RolesRead, PresetRolesRead
  <2> QED
    BY <1>1, <2>1, <2>2, <2>3, LorebookKindPlaces
<1>4. CASE kind = "preset"
  <2>1. OwnBlocks(kind) = Page!Preset
    BY <1>4 DEF OwnBlocks
  <2>2. Page!Preset[1] \in Range(Page!Preset) /\ Page!Preset[2] \in Range(Page!Preset) /\ Page!Preset[3] \in Range(Page!Preset) /\ Page!Preset[4] \in Range(Page!Preset) /\ Page!Preset[5] \in Range(Page!Preset)
    BY PresetRoomy DEF Range
  <2>3. role \in {"prompt_fragments", "sampler_settings", "prompt_variables", "regex_scripts", "prompt_nudges"}
    BY <1>4 DEF RolesRead, PresetRolesRead
  <2> QED
    BY <1>1, <2>1, <2>2, <2>3, PresetPlaces
<1>5. CASE kind = "theme"
  <2>1. OwnBlocks(kind) = Page!Theme
    BY <1>5 DEF OwnBlocks
  <2>2. Page!Theme[1] \in Range(Page!Theme) /\ Page!Theme[2] \in Range(Page!Theme)
    BY ThemeRoomy DEF Range
  <2>3. role \in {"theme_tokens", "theme_controls", "stylesheets"}
    BY <1>5 DEF RolesRead, PresetRolesRead
  <2> QED
    BY <1>1, <2>1, <2>2, <2>3, ThemePlaces
<1>6. CASE kind = "pack"
  <2>1. OwnBlocks(kind) = Page!Pack
    BY <1>6 DEF OwnBlocks
  <2>2. Page!Pack[1] \in Range(Page!Pack)
    BY PackRoomy DEF Range
  <2>3. role \in {"pack_items"}
    BY <1>6 DEF RolesRead, PresetRolesRead
  <2> QED
    BY <1>1, <2>1, <2>2, <2>3, PackPlaces
<1> QED
  BY <1>0, <1>2, <1>3, <1>4, <1>5, <1>6

(* The catalog counts as the readers do. *)
LEMMA PageCardinality ==
    ASSUME NEW S
    PROVE  Page!Cardinality(S) = Cardinality(S)
BY DEF Page!Cardinality, Cardinality

(* Whichever of a block's elements a file has, one layout holds them. *)
LEMMA RoomForPresent ==
    ASSUME NEW d, Roomy(d.elements, d.layouts), NEW tagged
    PROVE  Page!LayoutFor(d, Len(Page!Present(d, tagged))) # Page!None
<1>1. PICK n \in 0 .. 3 : /\ DOMAIN d.elements = 1 .. n
                          /\ \E j \in DOMAIN d.layouts : Len(Page!Slots(d.layouts[j])) >= n
  BY DEF Roomy
<1>2. PICK keep : keep = {i \in DOMAIN d.elements : d.elements[i].pinned
                                                   \/ Page!Fits(d.elements[i], tagged) # {}}
  OBVIOUS
<1>3. keep \in SUBSET (1 .. n)
  BY <1>1, <1>2
<1>4. IsFiniteSet(1 .. n) /\ Cardinality(1 .. n) = n
  <2>1. n \in Nat /\ n \in Int /\ 1 \in Int
    OBVIOUS
  <2>2. IsFiniteSet(1 .. n) /\ Cardinality(1 .. n) = IF 1 > n THEN 0 ELSE n - 1 + 1
    BY <2>1, FS_Interval
  <2> QED
    BY <2>1, <2>2
<1>5. Cardinality(keep) \in Nat /\ Cardinality(keep) <= n
  BY <1>3, <1>4, FS_Subset, FS_CardinalityType
<1>6. PICK count : count = Cardinality(keep)
  OBVIOUS
<1>7. Len(Page!Present(d, tagged)) = count
  <2>1. Page!Present(d, tagged) = Page!Kept(d.elements, keep)
    BY <1>2 DEF Page!Present
  <2>2. PICK s : s = Page!Kept(d.elements, keep)
    OBVIOUS
  <2>3. DOMAIN s = 1 .. count /\ s = [m \in 1 .. count |-> s[m]]
    BY <1>6, <2>2, PageCardinality DEF Page!Kept
  <2> QED
    BY <1>5, <1>6, <2>1, <2>2, <2>3
<1>8. PICK fit : fit = {i \in DOMAIN d.layouts : Len(Page!Slots(d.layouts[i])) >= count}
  OBVIOUS
<1>9. fit # {} /\ fit \in SUBSET Nat
  BY <1>1, <1>5, <1>6, <1>8 DEF Roomy
<1>10. PICK first : first = First(fit)
  OBVIOUS
<1>11. first \in fit
  BY <1>9, <1>10, LeastNat
<1>12. Page!LayoutFor(d, count) = d.layouts[first]
  BY <1>8, <1>9, <1>10 DEF Page!LayoutFor, First
<1>13. d.layouts[first] # Page!None
  BY <1>8, <1>11 DEF Roomy
<1> QED
  BY <1>7, <1>12, <1>13

(* What a reader's roles need to be placed. *)
LEMMA RolesPlaced ==
    ASSUME NEW kind \in Page!Kinds, NEW roles \in SUBSET RolesRead(kind)
    PROVE  Page!HasPlaceForAll(kind, [role \in roles |-> Tag(role)])
<1>1. PICK tagged : tagged = [role \in roles |-> Tag(role)]
  OBVIOUS
<1>2. /\ DOMAIN tagged = roles
      /\ \A role \in roles : tagged[role].role = role /\ tagged[role].type = Page!RoleTypes[role]
  BY <1>1 DEF Tag
<1>3. ASSUME NEW e
      PROVE  Cardinality(Page!Fits(e, tagged)) <= 1
  <2>1. Page!Fits(e, tagged) \in SUBSET {e.role}
    BY <1>2 DEF Page!Fits
  <2>2. Page!Fits(e, tagged) = {} \/ Page!Fits(e, tagged) = {e.role}
    BY <2>1
  <2>3. Cardinality({}) = 0 /\ Cardinality({e.role}) = 1
    BY FS_EmptySet, FS_Singleton
  <2> QED
    BY <2>2, <2>3
<1>4. PICK catalog : catalog = Page!Catalog(kind)
  OBVIOUS
<1>5. PICK places : places = UNION {Page!Images(d.elements) : d \in Page!Images(catalog)}
  OBVIOUS
<1>6. ASSUME NEW role \in roles
      PROVE  \E e \in places : role \in Page!Fits(e, tagged)
  <2>1. PICK d \in Range(catalog) : PlaceIn(d, role)
    BY <1>4, EveryRolePlaced
  <2>2. PICK e \in Range(d.elements) : e.role = role /\ e.type = Page!RoleTypes[role]
    BY <2>1 DEF PlaceIn
  <2>3. e \in places
    BY <1>5, <2>1, <2>2 DEF Page!Images, Range
  <2>4. role \in Page!Fits(e, tagged)
    BY <1>2, <2>2 DEF Page!Fits
  <2> QED
    BY <2>3, <2>4
<1>7. \A d \in Page!Images(catalog) : Page!LayoutFor(d, Len(Page!Present(d, tagged))) # Page!None
  BY <1>4, CatalogRoomy, RoomForPresent DEF Page!Images, Range
<1>8. places = UNION {Page!Images(d.elements) : d \in Page!Images(Page!Catalog(kind))}
  BY <1>4, <1>5
<1>9. Page!HasPlaceForAll(kind, tagged)
  <2>1. \A e \in places : Page!Cardinality(Page!Fits(e, tagged)) <= 1
    BY <1>3, PageCardinality
  <2>2. \A i \in DOMAIN tagged : \E e \in places : i \in Page!Fits(e, tagged)
    BY <1>2, <1>6
  <2>3. \A d \in Page!Images(Page!Catalog(kind)) :
            Page!LayoutFor(d, Len(Page!Present(d, tagged))) # Page!None
    BY <1>4, <1>7
  <2> QED
    BY <1>8, <2>1, <2>2, <2>3, Zenon DEF Page!HasPlaceForAll
<1> QED
  BY <1>1, <1>9

-----------------------------------------------------------------------------
(* The readers.  What a reader makes has a kind, roles its page has a place for, and *)
(* no sealed text among its fragments.                                            *)
WellRead(a) ==
    /\ a.kind \in Page!Kinds /\ DOMAIN a.content \subseteq RolesRead(a.kind)
    /\ "prompt_fragments" \in DOMAIN a.content =>
         \A f \in Range(a.content["prompt_fragments"].fragments) : SealedApart(a, f)

(* For the kinds that have no prompts, their roles are all there is to show. *)
LEMMA WithoutPrompts ==
    ASSUME NEW a, a.kind \in {"character", "lorebook", "theme", "pack"},
           DOMAIN a.content \subseteq RolesRead(a.kind)
    PROVE  WellRead(a)
<1>1. "prompt_fragments" \notin RolesRead(a.kind)
  BY DEF RolesRead
<1>2. a.kind \in Page!Kinds
  BY DEF Page!Kinds
<1> QED
  BY <1>1, <1>2 DEF WellRead

(* A card of any version fills roles of characters only. *)
LEMMA CardContents ==
    ASSUME NEW id, NEW opened
    PROVE  DOMAIN CardContent(id, opened) \subseteq RolesRead("character")
<1> DEFINE group == ListOf(opened.body, "group_only_greetings")
           a == [description |-> TextOf(opened.body, "description"),
                 personality |-> TextOf(opened.body, "personality"),
                 greetings |-> Greetings(opened.body), example_dialogue |-> Dialogue(opened.body)]
           b == WriteIfSet("group_greetings", id # V2 /\ group # <<>>, Unnamed(group))
           c == WriteIfSet("lorebook_entries", Found(opened), ReadEntries(opened.book.entries))
           d == WriteIfSet("expressions", Pictured(opened, "emotion") # <<>>, Pictured(opened, "emotion"))
           e == WriteIfSet("gallery", Pictured(opened, "x_gallery") # <<>>, Pictured(opened, "x_gallery"))
<1>1. CardContent(id, opened) = a @@ b @@ c @@ d @@ e
  BY Zenon DEF CardContent
<1>2. /\ DOMAIN b \subseteq {"group_greetings"} /\ DOMAIN c \subseteq {"lorebook_entries"}
      /\ DOMAIN d \subseteq {"expressions"} /\ DOMAIN e \subseteq {"gallery"}
  BY SetKeys
<1>3. DOMAIN a = {"description", "personality", "greetings", "example_dialogue"}
  OBVIOUS
<1> HIDE DEF a, b, c, d, e
<1>4. DOMAIN CardContent(id, opened) = DOMAIN a \cup DOMAIN b \cup DOMAIN c \cup DOMAIN d \cup DOMAIN e
  BY <1>1 DEF @@
<1> QED
  BY <1>2, <1>3, <1>4 DEF RolesRead

(* character: v2, v3 and CharX. *)
LEMMA CardWellRead ==
    ASSUME NEW id, NEW opened, ParseCard(id, opened) # Unreadable
    PROVE  WellRead(ParseCard(id, opened))
<1>1. PICK a : a = ParseCard(id, opened)
  OBVIOUS
<1>2. a.kind = "character" /\ a.content = CardContent(id, opened)
  BY <1>1 DEF ParseCard, Parsed
<1>3. WellRead(a)
  BY <1>2, CardContents, WithoutPrompts
<1> QED
  BY <1>1, <1>3

(* lorebook: listed and keyed. *)
LEMMA BooksWellRead ==
    ASSUME NEW opened
    PROVE  WellRead(ParseListed(opened)) /\ WellRead(ParseKeyed(opened))
<1>1. PICK a : a = ParseListed(opened)
  OBVIOUS
<1>2. PICK b : b = ParseKeyed(opened)
  OBVIOUS
<1>3. a.kind = "lorebook" /\ DOMAIN a.content = {"lorebook_entries"}
  BY <1>1 DEF ParseListed, Parsed
<1>4. b.kind = "lorebook" /\ DOMAIN b.content = {"lorebook_entries"}
  BY <1>2 DEF ParseKeyed, Parsed
<1>5. WellRead(a) /\ WellRead(b)
  BY <1>3, <1>4, WithoutPrompts DEF RolesRead
<1> QED
  BY <1>1, <1>2, <1>5

(* pack. *)
LEMMA PackRead ==
    ASSUME NEW opened, NEW a, a = ParsePack(opened), a # Unreadable
    PROVE  DOMAIN a = ParsedKeys /\ a.kind = "pack" /\ DOMAIN a.content = {"pack_items"}
BY DEF ParsePack, Parsed, ParsedKeys

(* A pack is well read. *)
LEMMA PackWellRead ==
    ASSUME NEW opened, ParsePack(opened) # Unreadable
    PROVE  WellRead(ParsePack(opened))
<1>1. PICK a : a = ParsePack(opened)
  OBVIOUS
<1>2. a.kind = "pack" /\ DOMAIN a.content = {"pack_items"}
  BY <1>1, PackRead
<1>3. WellRead(a)
  BY <1>2, WithoutPrompts DEF RolesRead
<1> QED
  BY <1>1, <1>3

(* theme: Lumiverse, *)
LEMMA ThemeRead ==
    ASSUME NEW opened, NEW a, a = ParseLumiverseTheme(opened), a # Unreadable
    PROVE  /\ DOMAIN a = ParsedKeys /\ a.kind = "theme"
           /\ DOMAIN a.content \subseteq {"theme_tokens", "theme_controls", "stylesheets"}
<1> DEFINE theme == FieldsAt(opened.root, "theme")
           palette == ReadPalette(FieldsAt(theme, "baseColorsByMode"))
           controls == ReadControls(theme, LumiverseTheme)
           styles == ReadStyles(opened.root, opened.files)
           p == [theme_tokens |-> palette]
           b == WriteIfSet("theme_controls", controls # <<>>, controls)
           c == WriteIfSet("stylesheets", ~StylesEmpty(styles), styles)
<1>1. DOMAIN a = ParsedKeys /\ a.kind = "theme" /\ a.content = p @@ b @@ c
  BY DEF ParseLumiverseTheme, Parsed, ParsedKeys
<1>2. DOMAIN b \subseteq {"theme_controls"} /\ DOMAIN c \subseteq {"stylesheets"}
  BY SetKeys
<1>3. DOMAIN p = {"theme_tokens"}
  OBVIOUS
<1> HIDE DEF p, b, c
<1>4. DOMAIN a.content = DOMAIN p \cup DOMAIN b \cup DOMAIN c
  BY <1>1 DEF @@
<1> QED
  BY <1>1, <1>2, <1>3, <1>4

(* and SillyTavern. *)
LEMMA SillyTavernThemeRead ==
    ASSUME NEW opened, NEW a, a = ParseSillyTavernTheme(opened)
    PROVE  /\ a.kind = "theme"
           /\ DOMAIN a.content \subseteq {"theme_tokens", "theme_controls", "stylesheets"}
<1> DEFINE root == opened.root
           controls == ReadControls(root, SillyTavernTheme)
           p == [theme_tokens |-> <<[name |-> NoText, colors |-> ReadColors(root, SillyTavernTheme)]>>]
           b == WriteIfSet("theme_controls", controls # <<>>, controls)
           c == WriteIfSet("stylesheets", Takes(root, "custom_css", "string"),
                    [NoStyles EXCEPT !.global = TextOf(root, "custom_css")])
<1>1. a.kind = "theme" /\ a.content = p @@ b @@ c
  BY DEF ParseSillyTavernTheme, Parsed
<1>2. DOMAIN b \subseteq {"theme_controls"} /\ DOMAIN c \subseteq {"stylesheets"}
  BY SetKeys
<1>3. DOMAIN p = {"theme_tokens"}
  OBVIOUS
<1> HIDE DEF p, b, c
<1>4. DOMAIN a.content = DOMAIN p \cup DOMAIN b \cup DOMAIN c
  BY <1>1 DEF @@
<1> QED
  BY <1>1, <1>2, <1>3, <1>4

(* Themes are well read. *)
LEMMA ThemesWellRead ==
    ASSUME NEW opened
    PROVE  /\ ParseLumiverseTheme(opened) # Unreadable => WellRead(ParseLumiverseTheme(opened))
           /\ WellRead(ParseSillyTavernTheme(opened))
<1>1. PICK a : a = ParseLumiverseTheme(opened)
  OBVIOUS
<1>2. PICK b : b = ParseSillyTavernTheme(opened)
  OBVIOUS
<1>3. ASSUME a # Unreadable
      PROVE  WellRead(a)
  BY <1>1, <1>3, ThemeRead, WithoutPrompts DEF RolesRead
<1>4. WellRead(b)
  BY <1>2, SillyTavernThemeRead, WithoutPrompts DEF RolesRead
<1> QED
  BY <1>1, <1>2, <1>3, <1>4

(* preset: Lumiverse and SillyTavern. *)
LEMMA PresetsWellRead ==
    ASSUME NEW opened
    PROVE  /\ ParseLumiverse(opened) # Unreadable => WellRead(ParseLumiverse(opened))
           /\ ParseSillyTavern(opened) # Unreadable => WellRead(ParseSillyTavern(opened))
<1>1. PICK a : a = ParseLumiverse(opened)
  OBVIOUS
<1>2. PICK b : b = ParseSillyTavern(opened)
  OBVIOUS
<1>3. "preset" \in Page!Kinds /\ RolesRead("preset") = PresetRolesRead
  BY DEF Page!Kinds, RolesRead
<1>4. ASSUME a # Unreadable
      PROVE  WellRead(a)
  <2>1. a.kind = "preset" /\ DOMAIN a.content \subseteq PresetRolesRead
    BY <1>1, <1>4, LumiverseRead, LumiverseContents
  <2>2. \A f \in Range(a.content["prompt_fragments"].fragments) : SealedApart(a, f)
    BY <1>1, <1>4, LumiverseSealed
  <2> QED
    BY <1>3, <2>1, <2>2 DEF WellRead
<1>5. ASSUME b # Unreadable
      PROVE  WellRead(b)
  <2>1. PICK prompts : prompts = SillyTavernPrompts(opened.root)
    OBVIOUS
  <2>2. b.kind = "preset" /\ b.content = SillyTavernContent(opened.root, prompts)
    BY <1>2, <1>5, <2>1, SillyTavernRead
  <2>3. DOMAIN b.content \subseteq PresetRolesRead
    BY <2>2, SillyTavernContents
  <2>4. \A f \in Range(b.content["prompt_fragments"].fragments) : SealedApart(b, f)
    BY <1>2, <1>5, SillyTavernUnsealed
  <2> QED
    BY <1>3, <2>2, <2>3, <2>4 DEF WellRead
<1> QED
  BY <1>1, <1>2, <1>4, <1>5

-----------------------------------------------------------------------------
(* The rows of the old site *)

(* The readers of old rows: characters, *)
LEMMA CharacterRowRead ==
    ASSUME NEW row, ReadCharacter(row) # Unreadable
    PROVE  WellRead(ReadCharacter(row))
<1> DEFINE recovered == IF row.recovery = {} THEN <<>> ELSE <<CHOOSE g \in row.recovery : TRUE>>
           group == Strings(row.group)
           expressions == Images(row, {"expression"})
           gallery == Images(row, GalleryTypes)
           p == [description |-> row.description, personality |-> row.personality,
                 greetings |-> TextItems(row.first, Strings(row.alternates) \o recovered),
                 example_dialogue |-> DialogueTurns(row.example)]
           b == WriteIfSet("group_greetings", group # <<>>, Unnamed(group))
           c == WriteIfSet("lorebook_entries", BookRead(row), ReadEntries(row.book.entries))
           d == WriteIfSet("expressions", expressions # <<>>, <<"picture">>)
           e == WriteIfSet("gallery", gallery # <<>>, <<"picture">>)
<1>1. PICK a : a = ReadCharacter(row)
  OBVIOUS
<1>2. a.kind = "character" /\ a.content = p @@ b @@ c @@ d @@ e
  BY <1>1 DEF ReadCharacter, Parsed
<1>3. /\ DOMAIN b \subseteq {"group_greetings"} /\ DOMAIN c \subseteq {"lorebook_entries"}
      /\ DOMAIN d \subseteq {"expressions"} /\ DOMAIN e \subseteq {"gallery"}
  BY SetKeys
<1>4. DOMAIN p = {"description", "personality", "greetings", "example_dialogue"}
  OBVIOUS
<1> HIDE DEF p, b, c, d, e
<1>5. DOMAIN a.content = DOMAIN p \cup DOMAIN b \cup DOMAIN c \cup DOMAIN d \cup DOMAIN e
  BY <1>2 DEF @@
<1>6. DOMAIN a.content \subseteq RolesRead("character")
  BY <1>3, <1>4, <1>5 DEF RolesRead
<1>7. WellRead(a)
  BY <1>2, <1>6, WithoutPrompts
<1> QED
  BY <1>1, <1>7

(* lorebooks, *)
LEMMA LorebookRowRead ==
    ASSUME NEW row, ReadLorebook(row) # Unreadable
    PROVE  WellRead(ReadLorebook(row))
<1>1. PICK a : a = ReadLorebook(row)
  OBVIOUS
<1>2. a.kind = "lorebook" /\ DOMAIN a.content = {"lorebook_entries"}
  BY <1>1 DEF ReadLorebook, Parsed
<1>3. WellRead(a)
  BY <1>2, WithoutPrompts DEF RolesRead
<1> QED
  BY <1>1, <1>3

(* presets, *)
LEMMA PresetRowWellRead ==
    ASSUME NEW row, ReadPreset(row) # Unreadable
    PROVE  WellRead(ReadPreset(row))
<1>1. PICK a : a = ReadPreset(row)
  OBVIOUS
<1>2. PICK parsed : parsed = ParseLumiverse(row.payload)
  OBVIOUS
<1>3. a.kind = "preset" /\ DOMAIN a.content = DOMAIN parsed.content
  BY <1>1, <1>2, PresetRowContent
<1>4. parsed # Unreadable
  BY <1>1, <1>2, PresetRowRead
<1>5. DOMAIN parsed.content \subseteq PresetRolesRead
  BY <1>2, <1>4, LumiverseRead, LumiverseContents
<1>6. "preset" \in Page!Kinds /\ RolesRead("preset") = PresetRolesRead
  BY DEF Page!Kinds, RolesRead
<1>7. \A f \in Range(a.content["prompt_fragments"].fragments) : SealedApart(a, f)
  BY <1>1, OldPresetSealed
<1>8. WellRead(a)
  BY <1>3, <1>5, <1>6, <1>7 DEF WellRead
<1> QED
  BY <1>1, <1>8

(* (fonts go into the stylesheets) *)
LEMMA FontsAttached ==
    ASSUME NEW content, NEW fonts
    PROVE  DOMAIN AttachFonts(content, fonts) \subseteq DOMAIN content \cup {"stylesheets"}
BY DEF AttachFonts, @@, :>

(* themes, *)
LEMMA ThemeRowRead ==
    ASSUME NEW row, ReadTheme(row) # Unreadable
    PROVE  WellRead(ReadTheme(row))
<1>1. PICK a : a = ReadTheme(row)
  OBVIOUS
<1>2. PICK parsed : parsed = ParseLumiverseTheme(ThemeFile(LumiverseTheme, "zip", ThemeRoot(row), {}))
  OBVIOUS
<1>3. PICK header : header = Header(row.name, NoText, BoundBlurb(row.description))
  OBVIOUS
<1>4. /\ parsed # Unreadable
      /\ a = [parsed EXCEPT
                !.origin = OriginV1, !.content = AttachFonts(@, row.fonts), !.header = header,
                !.preserved = StripRemainder(@, LumiverseTheme, {"name", "description"})]
  BY <1>1, <1>2, <1>3 DEF ReadTheme
<1>5. /\ DOMAIN parsed = ParsedKeys /\ parsed.kind = "theme"
      /\ DOMAIN parsed.content \subseteq {"theme_tokens", "theme_controls", "stylesheets"}
  BY <1>2, <1>4, ThemeRead
<1>6. a.kind = "theme" /\ a.content = AttachFonts(parsed.content, row.fonts)
  BY <1>4, <1>5 DEF ParsedKeys
<1>7. DOMAIN a.content \subseteq {"theme_tokens", "theme_controls", "stylesheets"}
  BY <1>5, <1>6, FontsAttached
<1>8. WellRead(a)
  BY <1>6, <1>7, WithoutPrompts DEF RolesRead
<1> QED
  BY <1>1, <1>8

(* packs, *)
LEMMA PackRowRead ==
    ASSUME NEW row, ReadPack(row) # Unreadable
    PROVE  WellRead(ReadPack(row))
<1>1. PICK a : a = ReadPack(row)
  OBVIOUS
<1>2. PICK opened : opened = PackFile([packName |-> Str(row.name), version |-> Num(row.version),
                                       lumiaItems |-> row.items, loomItems |-> List(<<>>)])
  OBVIOUS
<1>3. PICK parsed : parsed = ParsePack(opened)
  OBVIOUS
<1>4. PICK header : header = [Header(row.name, NoText, row.description) EXCEPT !.version = row.version]
  OBVIOUS
<1>5. /\ parsed # Unreadable
      /\ a = [parsed EXCEPT
                !.origin = OriginV1, !.header = header,
                !.preserved = StripRemainder(@, PackId,
                    {"packName", "packAuthor", "version", "loomItems", "packExtras", "loomTools"})]
  BY <1>1, <1>2, <1>3, <1>4 DEF ReadPack
<1>6. DOMAIN parsed = ParsedKeys /\ parsed.kind = "pack" /\ DOMAIN parsed.content = {"pack_items"}
  BY <1>3, <1>5, PackRead
<1>7. a.kind = "pack" /\ a.content = parsed.content
  BY <1>5, <1>6 DEF ParsedKeys
<1>8. WellRead(a)
  BY <1>6, <1>7, WithoutPrompts DEF RolesRead
<1> QED
  BY <1>1, <1>8

(* and so every row of the old site that is migrated. *)
LEMMA RowsWellRead ==
    ASSUME NEW row, ReadRow(row) # Unreadable
    PROVE  WellRead(ReadRow(row))
<1>1. CASE row.table = "characters"
  BY <1>1, CharacterRowRead DEF ReadRow
<1>2. CASE row.table = "worldbooks"
  BY <1>2, LorebookRowRead DEF ReadRow
<1>3. CASE row.table = "presets"
  BY <1>3, PresetRowWellRead DEF ReadRow
<1>4. CASE row.table = "themes"
  BY <1>4, ThemeRowRead DEF ReadRow
<1>5. CASE row.table = "dlc_packs"
  BY <1>5, PackRowRead DEF ReadRow
<1>6. CASE row.table \notin {"characters", "worldbooks", "presets", "themes", "dlc_packs"}
  BY <1>6 DEF ReadRow
<1> QED
  BY <1>1, <1>2, <1>3, <1>4, <1>5, <1>6

-----------------------------------------------------------------------------
(* The registry: what it resolves a file to is one of the readers. *)

ReaderIds == {V2, V3, CharX, "lorebook", "lorebook_sillytavern", Lumiverse, SillyTavern,
              LumiverseTheme, SillyTavernTheme, PackId}

(* The formats that are read, as the registry lists them. *)
LEMMA ReadersRegistered ==
    ASSUME NEW d \in Registry, d.read
    PROVE  d.id \in ReaderIds
<1>1. CASE d \in CardDeclarations
  BY <1>1 DEF CardDeclarations, ReaderIds
<1>2. CASE d \in BookDeclarations
  <2>1. \A id, type, container, header, tested, preserves :
            BookDeclaration(id, type, container, header, tested, preserves).id = id
    BY DEF BookDeclaration
  <2>2. d.id \in {"lorebook", "lorebook_sillytavern"}
    BY <1>2, <2>1 DEF BookDeclarations
  <2> QED
    BY <2>2 DEF ReaderIds
<1>3. CASE d \in PresetDeclarations
  <2>1. \E id \in {Lumiverse, SillyTavern} : d.id = id
    BY <1>3 DEF PresetDeclarations, Discriminator, Signature
  <2> QED
    BY <2>1 DEF ReaderIds
<1>4. CASE d \in ThemeDeclarations
  <2>1. \E id \in {LumiverseTheme, SillyTavernTheme} : d.id = id
    BY <1>4 DEF ThemeDeclarations, Discriminator, Signature
  <2> QED
    BY <2>1 DEF ReaderIds
<1>5. CASE d \in PackDeclarations
  BY <1>5 DEF PackDeclarations, ReaderIds
<1>6. CASE d = LegacyDeclaration
  BY <1>6 DEF LegacyDeclaration
<1> QED
  BY <1>1, <1>2, <1>3, <1>4, <1>5, <1>6 DEF Registry

(* Registry.Resolve gives a file to one of those or to none. *)
LEMMA Resolved ==
    ASSUME NEW payloads, Resolve(payloads) \notin {NotRead, Ambiguous, Unsupported}
    PROVE  Resolve(payloads) \in ReaderIds
<1>1. PICK claims : claims = {d \in Registry : d.read /\ ClaimStrength(payloads, d) > 0}
  OBVIOUS
<1>2. PICK winners : winners = {d \in claims : \A c \in claims :
                                   ClaimStrength(payloads, c) <= ClaimStrength(payloads, d)}
  OBVIOUS
<1>3. Resolve(payloads) =
        CASE winners = {} -> IF NamesUnsupported(payloads) THEN Unsupported ELSE NotRead
          [] Cardinality(winners) = 1 -> (CHOOSE d \in winners : TRUE).id
          [] OTHER -> Ambiguous
  BY <1>1, <1>2 DEF Resolve
<1>4. winners # {}
  <2>1. CASE winners = {}
    <3>1. Cardinality(winners) # 1
      BY <2>1, FS_EmptySet
    <3>2. Resolve(payloads) = IF NamesUnsupported(payloads) THEN Unsupported ELSE NotRead
      BY <1>3, <2>1, <3>1
    <3> QED
      BY <3>2
  <2> QED
    BY <2>1
<1>5. Cardinality(winners) = 1
  BY <1>3, <1>4
<1>6. Resolve(payloads) = (CHOOSE d \in winners : TRUE).id
  BY <1>3, <1>4, <1>5
<1>7. PICK d : d = (CHOOSE w \in winners : TRUE)
  OBVIOUS
<1>8. d \in winners
  BY <1>4, <1>7
<1>9. d \in Registry /\ d.read
  BY <1>1, <1>2, <1>8
<1> QED
  BY <1>6, <1>7, <1>9, ReadersRegistered

(* Whatever it gives the file to reads it well. *)
LEMMA FilesWellRead ==
    ASSUME NEW id \in ReaderIds, NEW opened, ParseBy(id, opened) # Unreadable
    PROVE  WellRead(ParseBy(id, opened))
<1> USE DEF ParseBy, V2, V3, CharX, Lumiverse, SillyTavern, LumiverseTheme, SillyTavernTheme, PackId
<1>1. CASE id \in {V2, V3, CharX}
  BY <1>1, CardWellRead
<1>2. CASE id = "lorebook"
  BY <1>2, BooksWellRead
<1>3. CASE id = "lorebook_sillytavern"
  BY <1>3, BooksWellRead
<1>4. CASE id = Lumiverse
  BY <1>4, PresetsWellRead
<1>5. CASE id = SillyTavern
  BY <1>5, PresetsWellRead
<1>6. CASE id = LumiverseTheme
  BY <1>6, ThemesWellRead
<1>7. CASE id = SillyTavernTheme
  BY <1>7, ThemesWellRead
<1>8. CASE id = PackId
  BY <1>8, PackWellRead
<1> QED
  BY <1>1, <1>2, <1>3, <1>4, <1>5, <1>6, <1>7, <1>8 DEF ReaderIds

-----------------------------------------------------------------------------
(* The theorems *)

(* What is inductive: an asset nobody has edited is one a reader made. *)
FreshInv == asset # NoAsset /\ fresh => WellRead(asset)

(* Only Import and Migrate make an asset that counts as unedited. *)
LEMMA FreshStays == FreshInv /\ [Next]_vars => FreshInv'
<1> SUFFICES ASSUME FreshInv, [Next]_vars
             PROVE  FreshInv'
  OBVIOUS
<1>1. ASSUME NEW f \in Files, Bring(f)
      PROVE  FreshInv'
  BY <1>1 DEF Bring, FreshInv
<1>2. ASSUME NEW a \in Builds, Build(a)
      PROVE  FreshInv'
  BY <1>2 DEF Build, FreshInv
<1>3. ASSUME NEW row \in OldRows, Migrate(row)
      PROVE  FreshInv'
  <2>1. asset' = ReadRow(row) /\ ReadRow(row) # Unreadable
    BY <1>3 DEF Migrate
  <2>2. WellRead(ReadRow(row))
    BY <2>1, RowsWellRead
  <2>3. WellRead(asset)'
    BY <2>1, <2>2 DEF WellRead, SealedApart
  <2> QED
    BY <2>3 DEF FreshInv
<1>4. ASSUME Import
      PROVE  FreshInv'
  <2>1. PICK id : id = Resolve(PayloadsOf(file))
    OBVIOUS
  <2>2. /\ asset' = ParseBy(id, file) /\ ParseBy(id, file) # Unreadable
        /\ id \notin {NotRead, Ambiguous, Unsupported}
    BY <1>4, <2>1 DEF Import, Readable
  <2>3. id \in ReaderIds
    BY <2>1, <2>2, Resolved
  <2>4. WellRead(ParseBy(id, file))
    BY <2>2, <2>3, FilesWellRead
  <2>5. WellRead(asset)'
    BY <2>2, <2>4 DEF WellRead, SealedApart
  <2> QED
    BY <2>5 DEF FreshInv
<1>5. ASSUME Refuse
      PROVE  FreshInv'
  BY <1>5 DEF Refuse, FreshInv
<1>6. ASSUME EditHeader
      PROVE  FreshInv'
  BY <1>6 DEF EditHeader, FreshInv
<1>7. ASSUME Discard
      PROVE  FreshInv'
  BY <1>7 DEF Discard, FreshInv
<1>8. ASSUME NEW role \in Roles, EditRole(role)
      PROVE  FreshInv'
  BY <1>8 DEF EditRole, FreshInv
<1>9. ASSUME NEW ns \in Namespaced, DeletePreservedNamespace(ns)
      PROVE  FreshInv'
  BY <1>9 DEF DeletePreservedNamespace, FreshInv
<1>10. ASSUME NEW d \in Registry, Download(d.id)
       PROVE  FreshInv'
  BY <1>10 DEF Download, FreshInv
<1>11. ASSUME NEW d \in Registry, DownloadFails(d.id)
       PROVE  FreshInv'
  BY <1>11 DEF DownloadFails, FreshInv, vars
<1>12. ASSUME UNCHANGED vars
       PROVE  FreshInv'
  BY <1>12 DEF FreshInv, vars
<1> QED
  BY <1>1, <1>2, <1>3, <1>4, <1>5, <1>6, <1>7, <1>8, <1>9, <1>10, <1>11, <1>12 DEF Next

(* So it holds always. *)
LEMMA FreshAlways == Spec => []FreshInv
<1>1. Init => FreshInv
  BY DEF Init, FreshInv
<1> QED
  BY <1>1, FreshStays, PTL DEF Spec

(* Whatever file a creator brings, whatever row the old site holds and whatever this site      *)
(* wrote and reads again, no sealed prompt's text is on the page a reader makes of it           *)
(* (readLumiverseSealedPrompt, activateCurrentSealedPrompts): each protected fragment has one    *)
(* prompt beside the page and no text on it, and no placeholder of the old site is left.        *)
THEOREM SealedTextNeverRead == Spec => []SealedStaysOut
<1>1. FreshInv => SealedStaysOut
  BY DEF FreshInv, WellRead, SealedStaysOut
<1> QED
  BY <1>1, FreshAlways, PTL

(* Every role any reader makes of any file or row has its place in its kind's catalog, in a      *)
(* block whose layouts have room for it (block.Place): no import is refused for want of one.     *)
THEOREM ImportsAlwaysPlaced == Spec => []ImportsFindAPlace
<1>1. FreshInv => ImportsFindAPlace
  <2> SUFFICES ASSUME FreshInv, asset # NoAsset, fresh
               PROVE  Page!HasPlaceForAll(asset.kind, [role \in DOMAIN asset.content |-> Tag(role)])
    BY DEF ImportsFindAPlace
  <2>1. asset.kind \in Page!Kinds /\ DOMAIN asset.content \in SUBSET RolesRead(asset.kind)
    BY DEF FreshInv, WellRead
  <2> QED
    BY <2>1, RolesPlaced
<1> QED
  BY <1>1, FreshAlways, PTL

===============================================================================
