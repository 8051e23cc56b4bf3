------------------------------ MODULE Formats ------------------------------
(***************************************************************************)
(* internal/format's registry and capability: every module the server         *)
(* registers, which of them reads a file, which targets an asset is offered   *)
(* and what each would cost it.                                             *)
(***************************************************************************)
EXTENDS LegacyRows

Carried == "carried"
Reduced == "reduced"
Dropped == "dropped"

NotRead == "not read"
Ambiguous == "ambiguous"
Unsupported == "unsupported"

Registry ==
    CardDeclarations \cup BookDeclarations \cup PresetDeclarations \cup ThemeDeclarations
    \cup PackDeclarations \cup {LegacyDeclaration}
Declaration(id) == CHOOSE d \in Registry : d.id = id
Registered(id) == \E d \in Registry : d.id = id

(* ValidateDeclarations at startup: no module's signature shadows another's. *)
Shadows(looser, stricter) ==
    \A key \in DOMAIN looser : key \in DOMAIN stricter /\ stricter[key] = looser[key]
SignaturesOverlap(a, b) ==
    \E i \in DOMAIN a.recognition, j \in DOMAIN b.recognition :
        LET r == a.recognition[i]  s == b.recognition[j]
        IN /\ r.kind = "signature" /\ s.kind = "signature"
           /\ r.containers \cap s.containers # {}
           /\ Shadows(r.required, s.required) \/ Shadows(s.required, r.required)
ValidateDeclarations ==
    \A a, b \in Registry :
        /\ a # b => a.id # b.id /\ ~SignaturesOverlap(a, b)
        /\ a.read => a.recognition # <<>>
        /\ a.read \/ a.write \/ a = LegacyDeclaration
        /\ a.preserves \subseteq a.tested

(* The registry the server starts with is one it accepts. *)
ASSUME RegistryIsValid == ValidateDeclarations

-----------------------------------------------------------------------------
(* What the probe shows the registry of a file. *)
PayloadsOf(file) ==
    CASE file.format \in {"lorebook", "lorebook_sillytavern"} -> BookPayloads(file)
      [] file.format = "card" -> CardPayloads(file)
      [] OTHER -> {[container |-> file.container, root |-> file.root]}

(* unsupportedDiscriminator: a key that tells formats apart, with a value none of    *)
(* them reads.                                                                 *)
NamesUnsupported(payloads) ==
    \E d \in Registry : \E i \in DOMAIN d.recognition : \E p \in payloads :
        LET rule == d.recognition[i]
        IN /\ rule.kind = "discriminator" /\ p.container \in rule.containers
           /\ PayloadValue(p, rule.key) # {} /\ PayloadValue(p, rule.key) \cap rule.values = {}

(* Registry.Resolve: the strongest claim, if it is alone. *)
Resolve(payloads) ==
    LET claims == {d \in Registry : d.read /\ ClaimStrength(payloads, d) > 0}
        winners == {d \in claims : \A c \in claims :
                       ClaimStrength(payloads, c) <= ClaimStrength(payloads, d)}
    IN CASE winners = {} -> IF NamesUnsupported(payloads) THEN Unsupported ELSE NotRead
         [] Cardinality(winners) = 1 -> (CHOOSE d \in winners : TRUE).id
         [] OTHER -> Ambiguous

(* Reader.Parse and Writer.Write of the module an id names. *)
ParseBy(id, file) ==
    CASE id \in {V2, V3, CharX} -> ParseCard(id, file)
      [] id = "lorebook" -> ParseListed(file)
      [] id = "lorebook_sillytavern" -> ParseKeyed(file)
      [] id = Lumiverse -> ParseLumiverse(file)
      [] id = SillyTavern -> ParseSillyTavern(file)
      [] id = LumiverseTheme -> ParseLumiverseTheme(file)
      [] id = SillyTavernTheme -> ParseSillyTavernTheme(file)
      [] id = PackId -> ParsePack(file)
WriteBy(id, asset, rows) ==
    CASE id \in {V2, V3, CharX} -> WriteCard(asset, id, rows)
      [] id = "lorebook" -> WriteListed(asset, rows)
      [] id = "lorebook_sillytavern" -> WriteKeyed(asset, rows)
      [] id = Lumiverse -> WriteLumiverse(asset, rows)
      [] id = SillyTavern -> WriteSillyTavern(asset, rows)
      [] id = LumiverseTheme -> WriteLumiverseTheme(asset, rows)
      [] id = SillyTavernTheme -> WriteSillyTavernTheme(asset, rows)
      [] id = PackId -> WritePack(asset, rows)
WriteFails(id, asset, rows) ==
    \/ id \in {V2, V3, CharX} /\ Panics(asset, rows)
    \/ id = PackId /\ VersionUnencodable(asset)

-----------------------------------------------------------------------------
(* Capability *)

(* block.RequiredRoles *)
RequiredRoles(kind) ==
    CASE kind = "character" -> {"description", "greetings"}
      [] kind = "lorebook" -> {"lorebook_entries"}
      [] kind = "preset" -> {"prompt_fragments"}
      [] kind = "theme" -> {"theme_tokens"}
      [] kind = "pack" -> {"pack_items"}

WriteGrade(d, role) == IF role \in DOMAIN d.roles THEN d.roles[role].write ELSE "undeclared"

(* A declaration's Condition and DropWhen for a role. *)
Reduces(d, role, c) ==
    CASE d.kind = "character" -> \/ role = "greetings" /\ HasNamedText(c)
                                 \/ role = "example_dialogue" /\ HasMultilineTurn(c)
      [] d.kind = "preset" -> PresetReduces(d.id, role, c)
      [] d.kind = "theme" -> ThemeReduces(d.id, role, c)
      [] OTHER -> FALSE
Drops(d, role, c) == d.kind = "theme" /\ ThemeDrops(d.id, role, c)

(* lossReport's verdict on one written role.  A role the module does not name has no  *)
(* grade at all, which no case of the switch catches.                             *)
VerdictWithoutConditions(d, role, c) ==
    CASE WriteGrade(d, role) = None \/ Drops(d, role, c) -> Dropped
      [] WriteGrade(d, role) = Partial -> Reduced
      [] OTHER -> Carried
Verdict(d, role, c) ==
    CASE WriteGrade(d, role) = None \/ Drops(d, role, c) -> Dropped
      [] WriteGrade(d, role) = Partial /\ Reduces(d, role, c) -> Reduced
      [] OTHER -> Carried
Survives(d, asset) ==
    \A role \in WrittenRoles(asset.content) \cap RequiredRoles(asset.kind) :
        Verdict(d, role, asset.content[role]) # Dropped

(* OfferedTargets *)
OfferedTargets(asset) ==
    {d.id : d \in {t \in Registry : /\ t.write /\ t.kind = asset.kind
                                    /\ asset.origin \in t.tested /\ Survives(t, asset)}}

(* TravelsWithOrigin: leftovers go back to the family they came from. *)
Family(d) == <<d.body, d.container>>
TravelsByKind(origin, target) ==
    origin.id \in target.tested \/ Family(origin) = Family(target)
TravelsWithOrigin(origin, target) ==
    origin.id \in target.preserves \/ Family(origin) = Family(target)

(* travellingPreservedData: nothing travels from an asset built here. *)
Travelling(asset, target) ==
    IF Registered(asset.origin) /\ TravelsWithOrigin(Declaration(asset.origin), Declaration(target))
    THEN asset.preserved ELSE {}

=============================================================================
