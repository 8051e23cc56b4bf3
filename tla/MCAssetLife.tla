----------------------------- MODULE MCAssetLife -----------------------------
(* The owner edits from two tabs; replacement files of each sort are accepted. *)
EXTENDS AssetLife, TLC

AFile(text, sealed, reuse, nudges, picture, leftovers) ==
    [text |-> text, sealed |-> sealed, reuse |-> reuse, nudges |-> nudges,
     picture |-> picture, leftovers |-> leftovers]

MCFiles ==
    { AFile("a", FALSE, FALSE, TRUE, TRUE, {"asset", "nudge"}),
      AFile("b", TRUE, FALSE, FALSE, FALSE, {}),
      AFile("a", TRUE, TRUE, FALSE, FALSE, {"asset"}) }

MCFiles1 == { AFile("a", TRUE, FALSE, FALSE, FALSE, {}) }

TabSymmetry == Permutations(Tabs)

=============================================================================
