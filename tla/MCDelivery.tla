---------------------------- MODULE MCDelivery ----------------------------
(* Small instances of Delivery for TLC.                                    *)
EXTENDS DeliveryRefinement, TLC

MCFormats == {"card", "lumiverse"}
MCSealedFormats == {"lumiverse"}
MCRaw == "raw"

NoDeclaration == {<<>>}
BothDeclarations == {<<>>, <<"card", "lumiverse">>}

Entry(sendable, sealed) ==
    [sendable |-> sendable, sealed |-> sealed, offers |-> MCFormats, original |-> TRUE]

(* A published asset that stays as it is; one that can be withdrawn; one   *)
(* that can also have its content sealed.                                  *)
SteadyCatalog   == {Entry(TRUE, FALSE)}
WithdrawCatalog == SteadyCatalog \cup {Entry(FALSE, FALSE)}
SealingCatalog  == WithdrawCatalog \cup {Entry(TRUE, TRUE)}

Symmetry == Permutations(Assets) \cup Permutations(Collectors) \cup Permutations(Requests)
=============================================================================
