--------------------------- MODULE MCKedaManager ---------------------------
(***************************************************************************)
(* Instances of KedaManager for TLC.                                       *)
(***************************************************************************)
EXTENDS KedaManager, TLC

CONSTANTS k1, k2, crd, dep, cfg, lease, val, text, console

Symmetry == Permutations({k1, k2})

MCFields == {"env", "logging"}
MCSanitized == [v \in {val, text, console, Unset} |-> IF v = text THEN console ELSE v]
Plain == [restricted |-> FALSE, custom |-> [f \in MCFields |-> Unset]]
Tuned == [restricted |-> FALSE, custom |-> [f \in MCFields |-> IF f = "env" THEN val ELSE text]]
Restricted == [restricted |-> TRUE, custom |-> [f \in MCFields |-> Unset]]

AddonOff == [enabled |-> FALSE, namespace |-> "", istio |-> FALSE]
AddonOn == [AddonOff EXCEPT !.enabled = TRUE]
AddonIstio == [AddonOn EXCEPT !.istio = TRUE]
AddonMoved == [AddonOn EXCEPT !.namespace = "apps"]

PlainOnly == {Plain}
TunedOnly == {Tuned}
AllSpecs == {Plain, Tuned, Restricted}
NoAddon == {AddonOff}
AddonOnOff == {AddonOff, AddonOn}
AddonAll == {AddonOff, AddonIstio, AddonMoved}
AddonMoves == {AddonOn, AddonMoved}

SmallManifest == <<dep>>
Manifest == <<crd, dep>>
CfgManifest == <<dep, cfg>>

Bounds(e, t, w, f) == [edit |-> e, tamper |-> t, workload |-> w, failure |-> f]
LagBounds == Bounds(3, 0, 0, 1)
InstallBounds == Bounds(2, 1, 0, 1)
AddonBounds == Bounds(2, 1, 0, 1)
GuardBounds == Bounds(3, 0, 1, 0)
OwnershipBounds == Bounds(3, 0, 0, 1)
ProgressBounds == Bounds(2, 0, 1, 1)
EditsOnly == Bounds(2, 0, 0, 0)
OneTamper == Bounds(2, 1, 0, 0)
OneWorkload == Bounds(2, 0, 1, 0)
=============================================================================
