---------------------------- MODULE MCCanvasNoise ---------------------------
(***************************************************************************)
(* CanvasNoise for TLC: a property of the navigator, which every page has, *)
(* and the three functions that disturb data.  One persona's noise reaches *)
(* the pixel that an export reads, the other's does not.                   *)
(***************************************************************************)
EXTENDS CanvasNoise

CONSTANTS near, far

AllTargets == {"userAgent", "getImageData", "toDataURL", "getChannelData"}
ScriptOrder ==
    [t \in AllTargets |-> CASE t = "userAgent"      -> 1
                            [] t = "getImageData"   -> 2
                            [] t = "toDataURL"      -> 3
                            [] t = "getChannelData" -> 4]
Unguarded == {"userAgent", "toDataURL"}
Seeds == [p \in {near, far} |-> IF p = near THEN 1 ELSE 5]
=============================================================================
