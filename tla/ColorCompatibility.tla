------------------------- MODULE ColorCompatibility -------------------------
(***************************************************************************)
(* Which colour groups may be worn together: app/src/lib/color-            *)
(* compatibility.ts, the one rule behind the palette of the guided         *)
(* journey, the capsule page and the guest looks.                          *)
(***************************************************************************)

ColorGroup == {"achromatic", "bright", "pastel", "desaturated", "dark"}

areColorGroupsCompatible(first, second) ==
    \/ "achromatic" \in {first, second}
    \/ first = second
    \/ {first, second} = {"desaturated", "dark"}
=============================================================================
