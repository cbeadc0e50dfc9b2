------------------------------ MODULE MCFiles ------------------------------
(* Small instances of Files: a style sheet that refers to an image and     *)
(* imports a second one, which imports itself.  An older version knew the  *)
(* image under a second spelling, and a garbled one.                       *)
EXTENDS Files

CONSTANTS a, b, img, http_img, garbled, host
MCPath == {a, b, img}
MCCss == {a, b}
MCRefs == [u \in MCCss |-> IF u = a THEN {b, img} ELSE {b}]
MCOldKey == MCPath \cup {http_img, garbled}
MCCanonOf == [k \in MCOldKey |-> IF k \in MCCss THEN k ELSE img]
MCThemes == {{}, {a}, {b}}
MCHostOf == [p \in MCPath |-> host]
=============================================================================
