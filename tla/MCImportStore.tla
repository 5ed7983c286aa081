--------------------------- MODULE MCImportStore ---------------------------
(* Three imports into one kb_index for TLC; the third repeats the settings *)
(* of the first in part, and their documents overlap.                      *)
EXTENDS ImportStore, TLC

CONSTANTS i1, i2, i3, m1, m2, p1, p2, d1, d2, n1, n2

(* The first import names no model, the others each their own.             *)
LateModels  == (i1 :> None) @@ (i2 :> m1) @@ (i3 :> m2)
(* All imports name a model.                                               *)
AllModels   == (i1 :> m1) @@ (i2 :> m2) @@ (i3 :> m1)

SomeProfiles == (i1 :> p1) @@ (i2 :> p2) @@ (i3 :> p1)
OneProfile   == (i1 :> p1) @@ (i2 :> p1) @@ (i3 :> p1)

Overlapping == (i1 :> {d1, d2}) @@ (i2 :> {d1}) @@ (i3 :> {d1, d2})

TwoDims == (m1 :> n1) @@ (m2 :> n2)
OneDim  == (m1 :> n1) @@ (m2 :> n1)
=============================================================================
