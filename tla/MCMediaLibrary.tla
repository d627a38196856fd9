---------------------------- MODULE MCMediaLibrary ----------------------------
(***************************************************************************)
(* MediaLibrary for TLC: photos, their names and their days.               *)
(***************************************************************************)
EXTENDS MediaLibrary, TLC

CONSTANTS p1, p2, h1, h2

\* Two photos of one name (two cameras) taken on the first day.
SameName == (p1 :> "a" @@ p2 :> "a")
Sizes == (p1 :> 1 @@ p2 :> 2)
FirstDay == (p1 :> 0 @@ p2 :> 0)

\* One photo.
OneName == (p1 :> "a")
OneSize == (p1 :> 1)
OneDay == (p1 :> 0)
=============================================================================
