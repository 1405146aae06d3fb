----------------------------- MODULE StartDialog ----------------------------
(***************************************************************************)
(* The dialog over the map, #geozetStart, and the three that share it:     *)
(* misc/init.js opens it with the introduction and the core search form,   *)
(* Vlakgericht.js opens it again with the announcements about the area in  *)
(* view, and a search that found its place removes it, whichever of the    *)
(* two it is.  Search and Vlakgericht are modules of their own; here a     *)
(* step of one that reaches the dialog takes the other along.              *)
(***************************************************************************)
EXTENDS Search, Vlakgericht

vars == <<searchVars, vlakVars>>

-----------------------------------------------------------------------------
\* misc/init.js, then Viewer.create: with a hash there is no introduction.
Init ==
  /\ SearchInit /\ VlakInit
  /\ dialog = IF "core" \in forms THEN "intro" ELSE "closed"

\* The introduction goes with the search form in it; the dialog with the
\* announcements about an area has no search form.
IntroGoes == IF dialog = "intro" THEN CloseStart /\ UNCHANGED start
                                 ELSE UNCHANGED searchVars

\* Search removes the dialog, and does not show the popup again.
DialogGoes == IF dialog = "closed" THEN UNCHANGED vlakVars ELSE RemoveDialog

\* A search that found its place, or a click on a suggestion.
GoToPlace == /\ ClickSuggestion \/ \E f \in flying : Moved(f)
             /\ UNCHANGED start
             /\ DialogGoes

\* Everything else the search does leaves the dialog alone.
SearchAlone == /\ SubmitSome \/ \E f \in flying : Told(f)
               /\ UNCHANGED <<start, vlakVars>>

\* The button of either dialog, and the focus of a.geozetCSS.
CloseDialog == Close /\ IntroGoes
FocusLink   == RemoveDialog /\ IntroGoes

\* The map has an extent once it was sent somewhere.
OpenAreas == GeozetAlertClick(view # None) /\ UNCHANGED searchVars

AreasAlone == (End \/ PopupChanges \/ Paging) /\ UNCHANGED searchVars

Next == \/ GoToPlace \/ SearchAlone \/ CloseDialog \/ FocusLink
        \/ OpenAreas \/ AreasAlone

\* The requests of both parts end.
Spec == Init /\ [][Next]_vars /\ SearchFairness /\ VlakFairness

-----------------------------------------------------------------------------
\* The type invariant of both parts.  The search form of the start is in the
\* page as long as the introduction is.
TypeOK ==
  /\ SearchTypeOK /\ VlakTypeOK
  /\ "core" \in forms <=> dialog = "intro"

\* A viewer that starts without a hash has a map to ask about, so that no
\* dialog stays busy, whatever the search does to the dialog meanwhile; with
\* a hash that holds for the dialogs opened when the map had been sent
\* somewhere (geozetAlertClick asks nothing when getExtent gives null).
BusyEndsWithMap ==
  dialog = "open" /\ title = "busy" /\ (start = None \/ asked)
    ~> dialog # "open" \/ title # "busy"
=============================================================================
