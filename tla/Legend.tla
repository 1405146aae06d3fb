------------------------------- MODULE Legend ------------------------------
(***************************************************************************)
(* The legend of the viewer (Geozet.Legend): a list of checkboxes, one for *)
(* each theme, whose state every layer follows.  A click goes to all the   *)
(* layers at once; their modules say what they do with it.                 *)
(***************************************************************************)
EXTENDS Sequences, SequencesExt

CONSTANT Theme   \* the themes of the legend, in the order of its checkboxes

Class == ToSet(Theme)

\* getState returns an object with a key for each theme, so none comes twice.
ASSUME LegendAssumption == Theme \in Seq(Class) /\ IsInjective(Theme)

VARIABLE legend  \* legend[c]: is the checkbox of theme c checked?

\* onRender without visibleClasses: every box is checked.
LegendInit == legend = [c \in Class |-> TRUE]

HandleClick(c) == legend' = [legend EXCEPT ![c] = ~@]
=============================================================================
