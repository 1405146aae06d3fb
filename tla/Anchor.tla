------------------------------- MODULE Anchor ------------------------------
(***************************************************************************)
(* Geozet.Renderer.Anchor: a marker on the map is an anchor in the page    *)
(* with a title, an image and a text, so that it can be reached by         *)
(* keyboard.  The position and the size of the image are left out.         *)
(***************************************************************************)
EXTENDS Integers

CONSTANT NoNode   \* the marker has no anchor in the page

\* A text of 0 stands for an anchor without the span for the text: a label
\* of 0 is falsy, so drawText is never called for it.
NoText == 0

\* Slip: an anchor that is there stays there.
DrawnStays(node, shown, title, look, label) ==
  IF node # NoNode THEN node
  ELSE IF ~shown THEN NoNode
  ELSE [title |-> title, look |-> look, text |-> label]

\* drawText when there is a label, otherwise removeText, which does nothing.
DrawText(node, label) ==
  IF label # 0 THEN label ELSE IF node # NoNode THEN node.text ELSE NoText

\* drawFeature, drawGeometry and appendImage.  An anchor that is there gets a
\* new image and a new text; its title it got when it was made.
DrawFeature(node, shown, title, look, label) ==
  IF ~shown THEN NoNode
  ELSE [title |-> IF node = NoNode THEN title ELSE node.title,
        look  |-> look,
        text  |-> DrawText(node, label)]
=============================================================================
