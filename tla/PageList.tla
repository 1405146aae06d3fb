------------------------------ MODULE PageList -----------------------------
(***************************************************************************)
(* ServletBase.buildPageList: the list of page numbers above and below the *)
(* results of the pages without JavaScript.  Pages are known by their      *)
(* offset, the index of their first result; the texts and the other        *)
(* request parameters of the links are left out.                           *)
(***************************************************************************)
EXTENDS Integers, Sequences

CONSTANT ItemsPerPage   \* itemsPerPage, from web.xml

ASSUME ItemsAssumption == ItemsPerPage \in Nat \ {0}

\* An entry of the list: "prev", "page" and "next" are links to an offset,
\* "active" is the page itself, "dots" the three dots.
Entry(k, o) == [kind |-> k, to |-> o]
Dots        == Entry("dots", 0)
If(cond, e) == IF cond THEN <<e>> ELSE <<>>

\* totaalAantalPaginas and laatste.
Pages(items) == (items + ItemsPerPage - 1) \div ItemsPerPage
Laatste(items)  == (Pages(items) - 1) * ItemsPerPage

\* The row of five around the current page: start, maxPages and the loop.
AtLeastZero(n)        == IF n < 0 THEN 0 ELSE n
NearEnd(items, offset) == offset >= (Pages(items) - 3) * ItemsPerPage

\* Slip: the row is not moved back at the end of the list.
RowStartNeverBack(items, offset) == AtLeastZero(offset - 2 * ItemsPerPage)

RowStart(items, offset) ==
  AtLeastZero(IF NearEnd(items, offset) THEN (Pages(items) - 5) * ItemsPerPage
                                        ELSE offset - 2 * ItemsPerPage)

RowLength(items, offset) ==
  IF NearEnd(items, offset) /\ Pages(items) < 5 THEN Pages(items) ELSE 5

\* The entry of page o in the row; the current page is no link.
Item(offset, o) == Entry(IF o = offset THEN "active" ELSE "page", o)

\* Slip: the first and the last page are not left out of the row.
RowEntriesWithEnds(items, offset) ==
  [n \in 1 .. RowLength(items, offset) |->
     Item(offset, RowStart(items, offset) + (n - 1) * ItemsPerPage)]

\* The first and the last page have entries of their own, unless current.
InRow(items, offset, o) == o = offset \/ o \notin {0, Laatste(items)}

\* The loop: row[n] is what its first n rounds write.
RowEntries(items, offset) ==
  LET page(n) == RowStart(items, offset) + (n - 1) * ItemsPerPage
      row[n \in 0 .. RowLength(items, offset)] ==
        IF n = 0 THEN <<>>
        ELSE row[n - 1] \o If(InRow(items, offset, page(n)), Item(offset, page(n)))
  IN  row[RowLength(items, offset)]

\* Slip: the last page is not offered on the page before it.
NextLinkStopsEarly(items, offset) ==
  If(offset + ItemsPerPage < Laatste(items), Entry("next", offset + ItemsPerPage))

NextLink(items, offset) ==
  If(offset + ItemsPerPage <= Laatste(items), Entry("next", offset + ItemsPerPage))

DotsBefore(items, offset) ==
  If(Pages(items) > 6 /\ offset > 3 * ItemsPerPage, Dots)
DotsAfter(items, offset) ==
  If(Pages(items) > 6 /\ Laatste(items) - offset > 3 * ItemsPerPage, Dots)

PageList(items, offset) ==
  IF Pages(items) <= 1 THEN <<>>
  ELSE If(offset >= ItemsPerPage, Entry("prev", offset - ItemsPerPage))
       \o If(offset # 0, Entry("page", 0))
       \o DotsBefore(items, offset)
       \o RowEntries(items, offset)
       \o DotsAfter(items, offset)
       \o If(offset # Laatste(items), Entry("page", Laatste(items)))
       \o NextLink(items, offset)
=============================================================================
