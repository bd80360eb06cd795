---------------------------- MODULE OverviewPage ----------------------------
(***************************************************************************)
(* The overview page: the layout of its widgets, which is fetched once,    *)
(* and the rows of the grid made from it.                                  *)
(***************************************************************************)
EXTENDS Naturals, Sequences, SequencesExt

CONSTANTS
  Layouts,   \* layouts /widgets.json may hold
  cols,      \* columns of the grid
  Nothing

OverviewAssumption ==
  /\ cols \in Nat \ {0}
  /\ Layouts \subseteq Seq([id : STRING, span : Nat \ {0}])

VARIABLES layout  \* Nothing until the answer

vars == <<layout>>

Widget(name, span) == [id |-> name, span |-> span]

(* The registry, with the spans the widgets have by default.               *)
Widgets ==
  <<Widget("cpu", 2), Widget("memory", 2), Widget("system-info", 1),
    Widget("temperature", 1), Widget("gpu-engines", 1), Widget("gpu-power", 1),
    Widget("disks", 1), Widget("network", 1), Widget("top-cpu", 2),
    Widget("top-memory", 2), Widget("storage", 1), Widget("services", 1),
    Widget("qbittorrent", 2), Widget("vpn", 1)>>

TypeOK == layout = Nothing \/ layout \in Layouts \cup {Widgets}

Init == layout = Nothing

(* The file, if it holds an array; the registry when there is no file or   *)
(* no JSON in it; anything else leaves the page without widgets.           *)
LayoutArrives ==
  /\ layout = Nothing
  /\ layout' \in Layouts \cup {Widgets, Nothing}

Next == LayoutArrives

-----------------------------------------------------------------------------
Smaller(a, b) == IF a < b THEN a ELSE b

Used(row) == FoldLeft(LAMBDA n, item : n + item.span, 0, row)

\* Mutant: a widget that fits exactly starts a row of its own.
FitsLess(row, item) == Used(row) + item.span < cols

Fits(row, item) == Used(row) + item.span <= cols

(* Widgets are placed one by one into rows of cols columns.                *)
Place(rows, widget) ==
  LET item == [widget EXCEPT !.span = Smaller(@, cols)]
      n == Len(rows)
  IN  IF n > 0 /\ Fits(rows[n], item) THEN [rows EXCEPT ![n] = Append(@, item)]
      ELSE Append(rows, <<item>>)

(* What is left of a row goes to its last widget.                          *)
Stretch(row) ==
  [row EXCEPT ![Len(row)].span = Smaller(@ + (cols - Used(row)), cols)]

ComputeRows(l) ==
  LET rows == FoldLeft(Place, <<>>, l) IN [i \in 1 .. Len(rows) |-> Stretch(rows[i])]

(* Widgets the registry does not know are left out.                        *)
Known(w) == \E i \in 1 .. Len(Widgets) : Widgets[i].id = w.id

Active == FoldLeft(LAMBDA kept, w : IF Known(w) THEN Append(kept, w) ELSE kept,
                   <<>>, layout)

Rows == ComputeRows(Active)

(* The columns a widget takes: there are classes for 1, 2 and 4.           *)
SpanClass(span) == IF span \in {2, 4} THEN span ELSE 1

-----------------------------------------------------------------------------
(* Every widget is in one row, in the order of the layout and with the     *)
(* width asked for or more; every row fills the grid before the classes    *)
(* are chosen and none is wider than it; no two rows could have been one.  *)
RowsFull ==
  layout # Nothing =>
    LET shown == FlattenSeq(Rows)
        placed == FoldLeft(Place, <<>>, Active)
    IN
    /\ Len(shown) = Len(Active)
    /\ \A i \in 1 .. Len(shown) :
         /\ shown[i].id = Active[i].id
         /\ shown[i].span >= Smaller(Active[i].span, cols)
    /\ \A i \in 1 .. Len(Rows) : Used(Rows[i]) = cols
    /\ \A i \in 1 .. Len(placed) - 1 : Used(placed[i]) + placed[i + 1][1].span > cols

(* "Distribute leftover capacity to the last widget in each row": not so   *)
(* on the page for a last widget that has become 3 columns wide, which has *)
(* no class of its own and takes one.                                      *)
GridFull ==
  layout # Nothing =>
    \A i \in 1 .. Len(Rows) :
      FoldLeft(LAMBDA n, item : n + SpanClass(item.span), 0, Rows[i]) = cols
=============================================================================
