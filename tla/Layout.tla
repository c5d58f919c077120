-------------------------------- MODULE Layout ------------------------------
(***************************************************************************)
(* The dashboard's grid in gui.rs: rows of widgets that wrap into bands,   *)
(* the widths and heights a band is drawn with, the seams an operator      *)
(* drags, and the tables that are fitted into what a widget gets.          *)
(*                                                                         *)
(* Lengths are whole pixels.  Where the code divides floats the quotient   *)
(* is rounded down, so a band may miss its width by less than one pixel a  *)
(* widget.  Weights are in the same unit: what a drag stores is a width.   *)
(***************************************************************************)
EXTENDS Integers, Sequences, FiniteSets, FiniteSetsExt, SequencesExt

CONSTANTS
  Gap,       \* GAP
  ColMin,    \* COL_MIN_W
  MinRow,    \* MIN_ROW_H
  PadX,      \* PAD_X
  GlyphW,    \* the width of a monospace character
  Rows,      \* default_rows: the height and the weights of each row
  Windows,   \* the sizes the panel may take
  Deltas,    \* how far a seam is dragged between two frames
  MaxDrags   \* bound

ASSUME LayoutAssumption ==
  /\ {Gap, ColMin, MinRow, PadX, GlyphW, MaxDrags} \subseteq Nat \ {0} /\ ColMin >= 30
  /\ Deltas \subseteq Int
ASSUME RowsAssumption ==
  /\ Rows \in Seq([height : Nat, weights : Seq(Nat) \ {<<>>}]) /\ Rows # <<>>
  /\ \A r \in DOMAIN Rows : Rows[r].height >= MinRow
\* The viewport's min_inner_size leaves the widest of what no table ever drops its
\* characters.
ASSUME WindowsAssumption ==
  /\ Windows \subseteq [w : Nat, h : Nat]
  /\ \A size \in Windows :
       size.w >= 60 /\ Min({ColMin, size.w}) >= 25 * GlyphW + 2 * PadX

VARIABLES
  rows,    \* the height of each row and the weights of its widgets
  window,  \* the size available to the grid: w, h
  drags    \* drags so far, for the bound

grid == <<rows, window, drags>>

SumOf(g) == FoldFunction(+, 0, g)
AtLeast(n, m) == Max({n, m})
Clamp(n, lo, hi) == IF n < lo THEN lo ELSE IF n > hi THEN hi ELSE n

-----------------------------------------------------------------------------
(* Bands                                                                   *)

\* Mutant of PerBand: the gap behind the last widget is forgotten about.
PerBandWide == AtLeast(1, (window.w + ColMin) \div (ColMin + Gap))

PerBand == AtLeast(1, (window.w + Gap) \div (ColMin + Gap))

\* bands_of: each row is cut into pieces of at most PerBand widgets.
BandsOf ==
  UNION {LET n == Len(rows[r].weights)
         IN  {[row |-> r, start |-> s * PerBand,
               len |-> Min({PerBand, n - s * PerBand})] : s \in 0 .. (n - 1) \div PerBand} :
         r \in DOMAIN rows}

\* height_scale, as the ratio of what is free to what the rows ask for: above
\* one the bands are stretched, otherwise they keep their heights and scroll.
SumH == AtLeast(1, SumOf([b \in BandsOf |-> rows[b.row].height]))
Free == window.h - Cardinality(BandsOf) * Gap
Scaled(h) == IF Free > SumH THEN (h * Free) \div SumH ELSE h
Unscaled(d) == IF Free > SumH THEN (d * SumH) \div Free ELSE d

Height(b) == AtLeast(Scaled(rows[b.row].height), MinRow)

-----------------------------------------------------------------------------
(* Widths                                                                  *)

\* The widths once the widgets in pinned are at the floor and the others share
\* what is left by weight.
Shares(w, avail, floor, pinned) ==
  LET sum == SumOf([i \in DOMAIN w \ pinned |-> w[i]])
      free == AtLeast(avail - Cardinality(pinned) * floor, 0)
  IN  [i \in DOMAIN w |-> IF i \in pinned THEN floor ELSE (free * w[i]) \div sum]

\* A pass of resolve_widths pins the first widget that comes out too narrow.
Pass(w, avail, floor, pinned) ==
  LET px == Shares(w, avail, floor, pinned)
      low == {i \in DOMAIN w \ pinned : px[i] < floor}
  IN  IF low = {} THEN pinned ELSE pinned \cup {Min(low)}

\* resolve_widths: a pass more than there are widgets; one without a widget to
\* pin is repeated without effect.
Pinned(w, avail, floor) ==
  LET after[k \in 0 .. Len(w) + 1] ==
        IF k = 0 THEN {} ELSE Pass(w, avail, floor, after[k - 1])
  IN  after[Len(w) + 1]

ResolveWidths(weights, avail) ==
  LET n == Len(weights)
      floor == Min({ColMin, avail \div n})
      w == [i \in 1 .. n |-> IF weights[i] > 0 THEN weights[i] ELSE 1]
  IN  Shares(w, avail, floor, Pinned(w, avail, floor))

ContentW(b) == AtLeast(window.w - Gap * (b.len - 1), 60)

\* The widths of band b when its row has the given weights.
WidthsFor(weights, b) ==
  ResolveWidths(SubSeq(weights, b.start + 1, b.start + b.len), ContentW(b))

Widths(b) == WidthsFor(rows[b.row].weights, b)

-----------------------------------------------------------------------------
(* Seams                                                                   *)

\* Mutant of Dragged: what is taken from one neighbour is not given to the other.
DraggedOneSided(px, k, dx) ==
  [px EXCEPT ![k] = Clamp(px[k] + dx, ColMin, px[k] + px[k + 1] - ColMin)]

\* The widths of a band once the seam behind its widget k has moved by dx.
Dragged(px, k, dx) ==
  LET both == px[k] + px[k + 1]
      floor == Min({ColMin, both \div 2})
      left == Clamp(px[k] + dx, floor, both - floor)
  IN  [px EXCEPT ![k] = left, ![k + 1] = both - left]

\* The seam between two widgets: the whole band's widths become its weights.
DragV(b, k, dx) ==
  /\ drags < MaxDrags /\ drags' = drags + 1
  /\ k < b.len
  /\ LET px == Dragged(Widths(b), k, dx)
     IN  rows' = [rows EXCEPT ![b.row].weights =
            SubSeq(@, 1, b.start) \o px \o SubSeq(@, b.start + b.len + 1, Len(@))]
  /\ UNCHANGED window

\* The seam under a band: the drag is scaled back to the stored height.
DragH(b, dy) ==
  /\ drags < MaxDrags /\ drags' = drags + 1
  /\ rows' = [rows EXCEPT ![b.row].height = AtLeast(@ + Unscaled(dy), MinRow)]
  /\ UNCHANGED window

Resize(size) == window' = size /\ UNCHANGED <<rows, drags>>

GridInit == rows = Rows /\ window \in Windows /\ drags = 0

GridNext ==
  \/ \E size \in Windows : Resize(size)
  \/ \E b \in BandsOf, d \in Deltas :
       DragH(b, d) \/ \E k \in 1 .. b.len - 1 : DragV(b, k, d)

GridSpec == GridInit /\ [][GridNext]_grid

-----------------------------------------------------------------------------
(* Tables                                                                  *)

\* The columns of a table, as <<width, drop priority>>, and the bounds of the
\* flexible one, whose width is 0.
FLOWS    == [cols |-> <<<<0, 0>>, <<6, 4>>, <<16, 3>>, <<11, 2>>, <<5, 6>>, <<8, 1>>,
                        <<8, 5>>, <<11, 0>>>>, flex |-> <<14, 38>>]
HOSTS    == [cols |-> <<<<0, 0>>, <<6, 4>>, <<10, 2>>, <<8, 5>>, <<4, 3>>, <<8, 1>>,
                        <<10, 0>>>>, flex |-> <<12, 34>>]
SERVICES == [cols |-> <<<<7, 0>>, <<0, 0>>, <<5, 4>>, <<4, 3>>, <<8, 2>>, <<10, 1>>>>,
             flex |-> <<8, 20>>]
ANSWERS  == [cols |-> <<<<28, 2>>, <<7, 1>>, <<8, 3>>, <<0, 0>>>>, flex |-> <<16, 45>>]
SCAN     == [cols |-> <<<<7, 2>>, <<14, 1>>, <<0, 0>>>>, flex |-> <<10, 60>>]
INTEL    == [cols |-> <<<<11, 1>>, <<0, 0>>>>, flex |-> <<16, 64>>]

Tables == {FLOWS, HOSTS, SERVICES, ANSWERS, SCAN, INTEL}

WidthOf(cols, S) == SumOf([i \in S |-> cols[i][1]])

\* char_budget, in a widget of the given width
CharBudget(width) == AtLeast((width - 2 * PadX) \div GlyphW, 8)

\* The columns that fit's loop keeps: one after the other goes, the last of the
\* least important first, until the rest has room.
Kept(t, budget) ==
  LET C == DOMAIN t.cols
      mayGo == {i \in C : t.cols[i][2] > 0}
      earlier(i) == {j \in mayGo : \/ t.cols[j][2] > t.cols[i][2]
                                   \/ t.cols[j][2] = t.cols[i][2] /\ j > i}
      without(m) == {i \in C : i \in mayGo => Cardinality(earlier(i)) >= m}
      enough(m) == WidthOf(t.cols, without(m)) + t.flex[1] <= budget
  IN  without(Min({Cardinality(mayGo)} \cup {m \in 0 .. Cardinality(mayGo) : enough(m)}))

\* Mutant of Spare: the remainder of the division is nobody's.
SpareUneven(i, others, extra) ==
  IF i \in others THEN extra \div Cardinality(others) ELSE 0

\* What column i gets of the slack that is spread over the others.
Spare(i, others, extra) ==
  IF i \notin others THEN 0
  ELSE extra \div Cardinality(others) +
       (IF Cardinality({j \in others : j < i}) < extra % Cardinality(others) THEN 1 ELSE 0)

\* fit: the flexible column takes what is left within its bounds, and the others
\* share what it does not take.
Fit(t, budget) ==
  LET kept == Kept(t, budget)
      used == WidthOf(t.cols, kept)
      flex == Clamp(AtLeast(budget - used, 0), t.flex[1], t.flex[2])
      fixed == {i \in kept : t.cols[i][1] # 0}
      others == IF fixed = {} THEN kept ELSE fixed
      extra == AtLeast(budget - used - flex, 0)
  IN  [i \in kept |-> (IF t.cols[i][1] = 0 THEN flex ELSE t.cols[i][1]) + Spare(i, others, extra)]

-----------------------------------------------------------------------------
(* Properties                                                              *)

\* "widgets wrap, they never shrink past legibility and they are never hidden":
\* whatever was dragged in whatever window, every widget is drawn in one band, no
\* narrower than the floor unless the window is, and each band fills the window
\* from edge to edge; the bands fill its height exactly while they are stretched,
\* because a stored height is never below the floor of the drawn one.
FillsWindow ==
  /\ \A r \in DOMAIN rows : \A i \in DOMAIN rows[r].weights :
       Cardinality({b \in BandsOf : b.row = r /\ i \in b.start + 1 .. b.start + b.len}) = 1
  /\ \A b \in BandsOf :
       LET px == Widths(b)
       IN  /\ \A i \in DOMAIN px : px[i] >= Min({ColMin, window.w})
           /\ SumOf(px) \in window.w - Gap * (b.len - 1) - b.len + 1
                               .. window.w - Gap * (b.len - 1)
  /\ Free >= SumH =>
       LET drawn == SumOf([b \in BandsOf |-> Height(b)])
       IN  drawn \in Free - Cardinality(BandsOf) + 1 .. Free

\* "Move width between the two neighbours only": in the next frame, which shares
\* the stored widths out again, all other widgets of the band are where they were
\* and the two have what they had between them, within a pixel a widget.
MovesTwo(b, k, new) ==
  LET px == Widths(b)
      near(m, n) == m - n \in -b.len .. b.len
  IN  /\ \A i \in DOMAIN px \ {k, k + 1} : near(px[i], new[i])
      /\ near(px[k] + px[k + 1], new[k] + new[k + 1])

SeamMovesTwo ==
  [][\A b \in BandsOf, d \in Deltas : \A k \in 1 .. b.len - 1 :
       DragV(b, k, d) => MovesTwo(b, k, WidthsFor(rows'[b.row].weights, b))]_grid

\* "so the row spans the whole cell": in every widget that can be drawn, the
\* columns of each table that are kept take exactly the characters there are, the
\* ones that are never to be dropped are among them, and the flexible one has its
\* minimum.
TablesSpan ==
  \A budget \in {CharBudget(px) : px \in UNION {Range(Widths(b)) : b \in BandsOf}}, t \in Tables :
    LET plan == Fit(t, budget)
    IN  /\ SumOf(plan) = budget
        /\ \A i \in DOMAIN t.cols :
             /\ t.cols[i][2] = 0 => i \in DOMAIN plan
             /\ t.cols[i][1] = 0 => plan[i] >= t.flex[1]
=============================================================================
