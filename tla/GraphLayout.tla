---------------------------- MODULE GraphLayout ----------------------------
(***************************************************************************)
(* How the dependency graph is drawn                                       *)
(* (src/features/plugin-graph/layout.ts): the depth of every node, the     *)
(* order within a depth, bands that fit the canvas, and the place of every *)
(* box.  Nodes are numbers, in the order of their names.  Lengths are in   *)
(* half units, because boxes are centred.                                  *)
(***************************************************************************)
EXTENDS Naturals, Integers, Sequences, SequencesExt, FiniteSets, FiniteSetsExt, Functions, TLC

LOCAL Pairs(edges) == {<<edges[k].from, edges[k].to>> : k \in DOMAIN edges}
LOCAL PredsOf(edges, n) == {p[1] : p \in {q \in Pairs(edges) : q[2] = n}}
LOCAL SuccsOf(edges, n) == {p[2] : p \in {q \in Pairs(edges) : q[1] = n}}
\* A use of a value that is worked out once.
LOCAL With(v, Use(_)) == CHOOSE r \in {Use(x) : x \in {v}} : TRUE
LOCAL Counted(f, S) == FoldSet(LAMBDA x, sum : sum + f[x], 0, S)

\* No edge from a node to itself, and one for each pair of nodes.
uniqueEdges(edges) ==
  LET at == {k \in DOMAIN edges : edges[k].from # edges[k].to
               /\ \A l \in 1 .. k - 1 : edges[l].from # edges[k].from \/ edges[l].to # edges[k].to}
      in == SelectSeq([k \in DOMAIN edges |-> k], LAMBDA k : k \in at)
  IN [i \in DOMAIN in |-> [from |-> edges[in[i]].from, to |-> edges[in[i]].to]]

\* The nodes a path of one edge or more leads to.
Reached(edges, n) ==
  FoldLeft(LAMBDA far, e : far \cup UNION {SuccsOf(edges, m) : m \in far}, SuccsOf(edges, n), edges)
\* The edges between two nodes of one strongly connected component.
cyclicEdges(edges) == {p \in Pairs(edges) : p[1] \in Reached(edges, p[2])}
-----------------------------------------------------------------------------
(* The depth of a node *)

\* Kahn: what no cycle leads to is as deep as the longest path to it; a node that
\* a cycle leads to is below what was placed before it, or has no depth yet.
Depths(nodes, edges) ==
  LET All == Range(nodes)
      onCycle == {n \in All : n \in Reached(edges, n)}
      sorted == All \ (onCycle \cup UNION {Reached(edges, n) : n \in onCycle})
      deep[n \in sorted] == IF PredsOf(edges, n) = {} THEN 0 ELSE 1 + Max({deep[p] : p \in PredsOf(edges, n)})
      noted == {n \in All \ sorted : PredsOf(edges, n) \cap sorted # {}}
  IN [n \in sorted \cup noted |-> IF n \in sorted THEN deep[n] ELSE 1 + Max({deep[p] : p \in PredsOf(edges, n) \cap sorted})]
\* The others pass by pass, in the order they are listed; those that no pass
\* reaches are at the top.
assignLayers(nodes, edges) ==
  LET Place(layer, n) ==
        LET placed == PredsOf(edges, n) \cap DOMAIN layer
        IN IF n \in DOMAIN layer \/ placed = {} THEN layer ELSE layer @@ (n :> 1 + Max({layer[p] : p \in placed}))
      all == FoldLeft(LAMBDA layer, pass : FoldLeft(Place, layer, nodes), Depths(nodes, edges), nodes)
  IN [n \in Range(nodes) |-> IF n \in DOMAIN all THEN all[n] ELSE 0]

groupByLayer(nodes, layer) ==
  [d \in 1 .. 1 + Max({layer[n] : n \in Range(nodes)}) |-> SelectSeq(nodes, LAMBDA n : layer[n] = d - 1)]
\* What more depends on comes first, then what the caller's order names first.
Seeded(column, weight, order) ==
  LET Ranked(n) == IF n \in Range(order) THEN Max({k \in DOMAIN order : order[k] = n}) ELSE Len(order) + 1
      Weighs(n) == IF n \in DOMAIN weight THEN weight[n] ELSE 0
      Before(m, n) ==
        \/ Weighs(m) > Weighs(n)
        \/ Weighs(m) = Weighs(n) /\ (Ranked(m) < Ranked(n) \/ (Ranked(m) = Ranked(n) /\ m < n))
  IN SortSeq(column, Before)
-----------------------------------------------------------------------------
(* The order within a depth *)

LOCAL PlaceIn(column, n) == CHOOSE k \in DOMAIN column : column[k] = n
countCrossings(layers, edges) ==
  LET Crossed(d) ==
        LET between == {p \in Pairs(edges) : p[1] \in Range(layers[d]) /\ p[2] \in Range(layers[d + 1])}
            from(p) == PlaceIn(layers[d], p[1])
            to(p) == PlaceIn(layers[d + 1], p[2])
        IN Cardinality({pq \in between \X between : from(pq[1]) < from(pq[2]) /\ to(pq[1]) > to(pq[2])})
  IN Counted([d \in 1 .. Len(layers) - 1 |-> Crossed(d)], 1 .. Len(layers) - 1)

\* One column by the mean place of the neighbours in the column beside it; a node
\* without any goes last.
Swept(column, beside, neighbours) ==
  LET seen(n) == neighbours[n] \cap Range(beside)
      sum(n) == Counted([m \in seen(n) |-> PlaceIn(beside, m)], seen(n))
      Before(m, n) ==
        LET s == Cardinality(seen(m)) t == Cardinality(seen(n)) k == PlaceIn(column, m) l == PlaceIn(column, n)
        IN IF s = 0 \/ t = 0 THEN (s # 0 /\ t = 0) \/ (s = t /\ k < l)
           ELSE sum(m) * t < sum(n) * s \/ (sum(m) * t = sum(n) * s /\ k < l)
  IN SortSeq(column, Before)
sweep(layers, edges, forward) ==
  LET Forward(at, d) == [at EXCEPT ![d] = Swept(at[d], at[d - 1], [n \in Range(at[d]) |-> PredsOf(edges, n)])]
      Back(at, d) == [at EXCEPT ![d] = Swept(at[d], at[d + 1], [n \in Range(at[d]) |-> SuccsOf(edges, n)])]
      n == Len(layers)
  IN IF forward THEN FoldLeft(Forward, layers, [k \in 1 .. n - 1 |-> k + 1])
     ELSE FoldLeft(Back, layers, [k \in 1 .. n - 1 |-> n - k])
LOCAL Arranged(layers, edges) == [now |-> layers, best |-> layers, cost |-> countCrossings(layers, edges)]
\* seeded fault: the last arrangement is kept.
orderLayersLast(layers, edges) ==
  FoldLeft(LAMBDA at, forward : sweep(at, edges, forward), layers, <<TRUE, FALSE, TRUE, FALSE>>)
\* Four sweeps; the first arrangement with the fewest crossings is kept.
orderLayers(layers, edges) ==
  LET Step(at, forward) ==
        With(Arranged(sweep(at.now, edges, forward), edges),
             LAMBDA next : IF next.cost < at.cost THEN next ELSE [at EXCEPT !.now = next.now])
  IN FoldLeft(Step, Arranged(layers, edges), <<TRUE, FALSE, TRUE, FALSE>>).best
-----------------------------------------------------------------------------
(* Bands and places *)

NODE_WIDTH == 2 * 176
NODE_HEIGHT == 2 * 34
COLUMN_GAP == 2 * 48
ROW_GAP == 2 * 8
COLUMN_STRIDE == NODE_WIDTH + COLUMN_GAP
ROW_STRIDE == NODE_HEIGHT + ROW_GAP
REFERENCE_WIDTH == 2 * 1000
REFERENCE_HEIGHT == 2 * 620
MIN_ROWS == 6
MAX_ROWS == 18
MAX_BANDS == 14

\* A depth is cut into bands; too many bands are joined where they fit.
Cut(layers, cap) ==
  FoldLeft(LAMBDA bands, column :
             bands \o [k \in 1 .. (Len(column) + cap - 1) \div cap |->
                         SubSeq(column, (k - 1) * cap + 1, IF k * cap < Len(column) THEN k * cap ELSE Len(column))],
           <<>>, layers)
wrapLayers(layers, cap) ==
  LET Join(merged, band) ==
        IF merged = <<>> \/ Len(Last(merged)) + Len(band) > cap THEN Append(merged, band)
        ELSE [merged EXCEPT ![Len(merged)] = @ \o band]
  IN IF Len(Cut(layers, cap)) <= MAX_BANDS THEN Cut(layers, cap) ELSE FoldLeft(Join, <<>>, Cut(layers, cap))

\* A band sequence along one axis, and the scale the canvas allows: a fraction.
placement(bands, horizontal) ==
  LET widest == Max({Len(bands[b]) : b \in DOMAIN bands})
      width == IF horizontal THEN Len(bands) * COLUMN_STRIDE - COLUMN_GAP ELSE widest * COLUMN_STRIDE - COLUMN_GAP
      height == IF horizontal THEN widest * ROW_STRIDE - ROW_GAP ELSE Len(bands) * ROW_STRIDE - ROW_GAP
      Smaller(f, g) == IF g.over * f.under < f.over * g.under THEN g ELSE f
  IN [bands |-> bands, horizontal |-> horizontal, width |-> width, height |-> height,
      fit |-> Smaller(Smaller([over |-> 1, under |-> 1], [over |-> REFERENCE_WIDTH, under |-> width]),
                      [over |-> REFERENCE_HEIGHT, under |-> height])]
\* The better fit, then the smaller area, then left to right.
isBetter(c, b) ==
  LET cFit == c.fit.over * b.fit.under bFit == b.fit.over * c.fit.under
      cArea == c.width * c.height bArea == b.width * b.height
  IN \/ cFit > bFit
     \/ cFit = bFit /\ cArea < bArea - 4
     \/ cFit = bFit /\ cArea \in bArea - 4 .. bArea + 4 /\ c.horizontal /\ ~b.horizontal
chooseLayout(layers) ==
  LET candidates == [k \in 1 .. 2 * (MAX_ROWS - MIN_ROWS + 1) |->
                       placement(wrapLayers(layers, MIN_ROWS + (k - 1) \div 2), k % 2 = 1)]
  IN FoldLeft(LAMBDA best, c : IF isBetter(c, best) THEN c ELSE best, candidates[1], candidates)

Placed(chosen) ==
  LET strideAlong == IF chosen.horizontal THEN COLUMN_STRIDE ELSE ROW_STRIDE
      strideAcross == IF chosen.horizontal THEN ROW_STRIDE ELSE COLUMN_STRIDE
      gap == IF chosen.horizontal THEN ROW_GAP ELSE COLUMN_GAP
      room == IF chosen.horizontal THEN chosen.height ELSE chosen.width
      at(b, i) == LET along == (b - 1) * strideAlong
                      across == (room - (Len(chosen.bands[b]) * strideAcross - gap)) \div 2 + (i - 1) * strideAcross
                  IN [id |-> chosen.bands[b][i], x |-> IF chosen.horizontal THEN along ELSE across,
                      y |-> IF chosen.horizontal THEN across ELSE along]
  IN UNION {{at(b, i) : i \in DOMAIN chosen.bands[b]} : b \in DOMAIN chosen.bands}
\* The box around the nodes of one depth.
GroupOf(placed) ==
  LET x == Min({p.x : p \in placed}) y == Min({p.y : p \in placed})
  IN [x |-> x, y |-> y, width |-> Max({p.x : p \in placed}) + NODE_WIDTH - x,
      height |-> Max({p.y : p \in placed}) + NODE_HEIGHT - y]

LOCAL Drawn(input, edges, layer, ordered, chosen, placed) ==
  [nodes |-> placed, layer |-> layer, width |-> chosen.width, height |-> chosen.height, bands |-> chosen.bands,
   crossings |-> countCrossings(ordered.best, edges), before |-> countCrossings(ordered.seeded, edges),
   back |-> {p \in Pairs(edges) : layer[p[2]] <= layer[p[1]]}, cyclic |-> cyclicEdges(edges),
   groups |-> [d \in Range(layer) |-> GroupOf({p \in placed : layer[p.id] = d})]]
layoutGraph(input) ==
  LET Columns(layer) ==
        LET layers == groupByLayer(input.nodes, layer)
        IN IF input.seeded THEN [d \in DOMAIN layers |-> Seeded(layers[d], input.weight, input.order)] ELSE layers
      Ordered(seeded, edges) == [seeded |-> seeded, best |-> orderLayers(seeded, edges)]
  IN With(uniqueEdges(input.edges), LAMBDA edges :
       With(assignLayers(input.nodes, edges), LAMBDA layer :
         With(Columns(layer), LAMBDA seeded :
           With(Ordered(seeded, edges), LAMBDA ordered :
             With(chooseLayout(ordered.best), LAMBDA chosen :
               With(Placed(chosen), LAMBDA placed : Drawn(input, edges, layer, ordered, chosen, placed)))))))
-----------------------------------------------------------------------------
(* Folding *)

layersWorthFolding(layout) ==
  {d \in Range(layout.layer) : Cardinality({n \in DOMAIN layout.layer : layout.layer[n] = d}) > MAX_ROWS}
\* One node for a folded depth, numbered below the others.
foldedNodeId(d) == 0 - d - 1
foldLayers(input, layer, folded) ==
  LET To(n) == IF layer[n] \in folded THEN foldedNodeId(layer[n]) ELSE n
      moved == [k \in DOMAIN input.edges |-> [from |-> To(input.edges[k].from), to |-> To(input.edges[k].to)]]
  IN [input EXCEPT !.nodes = SelectSeq(@, LAMBDA n : layer[n] \notin folded) \o SetToSeq({foldedNodeId(d) : d \in folded}),
                   !.edges = uniqueEdges(moved)]
=============================================================================
