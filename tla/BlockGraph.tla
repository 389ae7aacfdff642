----------------------------- MODULE BlockGraph -----------------------------
(***************************************************************************)
(* How the blocks of the data sources become the nodes of a task graph     *)
(* (featurizer/blocks/blocks.py, task_graph/builder.py): consecutive       *)
(* blocks form ranges, the ranges and then the blocks of all inputs of a   *)
(* feature are overlapped, and the features that were asked for, with the  *)
(* label looking ahead, are joined block by block.                         *)
(*                                                                         *)
(* An IntervalDict of the portion library is a function on cells: cell 2t  *)
(* is the point t and cell 2t+1 the open interval between t and t+1, so    *)
(* that open and closed ends differ.                                       *)
(***************************************************************************)
EXTENDS Integers, SequencesExt

CONSTANTS
  Sources,    \* data sources
  Features,   \* features computed from other ones
  Children,   \* of a source none, of a feature its inputs in order
  Windowed,   \* features that look back; the others use identity_grouping
  Window,     \* how far they look back
  Lookahead,  \* of the label
  Label,      \* what the label feature is called
  Inputs,     \* per data source, the blocks that it may have, sorted
  Requests    \* the features that may be asked for

Block == {b \in [start: Nat, end: Nat] : b.start <= b.end}

(* Blocks that at most touch. *)
InTime(s) == \A m, n \in DOMAIN s : m < n => s[m].end <= s[n].start /\ s[m] # s[n]

ASSUME BlockGraphAssumption ==
  /\ Sources \cap Features = {}
  /\ Children \in [Sources \cup Features -> Seq(Sources \cup Features)]
  /\ \A k \in Sources \cup Features : k \in Sources <=> Children[k] = <<>>
  /\ Windowed \subseteq Features /\ Label \notin Features
  /\ Window \in Nat /\ Lookahead \in Nat \ {0}
  /\ \A k \in Sources : \A s \in Inputs[k] : s \in Seq(Block) /\ InTime(s)
  /\ Requests \subseteq Seq(Features) \ {<<>>}

VARIABLES
  data,       \* the blocks of each source
  requested, label,  \* what was asked for; label is {} for none
  request,    \* the requested feature that is traversed
  visits,     \* what remains of its postorder
  metas,      \* features_ranges_meta: ranges of the features visited so far
  dag,        \* per feature, range and block: the blocks the node depends on
  joined,     \* the result: per range and block what is joined
  status      \* "building", "joined", or the exception

vars == <<data, requested, label, request, visits, metas, dag, joined, status>>
inputs == <<data, requested, label>>

-----------------------------------------------------------------------------
(* blocks.py *)

Overlaps(a, b) == a.start <= b.end /\ b.start <= a.end
Before(a, b) == a.start < b.start \/ (a.start = b.start /\ a.end < b.end)

InOrder(S) ==
  CHOOSE s \in [1..Cardinality(S) -> S] : \A m, n \in DOMAIN s : m < n => Before(s[m], s[n])

Cells(i) == (2 * i.start)..(2 * i.end)

ClosedAround(S) == [start |-> Min(S) \div 2, end |-> (Max(S) + 1) \div 2]

(* d[i] = v for one interval after the other: the latest value counts. *)
Assigned(intervals, values) ==
  [c \in UNION {Cells(intervals[n]) : n \in DOMAIN intervals} |->
     values[Max({n \in DOMAIN intervals : c \in Cells(intervals[n])})]]

(* items(), made closed: equal values are kept under one key. *)
Items(d) ==
  LET pairs == {<<c, d[c]>> : c \in DOMAIN d}
      Key(v) == ClosedAround({p[1] : p \in {p \in pairs : p[2] = v}})
  IN  [i \in {Key(p[2]) : p \in pairs} |-> (CHOOSE p \in pairs : Key(p[2]) = i)[2]]

(* The inner join of the dicts of all keys. *)
GetOverlaps(ds) ==
  LET domains == {DOMAIN ds[k] : k \in DOMAIN ds}
      common == {c \in UNION domains : \A D \in domains : c \in D}
  IN  Items([c \in common |-> [k \in DOMAIN ds |-> ds[k][c]]])

(* Mutant: a block that the interval cuts is dropped. *)
PruneOverlapsMutant(overlaps) ==
  [i \in DOMAIN overlaps |->
     [k \in DOMAIN overlaps[i] |->
        InOrder({b \in Range(overlaps[i][k]) : i.start <= b.start /\ b.end <= i.end})]]

(* The blocks of a range are in order and remain so. *)
PruneOverlaps(overlaps) ==
  [i \in DOMAIN overlaps |->
     [k \in DOMAIN overlaps[i] |-> InOrder({b \in Range(overlaps[i][k]) : Overlaps(i, b)})]]

(* Unable to prune key *)
CannotPrune(pruned) == \E i \in DOMAIN pruned : <<>> \in Range(pruned[i])

(* Consecutive blocks are in one range unless more than this is between.  *)
SameRangeDiff == 1

(* How many ranges have ended before the n-th block. *)
Ended(blocks, n) ==
  Cardinality({m \in 2..n : blocks[m].start - blocks[m - 1].end > SameRangeDiff})

MakeRanges(blocks) ==
  LET Of(l) == {n \in DOMAIN blocks : Ended(blocks, n) = l - 1}
  IN  [l \in {Ended(blocks, n) + 1 : n \in DOMAIN blocks} |-> SubSeq(blocks, Min(Of(l)), Max(Of(l)))]

Span(range) == [start |-> range[1].start, end |-> range[Len(range)].end]

RangesToDict(ranges) == Assigned([l \in DOMAIN ranges |-> Span(ranges[l])], ranges)

(* ranges_to_interval_dict raises *)
RangesOverlap(ranges) ==
  \E i, j \in DOMAIN ranges : i < j /\ Overlaps(Span(ranges[i]), Span(ranges[j]))

(* Mutant: the starts of the blocks are compared. *)
LookBackMutant(blocks, i) ==
  {blocks[j] : j \in {j \in 1..i : \A k \in j..(i - 1) :
                                     blocks[i].start - blocks[k].start <= Window}}

(* The blocks before the i-th that are no more than the window away. *)
LookBack(blocks, i) ==
  {blocks[j] : j \in {j \in 1..i : \A k \in j..(i - 1) :
                                     blocks[i].start - blocks[k].end <= Window}}

(* windowed_grouping and identity_grouping, called for one input as the    *)
(* builder calls group_dep_ranges: the definitions of features/definitions *)
(* still have the signature of before, without the input.                  *)
Grouped(f, blocks) ==
  Assigned(blocks, [n \in DOMAIN blocks |->
                      IF f \in Windowed THEN LookBack(blocks, n) ELSE {blocks[n]}])

-----------------------------------------------------------------------------
(* build_feature_task_graph *)

Deps(f) == Range(Children[f])

Postorder[f \in Sources \cup Features] ==
  FlattenSeq([i \in DOMAIN Children[f] |-> Postorder[Children[f][i]]]) \o <<f>>

RangesOf(k) == IF k \in Sources THEN MakeRanges(data[k]) ELSE metas[k]

(* The ranges of an input are not known (KeyError), one has no block *)
(* (IndexError), or two overlap (ValueError).                        *)
Unusable(k) ==
  \/ k \in Features /\ k \notin DOMAIN metas
  \/ <<>> \in Range(RangesOf(k))
  \/ RangesOverlap(RangesOf(k))

CommonRanges(f) == PruneOverlaps(GetOverlaps([k \in Deps(f) |-> RangesToDict(RangesOf(k))]))

(* Per common range and block of the feature, the blocks of each input. *)
RangeGraph(f, ranges) ==
  [i \in DOMAIN ranges |-> GetOverlaps([k \in Deps(f) |-> Grouped(f, ranges[i][k])])]

(* dag[dep_feature][range_interval][dep_interval] *)
Resolves(graph) ==
  \A i \in DOMAIN graph : \A b \in DOMAIN graph[i] : \A k \in DOMAIN graph[i][b] :
    k \in DOMAIN dag /\ i \in DOMAIN dag[k] /\ graph[i][b][k] \subseteq DOMAIN dag[k][i]

(* A feature enters the dag with a block of its first range. *)
NeverEnters(f, graph) ==
  f \notin DOMAIN dag /\ graph # <<>> /\ DOMAIN graph[InOrder(DOMAIN graph)[1]] = {}

(* dict[k] = new[k] for all its keys *)
Updated(dict, new) ==
  [k \in DOMAIN dict \cup DOMAIN new |-> IF k \in DOMAIN new THEN new[k] ELSE dict[k]]

Enter(f, graph) ==
  IF graph = <<>> THEN dag
  ELSE Updated(dag, [k \in {f} |-> IF f \in DOMAIN dag THEN Updated(dag[f], graph) ELSE graph])

SourceGraph(ranges) ==
  [i \in {Span(r) : r \in Range(ranges)} |->
     [b \in Range(CHOOSE r \in Range(ranges) : Span(r) = i) |-> [k \in {} |-> {}]]]

Visiting(k) == status = "building" /\ visits # <<>> /\ k = Head(visits)

VisitSource(k) ==
  /\ Visiting(k) /\ k \in Sources
  /\ dag' = Enter(k, SourceGraph(MakeRanges(data[k])))
  /\ visits' = Tail(visits)
  /\ UNCHANGED <<inputs, request, metas, joined, status>>

BuildFails ==
  /\ status' = "build_error"
  /\ UNCHANGED <<visits, metas, dag>>

Build(f, graph) ==
  LET order == InOrder(DOMAIN graph)
      ranges == [n \in DOMAIN order |-> InOrder(DOMAIN graph[order[n]])]
  IN  /\ dag' = Enter(f, graph)
      /\ metas' = IF graph = <<>> THEN metas
                  ELSE Updated(metas, [k \in {f} |-> IF f \in DOMAIN metas THEN metas[f] \o ranges ELSE ranges])
      /\ visits' = Tail(visits)
      /\ UNCHANGED status

VisitFeature(f) ==
  /\ Visiting(f) /\ f \in Features
  /\ IF \E k \in Deps(f) : Unusable(k) THEN BuildFails
     ELSE LET ranges == CommonRanges(f)
              graph == RangeGraph(f, ranges)
          IN  IF CannotPrune(ranges) \/ ~Resolves(graph) \/ NeverEnters(f, graph)
              THEN BuildFails
              ELSE Build(f, graph)
  /\ UNCHANGED <<inputs, request, joined>>

(* Each requested feature is traversed with ranges of its own. *)
NextRequest ==
  /\ status = "building" /\ visits = <<>> /\ request < Len(requested)
  /\ request' = request + 1
  /\ visits' = Postorder[requested[request']]
  /\ metas' = <<>>
  /\ UNCHANGED <<inputs, dag, joined, status>>

-----------------------------------------------------------------------------
(* build_lookahead_graph and point_in_time_join_dag *)

SortedIntervals(s) == \A i \in 2..Len(s) : s[i - 1].end <= s[i].start

(* How far the label of the n-th block looks, and over which blocks. *)
Horizon(s, n) == Min({s[n].end + Lookahead, s[Len(s)].end})

(* Mutant: a block that the horizon cuts is left out. *)
AheadMutant(s, n) ==
  {s[m] : m \in {m \in n..Len(s) : \A l \in (n + 1)..m : s[l].end <= Horizon(s, n)}}

Ahead(s, n) ==
  {s[m] : m \in {m \in n..Len(s) : \A l \in (n + 1)..m :
     s[l].end <= Horizon(s, n) \/ (s[l].start <= Horizon(s, n) /\ Horizon(s, n) <= s[l].end)}}

(* The last block is truncated, or left out if nothing of it remains. *)
LookaheadGraph(s) ==
  LET cut == [s[Len(s)] EXCEPT !.end = @ - Lookahead]
      Group(i) == Ahead(s, IF i = cut THEN Len(s) ELSE CHOOSE n \in DOMAIN s : s[n] = i)
  IN  IF s = <<>> THEN <<>> ELSE
      [i \in {s[n] : n \in 1..(Len(s) - 1)} \cup (IF cut.end > cut.start THEN {cut} ELSE {}) |-> Group(i)]

(* The blocks of what is joined, per range: requested features and label. *)
NodeSets(asked, ahead, graphs) ==
  Updated([f \in Range(asked) |-> [i \in DOMAIN graphs[f] |-> DOMAIN graphs[f][i]]],
          [l \in {Label : x \in ahead} |->
             [i \in UNION {DOMAIN graphs[x] : x \in ahead} |->
                DOMAIN LookaheadGraph(InOrder(UNION {DOMAIN graphs[x][i] : x \in ahead}))]])

NodesOf == NodeSets(requested, label, dag)

(* The last value assigned at a point counts, as in any IntervalDict. *)
NodeDict(blocks) == Assigned(blocks, blocks)

RangeDict(ranges) ==
  LET order == InOrder(DOMAIN ranges)
  IN  Assigned(order, [n \in DOMAIN order |-> InOrder(ranges[order[n]])])

JoinRanges(nodes) == PruneOverlaps(GetOverlaps([f \in DOMAIN nodes |-> RangeDict(nodes[f])]))

(* Mutant: the first node instead of the previous one. *)
PrevMutant(d, b) ==
  LET nodes == InOrder(Range(d))
  IN  {nodes[1] : n \in {n \in 2..Len(nodes) : nodes[n] = b}}

(* get_prev_nodes: the node before in the range, if there is one. *)
Prev(d, b) ==
  LET nodes == InOrder(Range(d))
  IN  {nodes[n - 1] : n \in {n \in 2..Len(nodes) : nodes[n] = b}}

JoinBlocks(ranges) ==
  LET dicts == [f \in DOMAIN ranges |-> NodeDict(ranges[f])]
      overlaps == GetOverlaps(dicts)
  IN  [i \in DOMAIN overlaps |->
         [f \in DOMAIN ranges |-> [node |-> overlaps[i][f], prev |-> Prev(dicts[f], overlaps[i][f])]]]

(* A feature without a block, or ranges that overlap. *)
NotJoinable ==
  \/ \E f \in Range(requested) : f \notin DOMAIN dag
  \/ \E x \in label : \E i \in DOMAIN dag[x] : ~SortedIntervals(InOrder(DOMAIN dag[x][i]))
  \/ \E f \in DOMAIN NodesOf : \E i, j \in DOMAIN NodesOf[f] : i # j /\ Overlaps(i, j)

Join ==
  /\ status = "building" /\ visits = <<>> /\ request = Len(requested)
  /\ LET ranges == JoinRanges(NodesOf)
     IN  IF NotJoinable \/ CannotPrune(ranges)
         THEN status' = "join_error" /\ UNCHANGED joined
         ELSE /\ joined' = [i \in DOMAIN ranges |-> JoinBlocks(ranges[i])]
              /\ status' = "joined"
  /\ UNCHANGED <<inputs, request, visits, metas, dag>>

Init ==
  /\ data \in {d \in [Sources -> UNION Range(Inputs)] : \A k \in Sources : d[k] \in Inputs[k]}
  /\ requested \in Requests
  /\ label \in {{}} \cup {{f} : f \in Range(requested)}
  /\ request = 1 /\ visits = Postorder[requested[1]]
  /\ metas = <<>> /\ dag = <<>> /\ joined = <<>>
  /\ status = "building"

Next ==
  \/ \E k \in Sources : VisitSource(k)
  \/ \E f \in Features : VisitFeature(f)
  \/ NextRequest \/ Join

Spec == Init /\ [][Next]_vars

-----------------------------------------------------------------------------
(* Properties *)

Blocks(f) == UNION Range(NodesOf[f])
Covered(S) == UNION {Cells(i) : i \in S}
Within(a, b) == b.start <= a.start /\ a.end <= b.end

(* The join has a node for every moment that all the features and the label *)
(* have a block for, and for no other.                                      *)
JoinCoversWhatIsCommon ==
  status = "joined" =>
    Covered(UNION {DOMAIN joined[r] : r \in DOMAIN joined})
      = {c \in Covered(Blocks(requested[1])) : \A f \in DOMAIN NodesOf : c \in Covered(Blocks(f))}

(* What is joined at an interval are the nodes that have it, each with the  *)
(* one right before it.                                                     *)
JoinedNodesFit ==
  \A r \in DOMAIN joined : \A i \in DOMAIN joined[r] : \A f \in DOMAIN joined[r][i] :
    LET node == joined[r][i][f].node
        prev == joined[r][i][f].prev
    IN  /\ node \in Blocks(f) /\ Within(i, node)
        /\ \A p \in prev :
             Before(p, node) /\ ~\E b \in Blocks(f) : Before(p, b) /\ Before(b, node)
        /\ prev = {} => ~\E b \in Blocks(f) : Before(b, node) /\ Overlaps(b, r)

(* A block of a feature depends on the block of the input that it is in,   *)
(* and, if it looks back, on all those in the window before it, however    *)
(* many there are.                                                         *)
DependsOnItsWindow ==
  status # "building" =>
  \A f \in Features \cap DOMAIN dag : \A r \in DOMAIN dag[f] : \A i \in DOMAIN dag[f][r] :
    \A k \in Deps(f) : \E g \in DOMAIN dag[k][r] :
      /\ Within(i, g)
      /\ dag[f][r][i][k] =
           {b \in DOMAIN dag[k][r] : b = g \/ (f \in Windowed /\ Before(b, g) /\ g.start - b.end <= Window)}

(* The label of a block is made of all the blocks up to its horizon.       *)
LabelReachesItsHorizon ==
  status # "building" =>
  \A x \in label \cap DOMAIN dag : \A r \in DOMAIN dag[x] :
    LET s == InOrder(DOMAIN dag[x][r])
        graph == LookaheadGraph(s)
    IN  \A i \in DOMAIN graph :
          graph[i] = {b \in Range(s) : i.start <= b.start
                        /\ b.start <= Min({i.end + Lookahead, s[Len(s)].end})}

=============================================================================
