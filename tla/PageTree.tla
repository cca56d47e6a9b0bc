------------------------------ MODULE PageTree ------------------------------
(***************************************************************************)
(* What the page tools compute from an answer of the browser: the listing  *)
(* of a page, the control a name stands for, the console's summary and the *)
(* screenshots that are kept.                                              *)
(*                                                                         *)
(* An accessibility tree is the sequence Accessibility.getFullAXTree       *)
(* returns, parents before children: [parent, role, name, valued, ignored, *)
(* disabled, placed], where parent is an index or 0, valued says that the  *)
(* node has a value and placed that it has a box with a size.  Letter case *)
(* is left out, and a role filter names a whole role.                      *)
(***************************************************************************)
EXTENDS Naturals, Sequences, SequencesExt, FiniteSets

CONSTANTS
  NoName,     \* an argument that was not given
  Similar(_, _), \* the names near_miss_names offers for a name
  ChainCap    \* ancestors followed before a chain is given up

StructuralNoise == {"none", "presentation", "generic", "InlineTextBox", "LineBreak",
                    "Separator", "ScrollBar", "ScrollArea", "RootWebArea"}
ClickableRole == {"button", "link", "checkbox", "radio", "switch", "menuitem", "menuitemcheckbox",
                  "menuitemradio", "option", "tab", "textbox", "searchbox", "combobox",
                  "slider", "spinbutton", "treeitem"}

\* A node and its ancestors, innermost first.
Chain(tree) ==
  LET chain[i \in DOMAIN tree] ==
        IF tree[i].parent = 0 THEN <<i>> ELSE <<i>> \o chain[tree[i].parent]
  IN [i \in DOMAIN tree |-> SubSeq(chain[i], 1, IF Len(chain[i]) < ChainCap THEN Len(chain[i]) ELSE ChainCap)]

On(chain) == Range(chain)
Indices(tree) == [i \in DOMAIN tree |-> i]
-----------------------------------------------------------------------------
(* page_text: the listing of a page. *)

InsideControl(tree, i) == tree[i].parent # 0 /\ tree[tree[i].parent].role \in ClickableRole
IsListableText(tree, i) ==
  tree[i].role = "StaticText" /\ tree[i].name # NoName /\ ~InsideControl(tree, i)

Reportable(tree, role, i) ==
  /\ ~tree[i].ignored
  /\ tree[i].role \in StructuralNoise => IsListableText(tree, i)
  /\ role \in {NoName, tree[i].role}
  /\ tree[i].name # NoName \/ tree[i].valued

AllReported(tree, role) == SelectSeq(Indices(tree), LAMBDA i : Reportable(tree, role, i))
\* The first `limit` nodes worth reporting.
FirstReported(tree, limit, role) ==
  LET all == AllReported(tree, role) IN SubSeq(all, 1, IF Len(all) <= limit THEN Len(all) ELSE limit)

\* seeded fault: text goes whenever any node repeats it.
IsEcho(tree, listed, i) ==
  tree[i].role = "StaticText" /\ \E j \in On(listed) \ {i} : tree[j].name = tree[i].name
\* The text that repeats a listed control's name is dropped.
IsLabel(tree, listed, i) ==
  /\ tree[i].role = "StaticText"
  /\ \E j \in On(listed) : tree[j].role \in ClickableRole /\ tree[j].name = tree[i].name
WithoutLabels(tree, listed) == SelectSeq(listed, LAMBDA i : ~IsLabel(tree, listed, i))

\* The node a scope name stands for: the nearest ancestor, of what was found
\* under that name, that is an ancestor of any listed node.
ScopeNode(chain, chains) ==
  LET holds == SelectSeq(chain, LAMBDA a : \E i \in DOMAIN chains : a \in On(Tail(chains[i])))
  IN IF holds = <<>> THEN chain[1] ELSE holds[1]

\* One chain per listed node, taken before the labels are dropped and matched
\* by position with what is left after it.
Scoped(tree, listed, kept, within) ==
  LET chains == [k \in DOMAIN listed |-> Chain(tree)[listed[k]]]
      named == SelectInSeq(kept, LAMBDA i : tree[i].name = within)
      scope == ScopeNode(chains[named], chains)
      at == SelectSeq([k \in DOMAIN kept |-> k], LAMBDA k : scope \in On(chains[k]))
  IN IF named = 0 THEN [ok |-> FALSE, elements |-> <<>>]
     ELSE [ok |-> TRUE, elements |-> [k \in DOMAIN at |-> kept[at[k]]]]

PageText(tree, limit, role, within) ==
  LET listed == FirstReported(tree, limit, role)
      kept == WithoutLabels(tree, listed)
      scoped == IF within = NoName THEN [ok |-> TRUE, elements |-> kept] ELSE Scoped(tree, listed, kept, within)
  IN [ok |-> scoped.ok, elements |-> scoped.elements, truncated |-> Len(AllReported(tree, role)) > limit]
-----------------------------------------------------------------------------
(* locate_by_name: the control a name stands for. *)

\* The chain of the innermost node with the scope's name.
WithinChains(tree, within) ==
  {Chain(tree)[i] : i \in {j \in DOMAIN tree : tree[j].name = within}}
InScope(tree, within, i) ==
  \/ within = NoName
  \/ \E shortest \in WithinChains(tree, within) :
       /\ \A c \in WithinChains(tree, within) : Len(shortest) <= Len(c)
       /\ On(Chain(tree)[i]) \cap On(shortest) # {}

\* seeded fault: only what takes a click is looked at.
MatchesControls(tree, name, role, within, i) ==
  /\ ~tree[i].ignored
  /\ InScope(tree, within, i)
  /\ tree[i].name = name
  /\ role \in {NoName, tree[i].role}
  /\ tree[i].role \in ClickableRole
Matches(tree, name, role, within, i) ==
  /\ ~tree[i].ignored
  /\ InScope(tree, within, i)
  /\ tree[i].name = name
  /\ role \in {NoName, tree[i].role}
  /\ tree[i].role \notin StructuralNoise

\* seeded fault: of several controls the first is taken.
PickFirst(found, nth) ==
  IF nth = NoName THEN [out |-> "at", node |-> found[1]]
  ELSE IF nth + 1 \in DOMAIN found THEN [out |-> "at", node |-> found[nth + 1]]
  ELSE [out |-> "no_entry", node |-> 0]
\* nth counts from zero.
Pick(found, nth) ==
  IF nth = NoName
  THEN IF Len(found) = 1 THEN [out |-> "at", node |-> found[1]] ELSE [out |-> "several", node |-> 0]
  ELSE IF nth + 1 \in DOMAIN found THEN [out |-> "at", node |-> found[nth + 1]]
  ELSE [out |-> "no_entry", node |-> 0]

\* Nothing the tree offers can be pressed: why, or what the rendered text has.
NotFound(tree, name, within, unplaceable, inDom) ==
  [out |-> IF within # NoName /\ \E i \in DOMAIN tree : tree[i].name = name THEN "not_inside"
           ELSE IF unplaceable THEN "unplaceable"
           ELSE IF inDom THEN "by_text"
           ELSE IF \E i \in DOMAIN tree : ~tree[i].ignored /\ Similar(name, tree[i].name) THEN "near"
           ELSE "nothing",
   node |-> 0]

LocateByName(tree, name, role, nth, within, inDom) ==
  LET match == SelectSeq(Indices(tree), LAMBDA i : Matches(tree, name, role, within, i))
      found == SelectSeq(match, LAMBDA i : tree[i].placed)
  IN IF within # NoName /\ WithinChains(tree, within) = {} THEN [out |-> "no_scope", node |-> 0]
     ELSE IF \E i \in On(match) : tree[i].disabled THEN [out |-> "disabled", node |-> 0]
     ELSE IF found = <<>> THEN NotFound(tree, name, within, match # <<>>, inDom)
     ELSE Pick(found, nth)
-----------------------------------------------------------------------------
(* console: the events since the last read, and the screenshots kept. *)

\* seeded fault: only neighbours are merged.
CountedRuns(entries) ==
  FoldLeft(LAMBDA acc, e :
             IF acc # <<>> /\ Last(acc).what = e THEN [acc EXCEPT ![Len(acc)].count = @ + 1]
             ELSE Append(acc, [what |-> e, count |-> 1]),
           <<>>, entries)
\* Equal entries are counted once, where the first of them stood.
Counted(entries) ==
  FoldLeft(LAMBDA acc, e :
             LET k == SelectInSeq(acc, LAMBDA x : x.what = e)
             IN IF k = 0 THEN Append(acc, [what |-> e, count |-> 1]) ELSE [acc EXCEPT ![k].count = @ + 1],
           <<>>, entries)

ConsoleReply(events, levels, limit) ==
  LET wanted == SelectSeq(events, LAMBDA e : e.level \in levels)
      all == Counted(wanted)
  IN [entries |-> SubSeq(all, 1, IF Len(all) < limit THEN Len(all) ELSE limit),
      total |-> Len(all), truncated |-> Len(all) > limit]

\* seeded fault: the newest go first.
PrunedNewest(files, keep) ==
  LET Newer(i, j) == files[i] > files[j] \/ (files[i] = files[j] /\ i < j)
      excess == IF Len(files) > keep THEN Len(files) - keep ELSE 0
  IN {i \in DOMAIN files : Cardinality({j \in DOMAIN files : Newer(j, i)}) < excess}
\* prune_screenshots: the oldest files beyond the number to keep, ties in
\* directory order.  files is a sequence of modification times.
Pruned(files, keep) ==
  LET Older(i, j) == files[i] < files[j] \/ (files[i] = files[j] /\ i < j)
      excess == IF Len(files) > keep THEN Len(files) - keep ELSE 0
  IN {i \in DOMAIN files : Cardinality({j \in DOMAIN files : Older(j, i)}) < excess}
=============================================================================
