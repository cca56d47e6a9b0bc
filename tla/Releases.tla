------------------------------ MODULE Releases ------------------------------
(***************************************************************************)
(* Release names: how the catalogue of a harness orders them, how the      *)
(* updater compares them, and what is listed, offered and installed by     *)
(* them.  A name is what stands before its first digit, its numbers (-1 is *)
(* a part that is no number), whether a dash follows, the identifiers      *)
(* after it, and whether build metadata ends it.  A textual identifier is  *)
(* its place in the byte order; 0 is the empty one.                        *)
(***************************************************************************)
EXTENDS Integers, Sequences, FiniteSets, SequencesExt

CONSTANTS NotSaid, Unsafe,   \* the names no directory may have
          ByName(_, _)       \* the byte order of names

Latest == [lead |-> "latest", nums |-> <<>>, dash |-> FALSE, pre |-> <<>>, build |-> FALSE]
Number(v) == [text |-> FALSE, v |-> v]
Text(v) == [text |-> TRUE, v |-> v]
Padded(nums) == [i \in 1 .. IF Len(nums) < 3 THEN 3 ELSE Len(nums) |-> IF i <= Len(nums) THEN nums[i] ELSE 0]

\* The shorter of two sequences that agree is the smaller.
Smaller(a, b, Less(_, _)) ==
  \/ \E i \in DOMAIN a \cap DOMAIN b : Less(a[i], b[i]) /\ \A j \in 1 .. i - 1 : a[j] = b[j]
  \/ Len(a) < Len(b) /\ a = SubSeq(b, 1, Len(a))
LessNumber(m, n) == m < n
\* Numbers stand before text.
Identifier(p, q) == IF p.text = q.text THEN p.v < q.v ELSE q.text
OlderRelease(r, s) ==
  \/ Smaller(r.numbers, s.numbers, LessNumber)
  \/ /\ r.numbers = s.numbers
     /\ \/ r.pre # <<>> /\ s.pre = <<>>
        \/ r.pre # <<>> /\ s.pre # <<>> /\ Smaller(r.pre, s.pre, Identifier)

\* THE CATALOGUE (box-dsh-versions).  Build metadata is part of the last piece.
LastText(p) == Text(IF p.text THEN 2 * p.v + 1 ELSE 1)
parse_release(name) ==
  IF name.nums = <<>> \/ (\E i \in DOMAIN name.nums : name.nums[i] < 0) \/ (name.build /\ name.pre = <<>> /\ ~name.dash)
  THEN NotSaid
  ELSE [numbers |-> Padded(name.nums),
        pre |-> LET whole == [i \in DOMAIN name.pre |->
                                IF i = Len(name.pre) /\ name.build THEN LastText(name.pre[i])
                                ELSE IF name.pre[i].text THEN Text(2 * name.pre[i].v) ELSE name.pre[i]]
                IN SelectSeq(whole, LAMBDA p : p # Text(0))]
Rank(name) == IF name = Latest THEN 0 ELSE IF parse_release(name) = NotSaid THEN 2 ELSE 1
\* Names in the order of the catalogue.
order_of(a, b) ==
  \/ Rank(a) < Rank(b)
  \/ /\ Rank(a) = Rank(b)
     /\ IF Rank(a) = 1 /\ parse_release(a) # parse_release(b)
        THEN OlderRelease(parse_release(b), parse_release(a)) ELSE ByName(a, b)
sort_catalog(entries) ==
  SetToSortSeq(entries, LAMBDA x, y : order_of(x.name, y.name))

\* index: the prepared bases, each a version and whether its directory is whole.
list_dsh_versions_derived(index, remote) ==
  LET own == {r.version : r \in index} \ Unsafe
      names == own \cup (remote \ Unsafe) \cup {Latest}
  IN sort_catalog({[name |-> n, installed |-> \E r \in index : r.version = n /\ r.whole] : n \in names})
list_installed_dsh_versions(index) == {r.version : r \in index}

\* THE UPDATER (box-updates).
parse(name) ==
  IF \/ name.lead \notin {"", "v"} \/ name.nums = <<>> \/ \E i \in DOMAIN name.nums : name.nums[i] < 0
     \/ name.dash /\ name.pre = <<>>
  THEN NotSaid ELSE [nums |-> name.nums, pre |-> name.pre]
At(nums, i) == IF i <= Len(nums) THEN nums[i] ELSE 0
Wide(v, w) == [numbers |-> [i \in 1 .. IF Len(v.nums) > Len(w.nums) THEN Len(v.nums) ELSE Len(w.nums) |-> At(v.nums, i)],
               pre |-> v.pre]
compare(v, w) ==
  IF OlderRelease(Wide(v, w), Wide(w, v)) THEN "less"
  ELSE IF OlderRelease(Wide(w, v), Wide(v, w)) THEN "greater" ELSE "equal"
is_newer(candidate, current) ==
  parse(candidate) # NotSaid /\ parse(current) # NotSaid /\ compare(parse(candidate), parse(current)) = "greater"
same_version(left, right) ==
  parse(left) # NotSaid /\ parse(right) # NotSaid /\ compare(parse(left), parse(right)) = "equal"

\* A release manifest: its schema, its floor, and the installers of this machine.
read_manifest(m) == m.schema = 1
assets_for(m) == m.assets
preferred_asset(m, preferred) ==
  LET Of(kind) == SelectInSeq(m.assets, LAMBDA a : a = kind)
      wanted == SelectSeq(preferred, LAMBDA kind : Of(kind) # 0)
  IN IF assets_for(m) = <<>> THEN NotSaid
     ELSE IF wanted # <<>> THEN m.assets[Of(wanted[1])] ELSE m.assets[1]
installable_from(m, current) ==
  m.floor = NotSaid \/ is_newer(current, m.floor) \/ same_version(current, m.floor)
=============================================================================
