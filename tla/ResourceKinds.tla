--------------------------- MODULE ResourceKinds ---------------------------
(***************************************************************************)
(* What a resource of a container is made of, and how a copy of it is put  *)
(* into another one (box-resources).  A part is a whole path or a section  *)
(* of a YAML document; a document is a tree of maps, lists and scalars.    *)
(***************************************************************************)
EXTENDS Naturals, Sequences
LOCAL INSTANCE SequencesExt
LOCAL INSTANCE FiniteSetsExt
LOCAL INSTANCE Functions
LOCAL INSTANCE TLC

Absent == [t |-> "absent"]
Scalar(x) == [t |-> "scalar", v |-> x]
Map(f) == [t |-> "map", v |-> f]
List(s) == [t |-> "list", v |-> s]
EmptyMap == Map([k \in {} |-> Absent])
Get(value, key) == IF value.t = "map" /\ key \in DOMAIN value.v THEN value.v[key] ELSE Absent
Put(map, key, value) == Map([k \in DOMAIN map.v \cup {key} |-> IF k = key THEN value ELSE map.v[k]])
Drop(map, key) == Map(Restrict(map.v, DOMAIN map.v \ {key}))

\* A step of a section is a key of a map, or the item of a list that has an id,
\* and then what is below its config.
Key(k) == [layer |-> FALSE, name |-> k]
Layer(id) == [layer |-> TRUE, name |-> id]
\* The first item of the list with the id, or none.
layer_item(value, id) ==
  IF value.t = "list" THEN SelectInSeq(value.v, LAMBDA item : Get(item, "id") = Scalar(id)) ELSE 0

section_value(value, section) ==
  FoldLeft(LAMBDA v, step :
             IF ~step.layer THEN Get(v, step.name)
             ELSE IF layer_item(v, step.name) = 0 THEN Absent
             ELSE Get(v.v[layer_item(v, step.name)], "config"),
           value, section)

nest(section, value) ==
  FoldRight(LAMBDA step, v :
              IF step.layer THEN List(<<Map([id |-> Scalar(step.name), config |-> v])>>)
              ELSE Map([k \in {step.name} |-> v]),
            section, value)

\* Only the named value goes: an item of a list keeps its id and its name.
RECURSIVE remove_section(_, _)
remove_section(value, section) ==
  LET step == Head(section)  i == layer_item(value, step.name)
      Below(v) == IF Len(section) = 1 THEN Absent ELSE remove_section(v, Tail(section))
      Changed(map, key) ==
        IF Get(map, key) = Absent THEN map
        ELSE IF Len(section) = 1 THEN Drop(map, key) ELSE Put(map, key, Below(Get(map, key)))
  IN IF ~step.layer THEN Changed(value, step.name)
     ELSE IF i = 0 THEN value
     ELSE List([value.v EXCEPT ![i] = Changed(@, "config")])

RECURSIVE merge_value(_, _)
merge_value(base, overlay) ==
  LET Merged(list, item) ==
        LET i == IF Get(item, "id").t = "scalar" THEN layer_item(list, Get(item, "id").v) ELSE 0
        IN IF i = 0 THEN List(Append(list.v, item))
           ELSE List([list.v EXCEPT ![i] = merge_value(@, item)])
  IN IF base.t = "map" /\ overlay.t = "map"
     THEN Map([k \in DOMAIN base.v \cup DOMAIN overlay.v |->
                 IF k \notin DOMAIN overlay.v THEN base.v[k]
                 ELSE IF k \notin DOMAIN base.v THEN overlay.v[k]
                 ELSE merge_value(base.v[k], overlay.v[k])])
     ELSE IF base.t = "list" /\ overlay.t = "list" THEN FoldLeft(Merged, base, overlay.v)
     ELSE overlay

\* seeded fault: the whole document is what an overwrite replaces.
write_sectionWhole(doc, section, incoming, conflict) ==
  IF conflict = "refuse" /\ section_value(doc, section) # Absent THEN [ok |-> FALSE, doc |-> doc]
  ELSE [ok |-> TRUE,
        doc |-> merge_value(IF conflict = "overwrite" THEN EmptyMap ELSE doc, nest(section, incoming))]
\* write_section: what becomes of the document; a missing or empty file is an
\* empty map.
write_section(doc, section, incoming, conflict) ==
  LET there == IF doc = Absent THEN EmptyMap ELSE doc
      present == IF section = <<>> THEN doc # Absent ELSE section_value(there, section) # Absent
  IN IF conflict = "refuse" /\ present THEN [ok |-> FALSE, doc |-> doc]
     ELSE [ok |-> TRUE,
           doc |-> IF section = <<>>
                   THEN IF conflict = "overwrite" \/ ~present THEN incoming ELSE merge_value(doc, incoming)
                   ELSE merge_value(IF conflict = "overwrite" THEN remove_section(there, section) ELSE there,
                                    nest(section, incoming))]
-----------------------------------------------------------------------------
(* Entries: the paths of a tree, up to the depth of the kind. *)

Below(entry, at) == IsPrefix(at, entry)
\* What stands where an entry goes, or below it.
Held(dest, entry) == {e \in DOMAIN dest : Below(e, entry)}
\* A file where a directory of the entry would be.
Blocked(dest, entry) == \E e \in DOMAIN dest : e # entry /\ Below(entry, e)

\* inject_one, of a kind made of entries: the payload's are put in their order,
\* and the first that cannot be stops it.
InjectEntries(payload, dest, conflict) ==
  LET PutEntry(d, e) ==
        IF ~d.ok \/ Blocked(d.dest, e.path) THEN [d EXCEPT !.ok = FALSE]
        ELSE [d EXCEPT !.dest = (e.path :> e.data) @@ Restrict(@, DOMAIN @ \ Held(@, e.path))]
  IN IF conflict = "refuse" /\ \E k \in DOMAIN payload : Held(dest, payload[k].path) # {}
     THEN [ok |-> FALSE, dest |-> dest]
     ELSE FoldLeft(PutEntry, [ok |-> TRUE, dest |-> IF conflict = "overwrite" THEN <<>> ELSE dest], payload)

\* inject_one, of a single file.
InjectOpaque(doc, incoming, conflict) ==
  IF doc = Absent THEN [ok |-> TRUE, doc |-> incoming]
  ELSE IF conflict = "refuse" THEN [ok |-> FALSE, doc |-> doc]
  ELSE [ok |-> TRUE, doc |-> IF conflict = "merge" THEN merge_value(doc, incoming) ELSE incoming]
-----------------------------------------------------------------------------
(* Kinds *)

NoSlot == "none"
Always == 0
Never == 99
\* A version that cannot be read counts as lower than every bound.
spec_applies(spec, version) == spec.since <= version /\ version < spec.until

\* Of the candidates that apply the one with the highest lower bound, of equal
\* ones the last.
BestOf(specs, version) ==
  LET fits == {i \in DOMAIN specs : spec_applies(specs[i], version)}
      top == {i \in fits : \A j \in fits : specs[j].since <= specs[i].since}
  IN IF fits = {} THEN specs[1] ELSE specs[Max(top)]

select_specs(specs, profile, version) ==
  LET Candidates(slot) == SelectSeq(specs, LAMBDA s : s.slot = slot)
      Opens(i) == specs[i].slot = NoSlot \/ \A j \in 1 .. i - 1 : specs[j].slot # specs[i].slot
      Chosen(i) == IF specs[i].slot = NoSlot THEN specs[i] ELSE BestOf(Candidates(specs[i].slot), version)
      Resolved(s) == [path |-> [k \in DOMAIN s.path |-> IF s.path[k] = "{profile}" THEN profile ELSE s.path[k]],
                      section |-> s.section, slot |-> s.slot]
      opening == SelectSeq([i \in DOMAIN specs |-> i], Opens)
  IN [k \in DOMAIN opening |-> Resolved(Chosen(opening[k]))]

Part(path, section, slot, since, until) ==
  [path |-> path, section |-> section, slot |-> slot, since |-> since, until |-> until]
\* The built-in kind of AI provider credentials; versions 0.1.n as n.
Credentials ==
  <<Part(<<"credentials">>, <<>>, NoSlot, Always, Never),
    Part(<<"settings">>, <<Key("llm-pi-ai")>>, "provider-route", Always, 7),
    Part(<<"profiles", "{profile}", "patch">>, <<Layer("llm-pi-ai")>>, "provider-route", 7, Never)>>
PartsFor(container) == select_specs(Credentials, container.profile, container.version)

At(files, path) == IF path \in DOMAIN files THEN files[path] ELSE Absent
\* extract_parts: one missing part and nothing is taken.
Extracted(container, parts) ==
  LET Value(p) == section_value(At(container.files, p.path), p.section)
  IN [ok |-> \A k \in DOMAIN parts : Value(parts[k]) # Absent,
      values |-> [k \in DOMAIN parts |-> Value(parts[k])]]

\* A part with a slot goes where the target keeps that slot.
retarget_parts(target, recorded) ==
  LET fresh == PartsFor(target)
      Same(p) == SelectInSeq(fresh, LAMBDA f : f.slot = p.slot)
  IN [k \in DOMAIN recorded |->
        IF recorded[k].slot = NoSlot \/ Same(recorded[k]) = 0 THEN recorded[k] ELSE fresh[Same(recorded[k])]]

\* inject_parts: one after the other; the first that fails stops it.
inject_parts(files, parts, values, conflict) ==
  FoldLeft(LAMBDA done, k :
             IF ~done.ok THEN done
             ELSE LET p == parts[k]  here == At(done.files, p.path)
                      new == IF p.section = <<>> THEN InjectOpaque(here, values[k], conflict)
                             ELSE write_section(here, p.section, values[k], conflict)
                  IN [ok |-> new.ok, files |-> IF new.ok THEN (p.path :> new.doc) @@ done.files ELSE done.files],
           [ok |-> TRUE, files |-> files], [k \in DOMAIN parts |-> k])

\* A stored copy of the credentials of one container put into another.
Carried(source, target, conflict) ==
  LET parts == PartsFor(source)  taken == Extracted(source, parts)
  IN IF ~taken.ok THEN [ok |-> FALSE, files |-> target.files]
     ELSE inject_parts(target.files, retarget_parts(target, parts), taken.values, conflict)
\* Straight from the container, without a stored copy: the first part alone.
CarriedDirectly(source, target, conflict) ==
  LET parts == SubSeq(PartsFor(source), 1, 1)  taken == Extracted(source, parts)
  IN IF ~taken.ok THEN [ok |-> FALSE, files |-> target.files]
     ELSE inject_parts(target.files, parts, taken.values, conflict)
-----------------------------------------------------------------------------
(* What a container knows: the built-in kinds, then what packages declare. *)

Builtin == <<[id |-> "sessions", path |-> "sessions", secret |-> FALSE],
             [id |-> "credentials", path |-> "credentials", secret |-> TRUE]>>
\* Of two with one id and one path the first stays.
discover(declared) ==
  LET found == Builtin \o declared
      First(i) == \A j \in 1 .. i - 1 : found[j].id # found[i].id \/ found[j].path # found[i].path
  IN [k \in DOMAIN SelectSeq([i \in DOMAIN found |-> i], First) |->
        found[SelectSeq([i \in DOMAIN found |-> i], First)[k]]]
resolve_kind(declared, id, dest) ==
  LET found == discover(declared)
      i == SelectInSeq(found, LAMBDA f : f.id = id /\ (dest = NoSlot \/ f.path = dest))
  IN IF i # 0 THEN [ok |-> TRUE, kind |-> found[i]]
     ELSE IF dest # NoSlot
          THEN [ok |-> TRUE, kind |-> [id |-> id, path |-> dest, secret |-> id = "credentials"]]
     ELSE [ok |-> FALSE]
=============================================================================
