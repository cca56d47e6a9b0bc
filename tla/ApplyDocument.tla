---------------------------- MODULE ApplyDocument ----------------------------
(***************************************************************************)
(* The resource types pinned to the navigation, and the document that says *)
(* which types are pinned and which copies are taken.  The store is the    *)
(* views by id and the rows of the copies; a container is named by the     *)
(* strings that resolve to it.                                             *)
(***************************************************************************)
EXTENDS Sequences, Functions, SequencesExt

CONSTANTS
  NotSaid,
  Slot,           \* the kinds every container has, each with its path
  Known,          \* the names of containers that resolve, each with its id
  Fate,           \* how the extraction of a kind ends
  Clean(_)        \* a path with its separators replaced

Empty == <<>>
Or(a, b) == IF a # NotSaid THEN a ELSE b

\* A kind a container has, or one only the path says.
resolve_kind(kind, path) ==
  IF kind \in DOMAIN Slot /\ path \in {NotSaid, Slot[kind]} THEN [ok |-> TRUE, path |-> Slot[kind], label |-> kind]
  ELSE IF path # NotSaid THEN [ok |-> TRUE, path |-> path, label |-> path]
  ELSE [ok |-> FALSE]

build_id(kind, container, path) == <<kind, container, IF path = NotSaid THEN "" ELSE Clean(path)>>

\* Adding a type again edits its row and switches it on.
add_resource_view(views, kind, container, path, label, now) ==
  LET id == build_id(kind, container, path)
      found == resolve_kind(kind, path)
  IN (id :> [kind |-> kind, container |-> container, path |-> found.path, label |-> Or(label, found.label),
             enabled |-> TRUE, created |-> IF id \in DOMAIN views THEN views[id].created ELSE now]) @@ views
set_resource_view_enabled(views, id, enabled) ==
  IF id \in DOMAIN views THEN [views EXCEPT ![id].enabled = enabled] ELSE views
delete_resource_view(views, id) == Restrict(views, DOMAIN views \ {id})
list_resource_views(views) == {[id |-> id, enabled |-> views[id].enabled] : id \in DOMAIN views}

\* Every container that can resolve a kind, and the copies taken of it.
list_resource_type(containers, kind, path, copies) ==
  [rows |-> {[container |-> c, path |-> resolve_kind(kind, path).path] : c \in {d \in containers : resolve_kind(kind, path).ok}},
   stored |-> SelectSeq(copies, LAMBDA r : r.kind = kind)]

Outcome(action, target, status) == [action |-> action, target |-> target, status |-> status]
Failed(acc) == [acc EXCEPT !.ok = FALSE]
Reports(acc, action, target, status) == [acc EXCEPT !.outcomes = Append(@, Outcome(action, target, status))]

ApplyType(acc, doc, spec, dry, now) ==
  LET container == Or(spec.container, doc.container)
      found == resolve_kind(spec.kind, spec.path)
  IN IF ~acc.ok THEN acc
     ELSE IF container \notin DOMAIN Known THEN Failed(acc)
     ELSE IF dry THEN Reports(acc, "type", spec, "would-apply")
     ELSE IF ~found.ok THEN Reports(acc, "type", spec, "failed")
     ELSE Reports([acc EXCEPT !.views = add_resource_view(@, spec.kind, Known[container], spec.path, spec.label, now)],
                  "type", spec, "applied")

\* The extraction is over before it is looked at; the states are compared as
\* apply.rs spells them, with the record's own spelling.
Extracted(spec) ==
  IF resolve_kind(spec.kind, spec.path).ok /\ spec.kind \in DOMAIN Fate THEN Fate[spec.kind] ELSE "failed"
Terminal == {"Succeeded", "Cancelled", "Interrupted", "RolledBack"}
extract_and_wait(status) == IF status \in Terminal /\ status = "Succeeded" THEN "applied" ELSE "failed"

stored_copy_names(copies) == {copies[i].name : i \in DOMAIN copies}
ApplyCopy(acc, doc, spec, dry, existing) ==
  LET container == Or(spec.from, Or(spec.container, doc.container))
  IN IF ~acc.ok THEN acc
     ELSE IF container \notin DOMAIN Known THEN Failed(acc)
     ELSE IF spec.name \in existing THEN Reports(acc, "copy", spec, "exists")
     ELSE IF dry THEN Reports(acc, "copy", spec, "would-apply")
     ELSE Reports([acc EXCEPT !.copies = IF Extracted(spec) = "succeeded"
                                         THEN Append(@, [name |-> spec.name, kind |-> spec.kind, of |-> Known[container]])
                                         ELSE @],
                  "copy", spec, extract_and_wait(Extracted(spec)))

apply_document_rpc(store, doc, dry, now) ==
  LET start == [ok |-> doc.types # <<>> \/ doc.copies # <<>>, outcomes |-> <<>>, views |-> store.views, copies |-> store.copies]
      typed == FoldLeft(LAMBDA acc, spec : ApplyType(acc, doc, spec, dry, now), start, doc.types)
  IN FoldLeft(LAMBDA acc, spec : ApplyCopy(acc, doc, spec, dry, stored_copy_names(store.copies)), typed, doc.copies)
=============================================================================
