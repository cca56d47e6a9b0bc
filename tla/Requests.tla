------------------------------ MODULE Requests ------------------------------
(***************************************************************************)
(* What a request asks for, before it is work: which container it means    *)
(* (box-containers/src/resolve.rs) and which keys its task holds           *)
(* (dshboxd/src/dispatch.rs, workspaces.rs, resources.rs).  Two tasks      *)
(* without a common key run side by side.                                  *)
(*                                                                         *)
(* A text is the sequence of the parts between its dashes.  A store is     *)
(* the sequence of the directories below instances/ in the order in which  *)
(* they are read, each with what its container.json says.                  *)
(***************************************************************************)
EXTENDS Naturals, Sequences, FiniteSets, SequencesExt

CONSTANTS NotSaid, Spaced, Dotted  \* parts with a space, and with nothing but dots

Refused == [ok |-> FALSE]
Found(id, dir) == [ok |-> TRUE, id |-> id, dir |-> dir]
-----------------------------------------------------------------------------
(* Which container is meant *)

is_safe_identifier(text) == \A i \in DOMAIN text : text[i] \notin Spaced
check_joinable(text) == is_safe_identifier(text) /\ \A i \in DOMAIN text : text[i] \notin Dotted

\* The records that can be read and have a version, under their own id: of two
\* with one id the later.
scan_containers(store) ==
  LET Listed(i) == store[i].id # NotSaid /\ store[i].versioned
  IN {[id |-> store[i].id, dir |-> store[i].dir, name |-> IF store[i].name = NotSaid THEN store[i].id ELSE store[i].name] :
        i \in {k \in DOMAIN store : Listed(k) /\ \A l \in k + 1 .. Len(store) : Listed(l) => store[l].id # store[k].id}}

\* seeded fault: the first of several that match.
one_ofFirst(candidates) == LET c == CHOOSE d \in candidates : TRUE IN Found(c.id, c.dir)
\* One match is a match; several are never a guess.
one_of(candidates) ==
  IF Cardinality(candidates) = 1 THEN LET c == CHOOSE d \in candidates : TRUE IN Found(c.id, c.dir) ELSE Refused

\* The id; the id without its prefix; its beginning; the name.  The first of
\* these that matches anything decides.
match_container(containers, raw) ==
  LET ByRule(rule, c) ==
        CASE rule = 1 -> c.id = raw
          [] rule = 2 -> c.id = <<"container">> \o raw
          [] rule = 3 -> IsStrictPrefix(<<"container">> \o raw, c.id)
          [] rule = 4 -> c.name = raw
      Matching(rule) == {c \in containers : ByRule(rule, c)}
      rules == {rule \in 1 .. 4 : Matching(rule) # {}}
  IN IF raw = <<>> \/ rules = {} THEN Refused
     ELSE one_of(Matching(CHOOSE rule \in rules : \A other \in rules : rule <= other))

\* The directory of that very name answers alone, when its record says the same.
fast_lookup(store, raw) ==
  LET same == {i \in DOMAIN store : store[i].dir = raw /\ store[i].id = raw}
  IN IF check_joinable(raw) /\ same # {} THEN Found(raw, raw) ELSE Refused
resolve_container_in_root(store, raw) ==
  IF raw = <<>> THEN Refused
  ELSE IF fast_lookup(store, raw).ok THEN fast_lookup(store, raw)
  ELSE match_container(scan_containers(store), raw)
-----------------------------------------------------------------------------
(* Which keys a task holds, and what it works on *)

Container(id) == <<"container">> \o <<id>>
Extensions == <<"repository", "extensions">>
Versions == <<"repository", "dsh-versions">>
Mirror == <<"harness-mirror">>

\* A task: its keys; the container directory its work opens; and which of the
\* things all containers share it changes or only reads.
Work(keys, home, changes, reads) ==
  [ok |-> TRUE, keys |-> keys, home |-> home, changes |-> changes, reads |-> reads]
\* seeded fault: the key of a container is what the caller called it.
OnContainerRaw(store, raw, more, changes, reads) ==
  LET found == resolve_container_in_root(store, raw)
  IN IF raw # <<>> /\ found.ok THEN Work({Container(raw)} \cup more, found.id, changes, reads) ELSE Refused
\* The key has the resolved id, and so has the path that the work opens.
OnContainer(store, raw, more, changes, reads) ==
  LET found == resolve_container_in_root(store, raw)
  IN IF raw # <<>> /\ found.ok THEN Work({Container(found.id)} \cup more, found.id, changes, reads) ELSE Refused
IfSafe(raw, task) == IF is_safe_identifier(raw) THEN task ELSE Refused

enqueue_build(r) == Work({Extensions}, NotSaid, {"templates"}, {"bases"})
enqueue_dsh_catalog_refresh(r) == Work({Versions}, NotSaid, {"catalog"}, {})
enqueue_pull_template(r) ==
  IF r.ref = <<>> THEN Refused
  ELSE Work({<<"runtime">> \o r.ref, Mirror, Versions}, NotSaid, {"bases", "mirror"}, {})
enqueue_purge_harness_mirror(r) == Work({Mirror}, NotSaid, {"mirror"}, {})
enqueue_repository_import(r) == IF r.path = <<>> THEN Refused ELSE Work({Extensions}, NotSaid, {"extensions"}, {})
enqueue_repository_export(r) ==
  IF r.ref = <<>> \/ r.path = <<>> THEN Refused ELSE Work({Extensions}, NotSaid, {}, {"extensions"})
enqueue_bundle_export(r) ==
  IF r.ref = <<>> \/ r.path = <<>> THEN Refused ELSE Work({Extensions}, NotSaid, {}, {"extensions"})
enqueue_bundle_import(r) == IF r.path = <<>> THEN Refused ELSE Work({Extensions}, NotSaid, {"extensions"}, {})
\* The container is new, and started in the same task.
enqueue_template_container(r) == Work({Extensions}, NotSaid, {}, {"templates"})

enqueue_container_start(store, r) == OnContainer(store, r.raw, {}, {}, {})
enqueue_container_stop(store, r) == OnContainer(store, r.raw, {}, {}, {})
enqueue_container_rebuild(store, r) == OnContainer(store, r.raw, {}, {}, {})
enqueue_container_restart(store, r) == OnContainer(store, r.raw, {}, {}, {})
add_container_workspace(store, r) == IF r.path = <<>> THEN Refused ELSE OnContainer(store, r.raw, {}, {}, {})
enqueue_resource_inject(store, r) == OnContainer(store, r.raw, {}, {}, {})
enqueue_container_extension_add(store, r) ==
  IfSafe(r.raw, IF r.path = <<>> THEN Refused ELSE OnContainer(store, r.raw, {}, {}, {}))
\* Absolute paths and parents are refused: here, one with a dotted part.
enqueue_workspace_extension_import(store, r) ==
  IfSafe(r.raw, IF r.path = <<>> \/ ~check_joinable(r.path) THEN Refused
              ELSE OnContainer(store, r.raw, {Extensions}, {"extensions"}, {}))
enqueue_container_extension_copy(store, r) ==
  IfSafe(r.raw, IF ~is_safe_identifier(r.ref) THEN Refused
              ELSE OnContainer(store, r.raw, {Extensions}, {}, {"extensions"}))
\* The key names no container.
enqueue_container_plugin_add(store, r) ==
  LET found == resolve_container_in_root(store, r.raw)
  IN IF r.raw = <<>> \/ r.ref = <<>> \/ ~found.ok THEN Refused
     ELSE Work({<<"container", "extensions">>}, found.id, {}, {})
\* These two do not resolve: the key and the directory are what the caller said.
enqueue_plugin_export(r) ==
  IF r.raw = <<>> \/ r.path = <<>> THEN Refused ELSE IfSafe(r.raw, Work({Container(r.raw)}, r.raw, {}, {}))
enqueue_container_bundle_install(r) ==
  IF r.raw = <<>> \/ r.ref = <<>> THEN Refused
  ELSE IfSafe(r.raw, Work({Container(r.raw)}, r.raw, {}, {"extensions"}))

Methods ==
  {"build", "catalog", "pull", "purge", "import", "export", "bundle_export", "bundle_import", "run",
   "start", "stop", "rebuild", "restart", "workspace", "inject", "add", "workspace_import", "copy",
   "plugin_add", "plugin_export", "bundle_install"}
\* The task of a request.
dispatch(store, r) ==
  CASE r.method = "build" -> enqueue_build(r)
    [] r.method = "catalog" -> enqueue_dsh_catalog_refresh(r)
    [] r.method = "pull" -> enqueue_pull_template(r)
    [] r.method = "purge" -> enqueue_purge_harness_mirror(r)
    [] r.method = "import" -> enqueue_repository_import(r)
    [] r.method = "export" -> enqueue_repository_export(r)
    [] r.method = "bundle_export" -> enqueue_bundle_export(r)
    [] r.method = "bundle_import" -> enqueue_bundle_import(r)
    [] r.method = "run" -> enqueue_template_container(r)
    [] r.method = "start" -> enqueue_container_start(store, r)
    [] r.method = "stop" -> enqueue_container_stop(store, r)
    [] r.method = "rebuild" -> enqueue_container_rebuild(store, r)
    [] r.method = "restart" -> enqueue_container_restart(store, r)
    [] r.method = "workspace" -> add_container_workspace(store, r)
    [] r.method = "inject" -> enqueue_resource_inject(store, r)
    [] r.method = "add" -> enqueue_container_extension_add(store, r)
    [] r.method = "workspace_import" -> enqueue_workspace_extension_import(store, r)
    [] r.method = "copy" -> enqueue_container_extension_copy(store, r)
    [] r.method = "plugin_add" -> enqueue_container_plugin_add(store, r)
    [] r.method = "plugin_export" -> enqueue_plugin_export(r)
    [] r.method = "bundle_install" -> enqueue_container_bundle_install(r)
=============================================================================
