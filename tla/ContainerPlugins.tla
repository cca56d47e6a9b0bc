-------------------------- MODULE ContainerPlugins --------------------------
(***************************************************************************)
(* What is installed in one profile of a container: the manifest that      *)
(* lists the plugins the host loads, the packages below node_modules, the  *)
(* records of state/extensions.json, and the skills.  Tasks on the         *)
(* container hold the key container:<id> and run one at a time; adding a   *)
(* package by its spec holds container:extensions, and a removal, answered *)
(* by the connection's thread, holds nothing: neither waits for them.      *)
(***************************************************************************)
EXTENDS Naturals, FiniteSets

CONSTANTS
  Plugin, Skill,
  Picks,        \* what bundles of the repository name: sets of plugins and skills
  MaxOps        \* bound: how many operations are begun

VARIABLES
  manifest,     \* package.json of the profile: the plugins listed, the dependencies
  payload,      \* node_modules: where the files of a package come from
  records,      \* the plugins state/extensions.json has
  stored,       \* the sources kept below extensions/plugins, by the operation that made them
  skills,       \* the directories below profile/skills
  known,        \* the skills state/extensions.json has
  builds,       \* pnpm-workspace.yaml lets install scripts run
  task,         \* the task with the container's key
  adder,        \* the task with the key container:extensions
  remover,      \* the connection that removes a plugin
  begun,
  overlapped,   \* two worked on one plugin at once, or one replaced a file another had changed
  outdated,     \* whose reading of a file is no longer its last value
  abandoned     \* what a failure, or the death of the daemon, left in the middle
pluginVars == <<manifest, payload, records, stored, skills, known, builds, task, adder, remover, begun,
                overlapped, outdated, abandoned>>

Rest == [step |-> "rest", of |-> "nothing"]
NoFiles == "none"
Part == "part"

PluginsInit ==
  /\ manifest \in [listed : {{}}, deps : [Plugin -> {"none", "star"}]]
  /\ payload = [p \in Plugin |-> NoFiles] /\ records = {} /\ stored = {} /\ skills = {} /\ known = {}
  /\ builds = FALSE /\ task = Rest /\ adder = Rest /\ remover = Rest /\ begun = 0
  /\ overlapped = FALSE /\ outdated = {} /\ abandoned = {}

Others(w) ==
  {v \in {"task", "adder", "remover"} \ {w} :
     (v = "task" /\ task # Rest) \/ (v = "adder" /\ adder # Rest) \/ (v = "remover" /\ remover # Rest)}
OnIt(p) == task.of = p \/ adder.of = p \/ remover.of = p
Begins(p) == begun < MaxOps /\ begun' = begun + 1 /\ overlapped' = (overlapped \/ OnIt(p))
\* Who writes a whole file back replaces what was written since it was read.
WritesBack(w) == overlapped' = (overlapped \/ w \in outdated) /\ outdated' = Others(w)
ReadsAgain(w) == outdated' = outdated \ {w} /\ UNCHANGED overlapped
Untouched == UNCHANGED <<overlapped, outdated>>
-----------------------------------------------------------------------------
(* Tasks on the container *)

Steps(step) == task' = [task EXCEPT !.step = step]
Installs(p, from, left) ==
  [step |-> IF from = "own" THEN "store" ELSE "read", of |-> p, from |-> from, left |-> left, saw |-> {}]

\* install_container_extension: its own copy of a directory, an archive or a clone.
install_container_extension(p) ==
  /\ task = Rest /\ Begins(p) /\ task' = Installs(p, "own", {})
  /\ UNCHANGED <<manifest, payload, records, stored, skills, known, builds, adder, remover, outdated, abandoned>>
\* Staging is renamed to the place of the task; it stays there whatever follows.
StoresSource ==
  /\ task.step = "store" /\ Steps("read") /\ stored' = stored \cup {begun}
  /\ Untouched /\ UNCHANGED <<manifest, payload, records, skills, known, builds, adder, remover, begun, abandoned>>

\* link_repository_extension, of a row that owns a directory: only here is a
\* plugin refused that has a record.
link_repository_extension(p) ==
  /\ task = Rest /\ p \notin records /\ Begins(p) /\ task' = Installs(p, "repository", {})
  /\ UNCHANGED <<manifest, payload, records, stored, skills, known, builds, adder, remover, outdated, abandoned>>
\* ... of a row that only refers to a package: pnpm adds it.
LinkReference(p) ==
  /\ task = Rest /\ Begins(p) /\ task' = [Installs(p, "registry", {}) EXCEPT !.step = "pnpm"]
  /\ builds' = TRUE
  /\ UNCHANGED <<manifest, payload, records, stored, skills, known, adder, remover, outdated, abandoned>>

\* install_container_bundle: one entry after the other, each as above.  Its look
\* for an installed plugin is below extensions/plugins/<name>, where none is.
install_container_bundle(pick, keep) ==
  /\ task = Rest /\ begun < MaxOps /\ begun' = begun + 1
  /\ task' = [step |-> "next", of |-> "nothing", from |-> "repository", left |-> pick, saw |-> {}, keep |-> keep]
  /\ UNCHANGED <<manifest, payload, records, stored, skills, known, builds, adder, remover,
                 overlapped, outdated, abandoned>>
\* A plugin that has a record ends the bundle; what was installed before it stays.
NextEntry ==
  /\ task.step = "next" /\ task.left # {}
  /\ \E n \in task.left :
        \/ /\ n \in Plugin /\ overlapped' = (overlapped \/ OnIt(n))
           /\ task' = IF n \in records THEN Rest
                      ELSE [task EXCEPT !.step = "read", !.of = n, !.left = @ \ {n}]
           /\ UNCHANGED skills
        \/ /\ n \in Skill \ skills /\ UNCHANGED overlapped /\ skills' = skills \cup {n}
           /\ task' = [task EXCEPT !.step = "skill", !.of = n, !.left = @ \ {n}]
        \/ /\ n \in Skill \cap skills /\ task.keep /\ UNCHANGED <<overlapped, skills>>
           /\ task' = [task EXCEPT !.left = @ \ {n}]
        \/ /\ n \in Skill \cap skills /\ ~task.keep /\ UNCHANGED overlapped /\ skills' = skills \ {n}
           /\ task' = [task EXCEPT !.step = "again", !.of = n, !.left = @ \ {n}]
  /\ UNCHANGED <<manifest, payload, records, stored, known, builds, adder, remover, begun, outdated, abandoned>>
EntriesEnd ==
  /\ task.step = "next" /\ task.left = {} /\ task' = Rest
  /\ Untouched /\ UNCHANGED <<manifest, payload, records, stored, skills, known, builds, adder, remover, begun, abandoned>>

\* install_container_skill: a name that is taken is refused.
InstallSkill(s) ==
  /\ task = Rest /\ s \notin skills /\ begun < MaxOps /\ begun' = begun + 1
  /\ task' = [step |-> "skill", of |-> s, from |-> "own", left |-> {}, saw |-> {}] /\ skills' = skills \cup {s}
  /\ Untouched /\ UNCHANGED <<manifest, payload, records, stored, known, builds, adder, remover, abandoned>>
PutAgain ==
  /\ task.step = "again" /\ Steps("skill") /\ skills' = skills \cup {task.of}
  /\ Untouched /\ UNCHANGED <<manifest, payload, records, stored, known, builds, adder, remover, begun, abandoned>>

After == IF task.left = {} /\ "keep" \notin DOMAIN task THEN Rest ELSE [task EXCEPT !.step = "next", !.of = "nothing"]
\* The record is written in one go: the file is read and replaced.
SkillRecorded ==
  /\ task.step = "skill" /\ known' = known \cup {task.of} /\ task' = After /\ abandoned' = abandoned \ {task.of}
  /\ Untouched /\ UNCHANGED <<manifest, payload, records, stored, skills, builds, adder, remover, begun>>
-----------------------------------------------------------------------------
(* register_plugin_directly *)

ReadsManifest ==
  /\ task.step = "read" /\ task' = [task EXCEPT !.step = "manifest", !.saw = manifest]
  /\ ReadsAgain("task")
  /\ UNCHANGED <<manifest, payload, records, stored, skills, known, builds, adder, remover, begun, abandoned>>

\* seeded fault: a plugin that is listed already keeps the dependency it had.
RegisteredUnlessListed(saw, p) ==
  IF p \in saw.listed THEN saw
  ELSE [listed |-> saw.listed \cup {p}, deps |-> saw.deps]
\* A dependency "*" of an older install would send pnpm to the registry.
Registered(saw, p) ==
  [listed |-> saw.listed \cup {p},
   deps |-> [saw.deps EXCEPT ![p] = IF @ = "star" THEN "none" ELSE @]]
WritesManifest ==
  /\ task.step = "manifest" /\ Steps("clear")
  /\ LET new == Registered(task.saw, task.of)
     IN IF new = task.saw THEN Untouched /\ UNCHANGED manifest
        ELSE manifest' = new /\ WritesBack("task")
  /\ UNCHANGED <<payload, records, stored, skills, known, builds, adder, remover, begun, abandoned>>

\* replace_tree_following: the old files go first.
ClearsPayload ==
  /\ task.step = "clear" /\ Steps("copy") /\ payload' = [payload EXCEPT ![task.of] = NoFiles]
  /\ Untouched /\ UNCHANGED <<manifest, records, stored, skills, known, builds, adder, remover, begun, abandoned>>
CopiesPayload ==
  /\ task.step = "copy" /\ Steps("record") /\ builds' = TRUE
  /\ payload' = [payload EXCEPT ![task.of] = task.from]
  /\ Untouched /\ UNCHANGED <<manifest, records, stored, skills, known, adder, remover, begun, abandoned>>
CopyFails ==
  /\ task.step = "copy" /\ task' = Rest /\ payload' = [payload EXCEPT ![task.of] = Part]
  /\ abandoned' = abandoned \cup {task.of}
  /\ Untouched /\ UNCHANGED <<manifest, records, stored, skills, known, builds, adder, remover, begun>>

WritesRecord ==
  /\ task.step = "record" /\ task' = After
  /\ records' = records \cup {task.of} /\ abandoned' = abandoned \ {task.of}
  /\ Untouched /\ UNCHANGED <<manifest, payload, stored, skills, known, builds, adder, remover, begun>>
-----------------------------------------------------------------------------
(* container_plugin_add: the harness's `dsh plugin add` does it, through pnpm *)

container_plugin_add(p) ==
  /\ adder = Rest /\ Begins(p) /\ adder' = [step |-> "pnpm", of |-> p] /\ builds' = TRUE
  /\ UNCHANGED <<manifest, payload, records, stored, skills, known, task, remover, outdated, abandoned>>

\* What the tool leaves in the profile; when it fails, perhaps the files alone.
Adds(w, p) ==
  /\ manifest' = [listed |-> manifest.listed \cup {p}, deps |-> [manifest.deps EXCEPT ![p] = "spec"]]
  /\ payload' = [payload EXCEPT ![p] = "registry"] /\ abandoned' = abandoned \ {p}
  /\ outdated' = Others(w) /\ UNCHANGED overlapped
AddFails(p) ==
  /\ payload' \in {payload, [payload EXCEPT ![p] = Part]} /\ abandoned' = abandoned \cup {p}
  /\ Untouched /\ UNCHANGED manifest
AdderEnds ==
  /\ adder.step = "pnpm" /\ (Adds("adder", adder.of) \/ AddFails(adder.of)) /\ adder' = Rest
  /\ UNCHANGED <<records, stored, skills, known, builds, task, remover, begun>>
ReferenceAdded ==
  /\ task.step = "pnpm"
  /\ \/ Adds("task", task.of) /\ Steps("record")
     \/ AddFails(task.of) /\ task' = Rest
  /\ UNCHANGED <<records, stored, skills, known, builds, adder, remover, begun>>
-----------------------------------------------------------------------------
(* remove_repository_plugin *)

RemoverSteps(step) == remover' = [remover EXCEPT !.step = step]

remove_repository_plugin(p) ==
  /\ remover = Rest /\ p \in manifest.listed /\ Begins(p)
  /\ remover' = [step |-> "manifest", of |-> p, saw |-> manifest] /\ outdated' = outdated \ {"remover"}
  /\ UNCHANGED <<manifest, payload, records, stored, skills, known, builds, task, adder, abandoned>>
Unlists ==
  /\ remover.step = "manifest" /\ RemoverSteps("delete") /\ WritesBack("remover")
  /\ manifest' = [listed |-> remover.saw.listed \ {remover.of}, deps |-> [remover.saw.deps EXCEPT ![remover.of] = "none"]]
  /\ UNCHANGED <<payload, records, stored, skills, known, builds, task, adder, begun, abandoned>>
\* The files may refuse to go: the record stays, and the plugin is listed no more.
DeletesPayload ==
  /\ remover.step = "delete"
  /\ \/ RemoverSteps("record") /\ payload' = [payload EXCEPT ![remover.of] = NoFiles] /\ UNCHANGED abandoned
     \/ /\ payload[remover.of] # NoFiles /\ remover' = Rest
        /\ payload' \in {payload, [payload EXCEPT ![remover.of] = Part]}
        /\ abandoned' = abandoned \cup {remover.of}
  /\ Untouched /\ UNCHANGED <<manifest, records, stored, skills, known, builds, task, adder, begun>>
remove_plugin_record ==
  /\ remover.step = "record" /\ remover' = Rest
  /\ records' = records \ {remover.of} /\ abandoned' = abandoned \ {remover.of}
  /\ Untouched /\ UNCHANGED <<manifest, payload, stored, skills, known, builds, task, adder, begun>>

\* The daemon dies: a copy, an addition or a deletion under way stays as far as it came.
InHand == {w.of : w \in {v \in {task, adder, remover} : v.step \in {"copy", "pnpm", "delete"}}}
PluginsDie ==
  /\ task # Rest \/ adder # Rest \/ remover # Rest
  /\ task' = Rest /\ adder' = Rest /\ remover' = Rest /\ outdated' = {}
  /\ abandoned' = abandoned \cup ({task.of, adder.of, remover.of} \cap (Plugin \cup Skill))
  /\ payload' \in {payload, [p \in Plugin |-> IF p \in InHand THEN Part ELSE payload[p]]}
  /\ UNCHANGED <<manifest, records, stored, skills, known, builds, begun, overlapped>>

\* Nothing is claimed of what follows an overlap: a behaviour is followed up to there.
PluginsNext == ~overlapped /\ (
  \/ \E p \in Plugin :
        \/ install_container_extension(p) \/ link_repository_extension(p) \/ LinkReference(p)
        \/ container_plugin_add(p) \/ remove_repository_plugin(p)
  \/ \E s \in Skill : InstallSkill(s)
  \/ \E pick \in Picks, keep \in BOOLEAN : install_container_bundle(pick, keep)
  \/ StoresSource \/ NextEntry \/ EntriesEnd \/ PutAgain \/ SkillRecorded
  \/ ReadsManifest \/ WritesManifest \/ ClearsPayload \/ CopiesPayload \/ CopyFails \/ WritesRecord
  \/ AdderEnds \/ ReferenceAdded \/ Unlists \/ DeletesPayload \/ remove_plugin_record \/ PluginsDie)
-----------------------------------------------------------------------------
Settled(n) == ~OnIt(n) /\ n \notin abandoned
\* read_plugin: what the scan of the container reports of a listed plugin.
Diagnosed(p) == p \in manifest.listed /\ payload[p] = NoFiles

\* Of a plugin nobody works on, and whose last operation ended well, the
\* manifest, the files and the record agree: the host loads exactly what is
\* there, and a record is of something that is loaded.
PluginsAgree ==
  \A p \in Plugin : Settled(p) =>
     /\ ~Diagnosed(p) /\ payload[p] # Part
     /\ (payload[p] # NoFiles \/ p \in records) => p \in manifest.listed
     /\ (p \in records /\ p \in manifest.listed => manifest.deps[p] # "star")
SkillsAgree == \A s \in Skill : Settled(s) => (s \in skills) = (s \in known)
\* As long as nobody overlaps: whatever failed before, an operation that ends
\* well leaves its plugin in order.
InstalledAgrees == ~overlapped => PluginsAgree /\ SkillsAgree

\* The key of the container keeps two from working on one plugin.  It fails: see
\* the README.
NoOverlap == ~overlapped
\* A plugin that has a record can be removed or installed again from the
\* repository.  It fails: see the README.
NeverStuck == \A p \in records : ~OnIt(p) => p \in manifest.listed
=============================================================================
