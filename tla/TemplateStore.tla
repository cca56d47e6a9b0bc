--------------------------- MODULE TemplateStore ---------------------------
(***************************************************************************)
(* Prepared Harness bases, sealed templates, and the containers made from  *)
(* them: directory trees that are published by one rename, and two index   *)
(* files that name them.                                                   *)
(*                                                                         *)
(* Pulls, builds and container creations are tasks and hold their resource *)
(* keys.  Imports, removals and uninstalls are answered on the connection  *)
(* that asks and hold none.  Every index is read, changed and written back *)
(* whole, with no lock.                                                    *)
(***************************************************************************)
CONSTANTS
  Task, Client,     \* threads of the queue, and connections
  Ref, Name,        \* Harness references, names of templates
  Recipe,           \* the plugin sources and ENV of a Boxfile
  Instance,         \* ids for containers
  Here,             \* this machine's platform, on which client artifacts are built
  Requests,         \* what is asked of the daemon
  Nothing

VARIABLES
  bases,     \* prepared-bases.json: the references that are installed
  sealed,    \* sealed-templates.json: from a name to a tree
  trees,     \* the published directories
  listed,    \* the containers whose container.json is written, and its template
  at, does, seen, holds, \* of a thread: its step, its call, its copy of an index, its staged tree
  stale      \* an index was written from a copy that was out of date, or
             \* not written after the removal it was to record

storeVars == <<bases, sealed, trees, listed, at, does, seen, holds, stale>>

Actor == Task \cup Client
Base(r) == [sort |-> "base", ref |-> r]
Sealed(n, r, x) == [sort |-> "sealed", name |-> n, ref |-> r, recipe |-> x]
Container(i) == [sort |-> "container", id |-> i]
TreeId ==
  {Base(r) : r \in Ref} \cup {Sealed(n, r, x) : n \in Name, r \in Ref, x \in Recipe}
  \cup {Container(i) : i \in Instance}

\* A tree: complete or not, the platform its client artifacts were built on, the
\* platform its marker names, and the dependencies linked at its final path.
Platforms == {Here, Nothing} \cup {c.archive.platform : c \in {d \in Requests : d.op = "import"}}
TreeState == [whole : BOOLEAN, built : Platforms, marked : Platforms, linked : BOOLEAN]
Tree(platform) == [whole |-> TRUE, built |-> platform, marked |-> platform, linked |-> FALSE]
Absent == Nothing
Exists(d) == trees[d] # Absent

KeysOf(c) ==
  CASE c.op = "pull" -> {"repository:dsh-versions", "harness-mirror"}
    [] c.op \in {"build", "create"} -> {"repository:extensions"}
    [] OTHER -> {}

\* old: the bases that an older version prepared, which built no artifacts.
StoreInit(old) ==
  /\ bases = old /\ sealed = [n \in Name |-> Absent]
  /\ trees = [d \in TreeId |-> IF d \in {Base(r) : r \in old} THEN Tree(Nothing) ELSE Absent]
  /\ listed = [i \in Instance |-> Absent]
  /\ at = [t \in Actor |-> "idle"] /\ does = [t \in Actor |-> Nothing]
  /\ seen = [t \in Actor |-> Nothing] /\ holds = [t \in Actor |-> Absent]
  /\ stale = FALSE

Goes(t, step) == at' = [at EXCEPT ![t] = step]
Reads(t, index) == seen' = [seen EXCEPT ![t] = index]
\* A call that is over, however it went: what it staged stays or goes unseen.
Ends(t) ==
  /\ at' = [at EXCEPT ![t] = "idle"] /\ does' = [does EXCEPT ![t] = Nothing]
  /\ seen' = [seen EXCEPT ![t] = Nothing] /\ holds' = [holds EXCEPT ![t] = Absent]
Kept == UNCHANGED <<bases, sealed, trees, listed, stale>>
Ran(t, op, step) == at[t] = step /\ does[t] # Nothing /\ does[t].op = op

Begin(t, c) ==
  /\ at[t] = "idle"
  /\ t \in Task <=> KeysOf(c) # {}
  /\ \A u \in Task \ {t} : does[u] # Nothing => KeysOf(does[u]) \cap KeysOf(c) = {}
  /\ Goes(t, "called") /\ does' = [does EXCEPT ![t] = c]
  /\ Kept /\ UNCHANGED <<seen, holds>>

\* publish_staged_tree: the rename of a finished tree, onto nothing.
Publish(t, d) == ~Exists(d) /\ trees' = [trees EXCEPT ![d] = holds[t]]

\* A tree is copied, or what a removal has left of it.  Links are not copied.
Copies(t, d) ==
  /\ Exists(d)
  /\ holds' = [holds EXCEPT ![t] = [trees[d] EXCEPT !.linked = FALSE]]

WriteBases(t, index) ==
  bases' = index /\ stale' = (stale \/ seen[t] # bases) /\ UNCHANGED <<sealed, listed>>
WriteSealed(t, index) ==
  sealed' = index /\ stale' = (stale \/ seen[t] # sealed) /\ UNCHANGED <<bases, listed>>
-----------------------------------------------------------------------------
(* pull_template_with_cancel *)

PullReads(t) ==
  /\ Ran(t, "pull", "called")
  /\ IF does[t].ref \in bases THEN Ends(t)
     ELSE Reads(t, bases) /\ Goes(t, "prepare") /\ UNCHANGED <<does, holds>>
  /\ Kept

\* The clone, the install, the build, the marker and the validation, in staging:
\* any of them may fail or be cancelled, and then the staging directory goes.
PullPrepares(t) ==
  /\ Ran(t, "pull", "prepare")
  /\ \/ /\ holds' = [holds EXCEPT ![t] = Tree(Here)]
        /\ Goes(t, "publish") /\ UNCHANGED <<does, seen>>
     \/ Ends(t)
  /\ Kept

PullPublishes(t) ==
  /\ Ran(t, "pull", "publish")
  /\ \/ /\ Publish(t, Base(does[t].ref)) /\ Goes(t, "index") /\ UNCHANGED <<does, seen, holds>>
     \/ Exists(Base(does[t].ref)) /\ Ends(t) /\ UNCHANGED trees
  /\ UNCHANGED <<bases, sealed, listed, stale>>

PullIndexes(t) ==
  /\ Ran(t, "pull", "index")
  /\ WriteBases(t, seen[t] \cup {does[t].ref})
  /\ Ends(t) /\ UNCHANGED trees

-----------------------------------------------------------------------------
(* uninstall_dsh_version, remove_sealed_template *)

UninstallReads(t) ==
  /\ Ran(t, "uninstall", "called")
  /\ IF does[t].ref \notin bases THEN Ends(t)
     ELSE Reads(t, bases) /\ Goes(t, "delete") /\ UNCHANGED <<does, holds>>
  /\ Kept

template_is_used_by_container(n) == \E i \in Instance : listed[i] = n

RemoveReads(t) ==
  /\ Ran(t, "remove", "called")
  /\ IF sealed[does[t].name] = Absent \/ template_is_used_by_container(does[t].name) THEN Ends(t)
     ELSE Reads(t, sealed) /\ Goes(t, "delete") /\ UNCHANGED <<does, holds>>
  /\ Kept

Doomed(t) == IF does[t].op = "uninstall" THEN Base(does[t].ref) ELSE seen[t][does[t].name]

\* remove_dir_all takes files one by one, and may stop in the middle.
Deletes(t) ==
  /\ at[t] = "delete"
  /\ \/ /\ Exists(Doomed(t)) /\ trees[Doomed(t)].whole
        /\ \E b \in {trees[Doomed(t)].built, Nothing}, m \in {trees[Doomed(t)].marked, Nothing} :
             trees' = [trees EXCEPT ![Doomed(t)] = [@ EXCEPT !.whole = FALSE, !.built = b, !.marked = m]]
        /\ UNCHANGED <<at, does, seen, holds>>
     \/ /\ Exists(Doomed(t)) /\ ~trees[Doomed(t)].whole
        /\ \/ trees' = [trees EXCEPT ![Doomed(t)] = Absent] /\ Goes(t, "index") /\ UNCHANGED <<does, seen, holds>>
           \/ UNCHANGED trees /\ Ends(t)
     \/ ~Exists(Doomed(t)) /\ Goes(t, "index") /\ UNCHANGED <<trees, does, seen, holds>>
  /\ UNCHANGED <<bases, sealed, listed, stale>>

UninstallIndexes(t) ==
  /\ Ran(t, "uninstall", "index")
  /\ WriteBases(t, seen[t] \ {does[t].ref})
  /\ Ends(t) /\ UNCHANGED trees

RemoveIndexes(t) ==
  /\ Ran(t, "remove", "index")
  /\ WriteSealed(t, [seen[t] EXCEPT ![does[t].name] = Absent])
  /\ Ends(t) /\ UNCHANGED trees
-----------------------------------------------------------------------------
(* seal_template *)

client_artifacts_present(tree) == tree.built # Nothing /\ tree.marked = Here

BuildReads(t) ==
  /\ Ran(t, "build", "called")
  /\ IF does[t].ref \notin bases \/ ~Exists(Base(does[t].ref)) THEN Ends(t)
     ELSE Goes(t, "artifacts") /\ UNCHANGED <<does, seen, holds>>
  /\ Kept

\* seeded fault: the marker is written before the build it reports.
ArtifactsMarkedFirst(t) ==
  LET b == Base(does[t].ref)
      After(tree) == IF tree.marked # Here THEN [tree EXCEPT !.marked = Here] ELSE [tree EXCEPT !.built = Here]
  IN /\ Ran(t, "build", "artifacts") /\ Exists(b)
     /\ IF trees[b].marked = Here /\ trees[b].built = Here THEN Goes(t, "copy") /\ UNCHANGED <<trees, does, seen, holds>>
        ELSE trees' = [trees EXCEPT ![b] = After(@)] /\ UNCHANGED <<at, does, seen, holds>>
     /\ UNCHANGED <<bases, sealed, listed, stale>>

\* ensure_base_client_artifacts: a base without its artifacts gets them in
\* place, and the marker after them.
BuildsArtifacts(t) ==
  LET b == Base(does[t].ref)
      After(tree) == IF tree.built # Here THEN [tree EXCEPT !.built = Here] ELSE [tree EXCEPT !.marked = Here]
  IN /\ Ran(t, "build", "artifacts")
     /\ \/ /\ Exists(b) /\ ~client_artifacts_present(trees[b])
           /\ trees' = [trees EXCEPT ![b] = After(@)] /\ UNCHANGED <<at, does, seen, holds>>
        \/ /\ Exists(b) /\ client_artifacts_present(trees[b])
           /\ Goes(t, "copy") /\ UNCHANGED <<trees, does, seen, holds>>
        \/ Ends(t) /\ UNCHANGED trees
     /\ UNCHANGED <<bases, sealed, listed, stale>>

\* copy_source_tree, the profile and its recipe, the validation.
BuildCopies(t) ==
  /\ Ran(t, "build", "copy")
  /\ \/ /\ Copies(t, Base(does[t].ref))
        /\ client_artifacts_present(trees[Base(does[t].ref)])
        /\ Goes(t, "publish") /\ UNCHANGED <<does, seen>>
     \/ Ends(t)
  /\ Kept

BuildPublishes(t) ==
  LET d == Sealed(does[t].name, does[t].ref, does[t].recipe)
  IN /\ Ran(t, "build", "publish")
     /\ \/ Publish(t, d) /\ Goes(t, "read") /\ UNCHANGED <<does, seen, holds>>
        \/ Exists(d) /\ Ends(t) /\ UNCHANGED trees
     /\ UNCHANGED <<bases, sealed, listed, stale>>

BuildReadsIndex(t) ==
  /\ Ran(t, "build", "read")
  /\ IF sealed[does[t].name] # Absent THEN Ends(t)
     ELSE Reads(t, sealed) /\ Goes(t, "index") /\ UNCHANGED <<does, holds>>
  /\ Kept

BuildIndexes(t) ==
  /\ Ran(t, "build", "index")
  /\ WriteSealed(t, [seen[t] EXCEPT ![does[t].name] = Sealed(does[t].name, does[t].ref, does[t].recipe)])
  /\ Ends(t) /\ UNCHANGED trees
-----------------------------------------------------------------------------
(* import_sealed_template *)

ImportReads(t) ==
  /\ Ran(t, "import", "called")
  /\ IF sealed[does[t].name] # Absent THEN Ends(t)
     ELSE /\ Reads(t, sealed) /\ Goes(t, "publish") /\ UNCHANGED does
          /\ holds' = [holds EXCEPT ![t] = Tree(does[t].archive.platform)]
  /\ Kept

ArchiveTree(a) == Sealed(a.name, a.ref, a.recipe)
ImportPublishes(t) ==
  /\ Ran(t, "import", "publish")
  /\ \/ Publish(t, ArchiveTree(does[t].archive)) /\ Goes(t, "index") /\ UNCHANGED <<does, seen, holds>>
     \/ Exists(ArchiveTree(does[t].archive)) /\ Ends(t) /\ UNCHANGED trees
  /\ UNCHANGED <<bases, sealed, listed, stale>>

ImportIndexes(t) ==
  /\ Ran(t, "import", "index")
  /\ WriteSealed(t, [seen[t] EXCEPT ![does[t].name] = ArchiveTree(does[t].archive)])
  /\ Ends(t) /\ UNCHANGED trees
-----------------------------------------------------------------------------
(* create_container_from_sealed *)

\* A name is a sealed template, or else a reference to a base.
SourceOf(template) ==
  IF template \in Name THEN sealed[template]
  ELSE IF template \in bases THEN Base(template) ELSE Absent

CreateResolves(t) ==
  LET source == SourceOf(does[t].template)
  IN /\ Ran(t, "create", "called")
     /\ ~Exists(Container(does[t].id)) /\ listed[does[t].id] = Absent
     /\ IF source = Absent \/ (source # Absent /\ ~Exists(source)) THEN Ends(t)
        ELSE Reads(t, source) /\ Goes(t, "copy") /\ UNCHANGED <<does, holds>>
     /\ Kept

CreateCopies(t) ==
  /\ Ran(t, "create", "copy")
  /\ \/ Copies(t, seen[t]) /\ Goes(t, "publish") /\ UNCHANGED <<does, seen>>
     \/ Ends(t)
  /\ Kept

CreatePublishes(t) ==
  /\ Ran(t, "create", "publish")
  /\ Publish(t, Container(does[t].id))
  /\ Goes(t, "prepare") /\ UNCHANGED <<bases, sealed, listed, stale, does, seen, holds>>

\* seeded fault: any built page is taken for this machine's.
PreparedAsFound(tree) ==
  IF tree.built # Nothing THEN [tree EXCEPT !.linked = TRUE]
  ELSE [tree EXCEPT !.linked = TRUE, !.built = Here, !.marked = Here]
\* The links at the final path, and the client artifacts unless they came along.
Prepared(tree) ==
  IF client_artifacts_present(tree) THEN [tree EXCEPT !.linked = TRUE]
  ELSE [tree EXCEPT !.linked = TRUE, !.built = Here, !.marked = Here]

\* prepare_container_at_final_path; a failure or a cancel removes the directory.
CreatePrepares(t) ==
  LET d == Container(does[t].id)
  IN /\ Ran(t, "create", "prepare")
     /\ \/ trees' = [trees EXCEPT ![d] = Prepared(trees[d])] /\ Goes(t, "list") /\ UNCHANGED <<does, seen, holds>>
        \/ trees' = [trees EXCEPT ![d] = Absent] /\ Ends(t)
     /\ UNCHANGED <<bases, sealed, listed, stale>>

\* seeded fault: the metadata is written where the directory gets its name.
CreateListsEarly(t) ==
  /\ at[t] \in {"prepare", "list"} /\ does[t].op = "create"
  /\ listed' = [listed EXCEPT ![does[t].id] = does[t].template]
  /\ (IF at[t] = "list" THEN Ends(t) ELSE UNCHANGED <<at, does, seen, holds>>)
  /\ UNCHANGED <<bases, sealed, trees, stale>>
CreateLists(t) ==
  /\ Ran(t, "create", "list")
  /\ listed' = [listed EXCEPT ![does[t].id] = does[t].template]
  /\ Ends(t) /\ UNCHANGED <<bases, sealed, trees, stale>>
-----------------------------------------------------------------------------
\* The daemon dies: the files stay as they are.
StoreCrash ==
  /\ \E t \in Actor : at[t] # "idle"
  /\ at' = [t \in Actor |-> "idle"] /\ does' = [t \in Actor |-> Nothing]
  /\ seen' = [t \in Actor |-> Nothing] /\ holds' = [t \in Actor |-> Absent]
  /\ stale' = (stale \/ \E t \in Actor : at[t] = "index" /\ does[t].op \in {"uninstall", "remove"})
  /\ UNCHANGED <<bases, sealed, trees, listed>>

StoreNext ==
  \/ StoreCrash
  \/ \E t \in Actor :
       \/ \E c \in Requests : Begin(t, c)
       \/ PullReads(t) \/ PullPrepares(t) \/ PullPublishes(t) \/ PullIndexes(t)
       \/ UninstallReads(t) \/ RemoveReads(t) \/ Deletes(t)
       \/ UninstallIndexes(t) \/ RemoveIndexes(t)
       \/ BuildReads(t) \/ BuildsArtifacts(t) \/ BuildCopies(t) \/ BuildPublishes(t)
       \/ BuildReadsIndex(t) \/ BuildIndexes(t)
       \/ ImportReads(t) \/ ImportPublishes(t) \/ ImportIndexes(t)
       \/ CreateResolves(t) \/ CreateCopies(t) \/ CreatePublishes(t) \/ CreatePrepares(t) \/ CreateLists(t)
-----------------------------------------------------------------------------
\* What container.json lists was prepared at its final path and has client
\* artifacts of this machine, whatever was cancelled, failed or killed before,
\* and wherever its template was built.
ListedIsReady ==
  \A i \in Instance :
    listed[i] # Absent =>
       Exists(Container(i)) /\ trees[Container(i)].linked /\ trees[Container(i)].built = Here

\* A tree's marker names the platform its artifacts were built on, unless they
\* are being removed.
MarkerIsTrue ==
  \A d \in TreeId :
    Exists(d) => (trees[d].whole /\ trees[d].marked # Nothing => trees[d].built = trees[d].marked)

Removes(op, d) == \E t \in Actor : at[t] \in {"delete", "index"} /\ does[t].op = op /\ Doomed(t) = d
\* As long as no index was written from a copy that was out of date, what an
\* index names is there or is just being removed, and no two names share a tree but for
\* the while that its removal under the other name takes.
IndexAgrees ==
  ~stale =>
    /\ \A r \in bases : Exists(Base(r)) \/ Removes("uninstall", Base(r))
    /\ \A n \in Name : sealed[n] # Absent => Exists(sealed[n]) \/ Removes("remove", sealed[n])
    /\ \A m, n \in Name : m # n /\ sealed[m] # Absent /\ sealed[m] = sealed[n] => Removes("remove", sealed[n])

TemplatesSound == ListedIsReady /\ MarkerIsTrue /\ IndexAgrees

\* What is published stays complete until it is removed.  It fails: see the README.
CopiesWhole == \A i \in Instance : listed[i] # Absent => trees[Container(i)].whole
\* An index names what is there, and nothing that was removed.  It fails: see
\* the README.
NothingRevived == ~stale
=============================================================================
