--------------------------- MODULE ExtensionStore ---------------------------
(***************************************************************************)
(* The repository of plugins and skills: an index of rows, the directories *)
(* Box keeps of those it owns, and the bundles that name rows.  Tasks hold *)
(* the key repository:extensions, so one runs at a time; the calls a       *)
(* connection thread answers itself (remove, prune, mirror, bundles) hold  *)
(* nothing.  Everybody reads the whole index, works, and writes it back.   *)
(***************************************************************************)
EXTENDS Naturals, FiniteSets, FiniteSetsExt

CONSTANTS
  Thread,       \* connection threads
  Package,      \* what plugins and skills are called
  Archives,     \* the lists of packages bundle archives hold
  MaxTasks,     \* bound: how many tasks run
  Seconds       \* the seconds a bundle may be made in

VARIABLES
  index,        \* repository/index.json
  kept,         \* the directories below repository/plugins and repository/skills
  bundles,      \* state/bundles.json
  task,         \* the task that holds the key
  ran,          \* how many tasks have run
  thread,       \* what each connection thread is doing
  outdated,     \* whose reading of the index is no longer its last value
  clobbered,    \* somebody outdated replaced the index
  abandoned,    \* what a failure, or the death of the daemon, left in the middle
  mine          \* the rows a user imported and nobody took away on purpose
storeVars == <<index, kept, bundles, task, ran, thread, outdated, clobbered, abandoned, mine>>

None == [does |-> "nothing"]
ImportId(n) == <<"img", n>>
BundleRowId(n, p) == <<"bun", n, p>>
RefId(p) == <<"ref", p>>

\* A name is a package and the number a clash gave it.
OwnedRow(id, p, n) == [id |-> id, name |-> <<p, n>>, storage |-> "owned", derived |-> FALSE]
RefRow(p, derived) == [id |-> RefId(p), name |-> <<p, 1>>, storage |-> "reference", derived |-> derived]

ExtInit ==
  /\ index = {} /\ kept = {} /\ bundles = {} /\ task = None /\ ran = 0
  /\ thread = [t \in Thread |-> None] /\ outdated = {} /\ clobbered = FALSE /\ abandoned = {} /\ mine = {}

Ids(rows) == {r.id : r \in rows}
Named(rows, name) == {r \in rows : r.name = name}
\* scan_repository gives an owned row without its directory a diagnostic.
Usable(r) == r.storage = "reference" \/ r.id \in kept

Busy == {t \in Thread : thread[t] # None} \cup (IF task = None THEN {} ELSE {"task"})
Replaces(w, new) ==
  /\ index' = new /\ clobbered' = (w \in outdated) /\ outdated' = Busy \ {w}
Reads(w) == outdated' = outdated \ {w} /\ UNCHANGED <<index, clobbered>>
Same == UNCHANGED <<index, outdated, clobbered>>
-----------------------------------------------------------------------------
(* Tasks *)

TaskStarts(does) == task = None /\ ran < MaxTasks /\ ran' = ran + 1 /\ task' = does
TaskGoes(step) == task' = [task EXCEPT !.step = step]
TaskEnds == task' = None

\* import_source, of a package: only a row is kept.
ImportReference(p) ==
  /\ TaskStarts([does |-> "reference", step |-> "write", of |-> p, saw |-> index]) /\ Reads("task")
  /\ UNCHANGED <<kept, bundles, thread, abandoned, mine>>
upsert_reference_entry ==
  /\ task.does = "reference" /\ TaskEnds
  /\ Replaces("task", {r \in task.saw : r.id # RefId(task.of)} \cup {RefRow(task.of, FALSE)})
  /\ mine' = mine \cup {RefId(task.of)}
  /\ UNCHANGED <<kept, bundles, ran, thread, abandoned>>

\* import_into_repository: a row of that name that is usable is reused; a mirrored
\* row has nothing to pack, and the import fails.
find_repository_entry_by_identity(p) == {r \in Named(index, <<p, 1>>) : Usable(r)}
ReuseLocal(p) ==
  /\ TaskStarts(None) /\ find_repository_entry_by_identity(p) # {} /\ Same
  /\ UNCHANGED <<kept, bundles, thread, abandoned, mine>>
ImportLocal(p) ==
  /\ find_repository_entry_by_identity(p) = {}
  /\ TaskStarts([does |-> "local", step |-> "install", of |-> p, id |-> ImportId(ran + 1), saw |-> {}])
  /\ kept' = kept \cup {ImportId(ran + 1)} /\ Same
  /\ UNCHANGED <<bundles, thread, abandoned, mine>>
\* Nothing takes the copy back when its dependencies cannot be installed.
LocalInstalls ==
  /\ task.does = "local" /\ task.step = "install"
  /\ \/ task' = [task EXCEPT !.step = "write", !.saw = index] /\ Reads("task") /\ UNCHANGED abandoned
     \/ TaskEnds /\ Same /\ abandoned' = abandoned \cup {task.id}
  /\ UNCHANGED <<kept, bundles, ran, thread, mine>>
LocalWrites ==
  /\ task.does = "local" /\ task.step = "write" /\ TaskGoes("pack")
  /\ Replaces("task", task.saw \cup {OwnedRow(task.id, task.of, 1)})
  /\ mine' = mine \cup {task.id}
  /\ UNCHANGED <<kept, bundles, ran, thread, abandoned>>
\* package_repository_plugin: without an archive the row and the copy go again.
LocalPacks ==
  /\ task.does = "local" /\ task.step = "pack"
  /\ \/ TaskEnds /\ Same
     \/ task' = [task EXCEPT !.step = "undo", !.saw = index] /\ Reads("task")
  /\ UNCHANGED <<kept, bundles, ran, thread, abandoned, mine>>
LocalUndoes ==
  /\ task.does = "local" /\ task.step = "undo" /\ TaskEnds
  /\ Replaces("task", {r \in task.saw : r.id # task.id})
  /\ kept' = kept \ {task.id} /\ mine' = mine \ {task.id}
  /\ UNCHANGED <<bundles, ran, thread, abandoned>>

\* import_extension_bundle: the index is read once, before the first entry.
ImportBundle(list, conflict) ==
  /\ TaskStarts([does |-> "bundle", step |-> "entries", left |-> list, conflict |-> conflict,
                 n |-> ran + 1, saw |-> index, rows |-> index]) /\ Reads("task")
  /\ UNCHANGED <<kept, bundles, thread, abandoned, mine>>
\* resolve_conflict_name: the first number that does not clash.
FreeName(rows, p) ==
  <<p, CHOOSE k \in 1 .. MaxTasks + 1 :
          Named(rows, <<p, k>>) = {} /\ \A l \in 1 .. k - 1 : Named(rows, <<p, l>>) # {}>>
Stale(p) == IF task.conflict = "overwrite" THEN Named(task.rows, <<p, 1>>) ELSE {}
\* An old directory goes at once, its row only when the index is written.
BundleEntry ==
  /\ task.does = "bundle" /\ task.step = "entries" /\ Same
  /\ \E p \in task.left :
        LET id == BundleRowId(task.n, p)  rest == task.rows \ Stale(p) IN
        /\ task' = [task EXCEPT !.left = @ \ {p},
                                !.rows = rest \cup {OwnedRow(id, p, FreeName(rest, p)[2])}]
        /\ kept' = (kept \ Ids(Stale(p))) \cup {id}
        /\ mine' = mine \ Ids(Stale(p))
  /\ UNCHANGED <<bundles, ran, thread, abandoned>>
\* A clone, a manifest or a directory that fails ends the whole import.
BundleFails ==
  /\ task.does = "bundle" /\ task.step = "entries" /\ task.left # {} /\ TaskEnds /\ Same
  /\ abandoned' = abandoned \cup (Ids(task.rows) \ Ids(task.saw)) \cup (Ids(task.saw) \ Ids(task.rows))
  /\ UNCHANGED <<kept, bundles, ran, thread, mine>>
BundleWrites ==
  /\ task.does = "bundle" /\ task.step = "entries" /\ task.left = {} /\ TaskGoes("list")
  /\ Replaces("task", task.rows)
  /\ mine' = mine \cup (Ids(task.rows) \ Ids(task.saw))
  /\ UNCHANGED <<kept, bundles, ran, thread, abandoned>>
\* A bundle is called after the second it is made in.
NewBundles(ids) == {bundles \cup {[id |-> s, names |-> ids]} : s \in Seconds}
BundleLists ==
  /\ task.does = "bundle" /\ task.step = "list" /\ TaskEnds
  /\ LET ids == Ids(task.rows) \ Ids(task.saw)
     IN bundles' \in IF ids = {} THEN {bundles} ELSE NewBundles(ids)
  /\ Same /\ UNCHANGED <<kept, ran, thread, abandoned, mine>>
-----------------------------------------------------------------------------
(* Calls without the key *)

Begins(t, does) == thread[t] = None /\ thread' = [thread EXCEPT ![t] = does]
Goes(t, step) == thread' = [thread EXCEPT ![t] = [@ EXCEPT !.step = step]]
Finishes(t) == thread' = [thread EXCEPT ![t] = None]

\* remove_repository_extension, and prune_unused_repository_extensions, which runs
\* it for every row nobody refers to.  No owner is ever recorded (see the README).
Removes(t, ids) ==
  /\ ids # {} /\ ids \subseteq Ids(index) /\ Begins(t, [does |-> "remove", step |-> "look", ids |-> ids]) /\ Same
  /\ UNCHANGED <<kept, bundles, task, ran, abandoned, mine>>
remove_repository_extension(t) ==
  /\ thread[t].does = "remove" /\ thread[t].step = "look" /\ Reads(t)
  /\ \E id \in thread[t].ids :
        IF id \notin Ids(index) THEN Finishes(t)
        ELSE thread' = [thread EXCEPT ![t] =
                          [does |-> "remove", step |-> "delete", ids |-> @.ids \ {id}, id |-> id, saw |-> index]]
  /\ UNCHANGED <<kept, bundles, task, ran, abandoned, mine>>
\* The directory of the row goes before the row does.
RemoveDeletes(t) ==
  /\ thread[t].does = "remove" /\ thread[t].step = "delete" /\ Goes(t, "write") /\ Same
  /\ kept' = kept \ {thread[t].id} /\ mine' = mine \ {thread[t].id}
  /\ UNCHANGED <<bundles, task, ran, abandoned>>
RemoveWrites(t) ==
  /\ thread[t].does = "remove" /\ thread[t].step = "write" /\ Goes(t, "bundles")
  /\ Replaces(t, {r \in thread[t].saw : r.id # thread[t].id})
  /\ UNCHANGED <<kept, bundles, task, ran, abandoned, mine>>
RemoveBundles(t) ==
  /\ thread[t].does = "remove" /\ thread[t].step = "bundles" /\ Same
  /\ bundles' = {[b EXCEPT !.names = @ \ {thread[t].id}] : b \in bundles}
  /\ thread' = [thread EXCEPT ![t] = IF @.ids = {} THEN None ELSE [does |-> "remove", step |-> "look", ids |-> @.ids]]
  /\ UNCHANGED <<kept, task, ran, abandoned, mine>>

\* reconcile_plugin_index: what the locks resolved is read, then the index.
Mirrors(t, wanted) ==
  /\ Begins(t, [does |-> "mirror", step |-> "write", wanted |-> wanted, saw |-> index]) /\ Reads(t)
  /\ UNCHANGED <<kept, bundles, task, ran, abandoned, mine>>
\* seeded fault: a row that was found is refreshed, whoever made it.
MirroredAll(saw, wanted) ==
  {r \in saw : ~r.derived /\ (r.storage = "owned" \/ r.name[1] \in wanted)} \cup {RefRow(p, TRUE) : p \in wanted}
\* A row of the user's shadows the mirrored ones of its name.
Mirrored(saw, wanted) ==
  LET own == {r \in saw : ~r.derived}
  IN own \cup {RefRow(p, TRUE) : p \in {q \in wanted : Named(own, <<q, 1>>) = {}}}
sync_derived_entries(t) ==
  /\ thread[t].does = "mirror" /\ Finishes(t)
  /\ Replaces(t, Mirrored(thread[t].saw, thread[t].wanted))
  /\ UNCHANGED <<kept, bundles, task, ran, abandoned, mine>>

create_extension_bundle(t, ids) ==
  /\ ids # {} /\ \A id \in ids : \E r \in index : r.id = id /\ Usable(r)
  /\ Begins(t, [does |-> "create", ids |-> ids]) /\ Same
  /\ UNCHANGED <<kept, bundles, task, ran, abandoned, mine>>
CreateWrites(t) ==
  /\ thread[t].does = "create" /\ Finishes(t) /\ Same
  /\ bundles' \in NewBundles(thread[t].ids)
  /\ UNCHANGED <<kept, task, ran, abandoned, mine>>
delete_extension_bundle(t, id) ==
  /\ thread[t] = None /\ \E b \in bundles : b.id = id
  /\ bundles' = {b \in bundles : b.id # id} /\ Same
  /\ UNCHANGED <<kept, task, ran, thread, abandoned, mine>>

\* The daemon dies: what was under way stays as it is.
InWork ==
  (IF task.does = "local" THEN {task.id}
   ELSE IF task.does = "bundle" /\ task.step = "entries"
        THEN (Ids(task.rows) \ Ids(task.saw)) \cup (Ids(task.saw) \ Ids(task.rows)) ELSE {})
  \cup {thread[t].id : t \in {u \in Thread : thread[u].does = "remove" /\ thread[u].step \in {"delete", "write"}}}
DaemonDies ==
  /\ task # None \/ \E t \in Thread : thread[t] # None
  /\ task' = None /\ thread' = [t \in Thread |-> None] /\ abandoned' = abandoned \cup InWork
  /\ mine' = mine \ InWork /\ Same
  /\ UNCHANGED <<kept, bundles, ran>>

\* Nothing is claimed of what follows a clobbered index: a behaviour is followed
\* up to there.
ExtNext == ~clobbered /\ (
  \/ \E p \in Package : ImportReference(p) \/ ReuseLocal(p) \/ ImportLocal(p)
  \/ \E list \in Archives, conflict \in {"overwrite", "keep"} : ImportBundle(list, conflict)
  \/ upsert_reference_entry \/ LocalInstalls \/ LocalWrites \/ LocalPacks \/ LocalUndoes
  \/ BundleEntry \/ BundleFails \/ BundleWrites \/ BundleLists
  \/ \E t \in Thread :
        \/ \E id \in Ids(index) : Removes(t, {id}) \/ create_extension_bundle(t, {id})
        \/ Removes(t, Ids(index))
        \/ remove_repository_extension(t) \/ RemoveDeletes(t) \/ RemoveWrites(t) \/ RemoveBundles(t)
        \/ \E wanted \in SUBSET Package : Mirrors(t, wanted)
        \/ sync_derived_entries(t) \/ CreateWrites(t)
        \/ \E b \in bundles : delete_extension_bundle(t, b.id)
  \/ DaemonDies)
-----------------------------------------------------------------------------
\* A directory has its row and an owned row its directory, but for what is in
\* work or was left in the middle.
RowsMatchDirectories ==
  \A id \in kept \cup {r.id : r \in {q \in index : q.storage = "owned"}} :
     (id \in kept /\ id \in Ids(index)) \/ id \in InWork \cup abandoned
\* What the user imported stays until the user removes or overwrites it; the
\* mirror of what is installed never touches it.
UserRowsKept ==
  \A id \in mine : \E r \in index : r.id = id /\ ~r.derived
\* As long as nobody replaced the index somebody else had changed meanwhile.
RepositorySound == ~clobbered => RowsMatchDirectories /\ UserRowsKept

\* Bundles never keep dangling references.  It fails: see the README.
BundlesResolve ==
  \A b \in bundles : b.names \subseteq Ids(index) \cup {thread[t].id : t \in {u \in Thread : thread[u].does = "remove" /\ thread[u].step # "look"}}
\* One call never makes two bundles go.  It fails: see the README.
BundleIdsUnique == \A b, c \in bundles : b.id = c.id => b = c
=============================================================================
