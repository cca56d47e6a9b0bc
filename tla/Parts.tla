------------------------------- MODULE Parts -------------------------------
(***************************************************************************)
(* The smaller parts of the system side by side.  They share no state and  *)
(* call nothing of each other: a behaviour is a behaviour of one of them,  *)
(* and the others are not there.  What only computes is in Calculations.   *)
(***************************************************************************)
EXTENDS Naturals, FiniteSets

CONSTANTS
  Nothing,
  Task, Client, Ref, Name, Recipe, Instance, Here, Requests, \* TemplateStore
  LastRelease, Caller, Release,                              \* UpdateChecks, UpdateDownloads
  User, Template, Holder, NoPath, MaxRetries, MaxQueued,     \* DeletionQueue
  Thread, Plugin, BundleArchives, MaxTasks, Seconds,         \* ExtensionStore
  Package, Skill, Picks, MaxOps,                             \* ContainerPlugins
  Home, Job, MaxCopies, MaxTaken,                            \* ResourceCopies
  Folder, Adder, MaxAdds,                                    \* Workspaces
  Saver, Storage, NotSet, MaxSaves,                          \* Settings
  Remote, Tag, MaxMoves,                                     \* HarnessMirror
  Full, MaxBreaks, MaxFrames, MaxAsked,                      \* TaskFeed
  Daemon, Ours, Port, MaxForeign,                            \* DaemonEndpoint
  Legacy, Fresh, MaxStarts, MaxFaults                        \* StoreOpening

\* No program listens on port 0: asked for it, the system gives another one.
ASSUME PortAssumption == 0 \notin Port
\* The background thread is no connection.
ASSUME CallerAssumption == "background" \notin Caller
\* A setting without a value has no value.
ASSUME SettingAssumption == NotSet # "new"
\* The progress of a task that is done is a number of percent.
ASSUME ProgressAssumption == Full \in Nat
\* A removal that failed is tried again.
ASSUME RetriesAssumption == MaxRetries \in Nat \ {0}
\* The ids of stored copies are numbered.
ASSUME CopiesAssumption == MaxCopies \in Nat
\* A connection is not the task that holds the key, and archives hold packages.
ASSUME RepositoryAssumption == "task" \notin Thread /\ BundleArchives \subseteq SUBSET Plugin
\* A plugin is told from a skill, and no name stands for none.
ASSUME InstallAssumption == Package \cap Skill = {} /\ "nothing" \notin Package \cup Skill

VARIABLES
  part,
  spawnedBy, stage, child, helper, pgid, reaped, stubborn, reused, hit,
  bases, sealed, trees, listed, at, does, seen, holds, stale,
  published, record, nudged, busy, check, asked, spared, pane, sent,
  load, disk, staged, installed,
  rows, shelf, dirs, archived, queue, worker, calls, overlapped, attempts,
  catalogue, kept, packs, task, ran, thread, outdated, clobbered, abandoned, mine,
  manifest, payload, records, stored, skills, known, builds, install, adder, uninstall, begun,
  crossed, late, midway,
  copied, packed, jobs, remover, taken, doubled, cut,
  doc, probed, adders, adds, answered, colds,
  config, works, saves, adopted, vendored, promised, mixed, spoilt,
  upstream, moves, mirror, pull, served, wasted, stuck,
  owner, entry, body, beat, wire, direct, echo, lists, panel, told, refreshed, replaced, breaks,
  daemons, discovery, temporary, foreign, takes, finder, notice, raced,
  tasksFile, archive, database, opener, backend, inMemory, filling, nodesIn, starts, faults, accepted,
  deleted, fellBack, entwined

Tree == INSTANCE ProcessTree
Store == INSTANCE TemplateStore
Checks == INSTANCE UpdateChecks
Downloads == INSTANCE UpdateDownloads
Deletions == INSTANCE DeletionQueue
Repository == INSTANCE ExtensionStore WITH Package <- Plugin, Archives <- BundleArchives,
              index <- catalogue, bundles <- packs
Installs == INSTANCE ContainerPlugins WITH Plugin <- Package, task <- install, remover <- uninstall,
            overlapped <- crossed, outdated <- late, abandoned <- midway
Copies == INSTANCE ResourceCopies
Registry == INSTANCE Workspaces WITH host <- probed
Setting == INSTANCE Settings WITH trees <- vendored
Mirror == INSTANCE HarnessMirror
Feed == INSTANCE TaskFeed
Endpoint == INSTANCE DaemonEndpoint
Opening == INSTANCE StoreOpening

\* There are finitely many names and callers; what is asked names what there is;
\* and no request, directory or state of one is no value.
ASSUME TemplateAssumption ==
  /\ IsFiniteSet(Name) /\ IsFiniteSet(Store!Actor)
  /\ Here # Nothing /\ Nothing \notin Requests \cup Store!TreeId \cup Store!TreeState
  /\ \A c \in Requests :
       /\ c.op \in {"pull", "uninstall", "build", "create", "import", "remove"}
       /\ c.op \in {"pull", "uninstall", "build"} => c.ref \in Ref
       /\ c.op \in {"build", "import", "remove"} => c.name \in Name
       /\ c.op = "build" => c.recipe \in Recipe
       /\ c.op = "create" => c.id \in Instance
       /\ c.op = "import" => Store!ArchiveTree(c.archive) \in Store!TreeId

Part == {"tree", "store", "checks", "downloads", "deletions", "repository", "installs",
         "copies", "registry", "settings", "mirrors", "feed", "endpoint", "opening"}

tree == <<spawnedBy, stage, child, helper, pgid, reaped, stubborn, reused, hit>>
store == <<bases, sealed, trees, listed, at, does, seen, holds, stale>>
checks == <<published, record, nudged, busy, check, asked, spared, pane, sent>>
downloads == <<load, disk, staged, installed>>
deletions == <<rows, shelf, dirs, archived, queue, worker, calls, overlapped, attempts>>
repository == <<catalogue, kept, packs, task, ran, thread, outdated, clobbered, abandoned, mine>>
installs == <<manifest, payload, records, stored, skills, known, builds, install, adder, uninstall, begun,
              crossed, late, midway>>
copies == <<copied, packed, jobs, remover, taken, doubled, cut>>
registry == <<doc, probed, adders, adds, answered, colds>>
settings == <<config, works, saves, adopted, vendored, promised, mixed, spoilt>>
mirrors == <<upstream, moves, mirror, pull, served, wasted, stuck>>
feed == <<owner, entry, body, beat, wire, direct, echo, lists, panel, told, refreshed, replaced, breaks>>
endpoint == <<daemons, discovery, temporary, foreign, takes, finder, notice, raced>>
opening == <<tasksFile, archive, database, opener, backend, inMemory, filling, nodesIn, starts, faults,
             accepted, deleted, fellBack, entwined>>

\* A part that is not followed is not there.
Absent(v) == v = Nothing

PartsStart ==
  /\ IF part = "tree" THEN Tree!TreeInit
     ELSE Absent(spawnedBy) /\ Absent(stage) /\ Absent(child) /\ Absent(helper) /\ Absent(pgid) /\
          Absent(reaped) /\ Absent(stubborn) /\ Absent(reused) /\ Absent(hit)
  /\ IF part = "store" THEN \E old \in SUBSET Ref : Store!StoreInit(old)
     ELSE Absent(bases) /\ Absent(sealed) /\ Absent(trees) /\ Absent(listed) /\ Absent(at) /\
          Absent(does) /\ Absent(seen) /\ Absent(holds) /\ Absent(stale)
  /\ IF part = "checks" THEN Checks!CheckInit
     ELSE Absent(published) /\ Absent(record) /\ Absent(nudged) /\ Absent(busy) /\ Absent(check) /\
          Absent(asked) /\ Absent(spared) /\ Absent(pane) /\ Absent(sent)
  /\ IF part = "downloads" THEN Downloads!DownloadInit
     ELSE Absent(load) /\ Absent(disk) /\ Absent(staged) /\ Absent(installed)
  /\ IF part = "deletions" THEN Deletions!QueueInit
     ELSE Absent(rows) /\ Absent(shelf) /\ Absent(dirs) /\ Absent(archived) /\ Absent(queue) /\
          Absent(worker) /\ Absent(calls) /\ Absent(overlapped) /\ Absent(attempts)
  /\ IF part = "repository" THEN Repository!ExtInit
     ELSE Absent(catalogue) /\ Absent(kept) /\ Absent(packs) /\ Absent(task) /\ Absent(ran) /\
          Absent(thread) /\ Absent(outdated) /\ Absent(clobbered) /\ Absent(abandoned) /\ Absent(mine)
  /\ IF part = "installs" THEN Installs!PluginsInit
     ELSE Absent(manifest) /\ Absent(payload) /\ Absent(records) /\ Absent(stored) /\ Absent(skills)
          /\ Absent(known) /\ Absent(builds) /\ Absent(install) /\ Absent(adder) /\ Absent(uninstall)
          /\ Absent(begun) /\ Absent(crossed) /\ Absent(late) /\ Absent(midway)
  /\ IF part = "copies" THEN Copies!CopiesInit
     ELSE Absent(copied) /\ Absent(packed) /\ Absent(jobs) /\ Absent(remover) /\ Absent(taken) /\
          Absent(doubled) /\ Absent(cut)
  /\ IF part = "registry" THEN Registry!WorkspacesInit
     ELSE Absent(doc) /\ Absent(probed) /\ Absent(adders) /\ Absent(adds) /\ Absent(answered) /\
          Absent(colds)
  /\ IF part = "settings" THEN Setting!SettingsInit
     ELSE Absent(config) /\ Absent(works) /\ Absent(saves) /\ Absent(adopted) /\ Absent(vendored) /\
          Absent(promised) /\ Absent(mixed) /\ Absent(spoilt)
  /\ IF part = "mirrors" THEN Mirror!MirrorInit
     ELSE Absent(upstream) /\ Absent(moves) /\ Absent(mirror) /\ Absent(pull) /\ Absent(served) /\
          Absent(wasted) /\ Absent(stuck)
  /\ IF part = "feed" THEN Feed!FeedInit
     ELSE Absent(owner) /\ Absent(entry) /\ Absent(body) /\ Absent(beat) /\ Absent(wire) /\
          Absent(direct) /\ Absent(echo) /\ Absent(lists) /\ Absent(panel) /\ Absent(told) /\
          Absent(refreshed) /\ Absent(replaced) /\ Absent(breaks)
  /\ IF part = "endpoint" THEN Endpoint!EndpointInit
     ELSE Absent(daemons) /\ Absent(discovery) /\ Absent(temporary) /\ Absent(foreign) /\
          Absent(takes) /\ Absent(finder) /\ Absent(notice) /\ Absent(raced)
  /\ IF part = "opening" THEN Opening!OpeningInit
     ELSE Absent(tasksFile) /\ Absent(archive) /\ Absent(database) /\ Absent(opener) /\
          Absent(backend) /\ Absent(inMemory) /\ Absent(filling) /\ Absent(nodesIn) /\
          Absent(starts) /\ Absent(faults) /\ Absent(accepted) /\ Absent(deleted) /\
          Absent(fellBack) /\ Absent(entwined)
PartsInit == part \in Part /\ PartsStart

TreeStep ==
  /\ part = "tree" /\ Tree!TreeNext
  /\ UNCHANGED <<store, checks, downloads, deletions, repository, installs, copies, registry, settings, mirrors, feed, endpoint, opening>>
StoreStep ==
  /\ part = "store" /\ Store!StoreNext
  /\ UNCHANGED <<tree, checks, downloads, deletions, repository, installs, copies, registry, settings, mirrors, feed, endpoint, opening>>
CheckStep ==
  /\ part = "checks" /\ Checks!CheckNext
  /\ UNCHANGED <<tree, store, downloads, deletions, repository, installs, copies, registry, settings, mirrors, feed, endpoint, opening>>
DownloadStep ==
  /\ part = "downloads" /\ Downloads!DownloadNext
  /\ UNCHANGED <<tree, store, checks, deletions, repository, installs, copies, registry, settings, mirrors, feed, endpoint, opening>>
DeletionStep ==
  /\ part = "deletions" /\ Deletions!QueueNext
  /\ UNCHANGED <<tree, store, checks, downloads, repository, installs, copies, registry, settings, mirrors, feed, endpoint, opening>>
RepositoryStep ==
  /\ part = "repository" /\ Repository!ExtNext
  /\ UNCHANGED <<tree, store, checks, downloads, deletions, installs, copies, registry, settings, mirrors, feed, endpoint, opening>>
InstallStep ==
  /\ part = "installs" /\ Installs!PluginsNext
  /\ UNCHANGED <<tree, store, checks, downloads, deletions, repository, copies, registry, settings, mirrors, feed, endpoint, opening>>
CopyStep ==
  /\ part = "copies" /\ Copies!CopiesNext
  /\ UNCHANGED <<tree, store, checks, downloads, deletions, repository, installs, registry, settings, mirrors, feed, endpoint, opening>>
RegistryStep ==
  /\ part = "registry" /\ Registry!WorkspacesNext
  /\ UNCHANGED <<tree, store, checks, downloads, deletions, repository, installs, copies, settings, mirrors, feed, endpoint, opening>>
SettingStep ==
  /\ part = "settings" /\ Setting!SettingsNext
  /\ UNCHANGED <<tree, store, checks, downloads, deletions, repository, installs, copies, registry, mirrors, feed, endpoint, opening>>
MirrorStep ==
  /\ part = "mirrors" /\ Mirror!MirrorNext
  /\ UNCHANGED <<tree, store, checks, downloads, deletions, repository, installs, copies, registry, settings, feed, endpoint, opening>>
FeedStep ==
  /\ part = "feed" /\ Feed!FeedNext
  /\ UNCHANGED <<tree, store, checks, downloads, deletions, repository, installs, copies, registry, settings, mirrors, endpoint, opening>>
EndpointStep ==
  /\ part = "endpoint" /\ Endpoint!EndpointNext
  /\ UNCHANGED <<tree, store, checks, downloads, deletions, repository, installs, copies, registry, settings, mirrors, feed, opening>>
OpeningStep ==
  /\ part = "opening" /\ Opening!OpeningNext
  /\ UNCHANGED <<tree, store, checks, downloads, deletions, repository, installs, copies, registry, settings, mirrors, feed, endpoint>>

PartsNext ==
  /\ \/ TreeStep
     \/ StoreStep
     \/ CheckStep
     \/ DownloadStep
     \/ DeletionStep
     \/ RepositoryStep
     \/ InstallStep
     \/ CopyStep
     \/ RegistryStep
     \/ SettingStep
     \/ MirrorStep
     \/ FeedStep
     \/ EndpointStep
     \/ OpeningStep
  /\ UNCHANGED part
partsVars == <<part, tree, store, checks, downloads, deletions, repository, installs, copies, registry,
               settings, mirrors, feed, endpoint, opening>>
PartsSpec == PartsInit /\ [][PartsNext]_partsVars

\* The properties of each part, stated in its module of the part that is there.
Of(p, sound) == part = p => sound

\* A host's handle signals the host's tree and leaves nothing of its child; one
\* daemon serves, and is the one that is found.
ProcessesSound ==
  /\ Of("tree", Tree!ProcessesSound)
  /\ Of("endpoint", Endpoint!EndpointSound)
\* A template is what was pulled, from a mirror that is what the remote has.
TemplatesSound ==
  /\ Of("store", Store!TemplatesSound)
  /\ Of("mirrors", Mirror!MirrorSound)
\* A new release is asked for, announced and fetched as promised; what is set is
\* kept, and the bundled plugins follow it.
UpdatesSound ==
  /\ Of("checks", Checks!ChecksSound)
  /\ Of("downloads", Downloads!DownloadsSound)
  /\ Of("settings", Setting!SettingsSound)
\* What is asked for becomes deletions of the things that were meant; what is
\* enqueued is in the store that is read again; and the panel shows how it ended.
TasksSound ==
  /\ Of("deletions", Deletions!DeletionsSound)
  /\ Of("feed", Feed!FeedSound)
  /\ Of("opening", Opening!OpeningSound)
\* The repository of extensions, and what of it a container has installed.
RepositorySound ==
  /\ Of("repository", Repository!RepositorySound)
  /\ Of("installs", Installs!InstalledAgrees)
\* Stored copies of what containers hold are whole where a row says so, and every
\* workspace of a container is registered once.
ResourcesSound ==
  /\ Of("copies", Copies!CopiesSound)
  /\ Of("registry", Registry!WorkspacesSound)
=============================================================================
