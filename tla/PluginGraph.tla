---------------------------- MODULE PluginGraph ----------------------------
(***************************************************************************)
(* The plugin graph of a template or container: which packages count,      *)
(* which of them the profile loads, who waits for whose service, and what  *)
(* a pnpm lock says is installed.                                          *)
(*                                                                         *)
(* A package on disk is [name, deps, patch, browser, entry, files]: the    *)
(* packages it depends on, its patch layer (NoLayer if unreadable), does   *)
(* its manifest declare both dsh.client and exports["./client"], the path  *)
(* that names (<<>> when it is no object with a default or types), and its *)
(* source files as read, [path, scan].  A path is the sequence of its      *)
(* components.  A scan is [provides, requires, unresolved]; a service is   *)
(* the sequence of its dotted segments.  A patch layer is a sequence of    *)
(* [id, name, disabled], disabled being "on", "off" or NotSaid.            *)
(***************************************************************************)
EXTENDS Naturals, Sequences, SequencesExt, FiniteSets, Functions, TLC

CONSTANTS
  NotSaid,    \* a field that is absent
  NoLayer,    \* a patch file that cannot be read
  Launcher,   \* the node that stands for apps/cli
  MaxSourceFiles,
  Stem,       \* a file name without its extension, as a function
  Protocol,   \* what pnpm writes for a version that names no version
  SortsLater(_, _) \* the string order of versions

Silent == [provides |-> {}, requires |-> {}, unresolved |-> FALSE]
Declares(scan) == scan # Silent
Merged(scans) ==
  [provides |-> UNION {s.provides : s \in scans}, requires |-> UNION {s.requires : s \in scans},
   unresolved |-> \E s \in scans : s.unresolved]
-----------------------------------------------------------------------------
(* Packages and their two halves. *)

\* The roots are read in this order and the first package of a name counts.
Candidates(disk) == disk.harness \o disk.vendor \o disk.launcher \o disk.modules \o disk.repository
Unique(disk) ==
  LET all == Candidates(disk)
  IN [n \in {p.name : p \in Range(all)} |-> all[SelectInSeq(all, LAMBDA p : p.name = n)]]

SourceFiles(package) ==
  SubSeq(package.files, 1, IF Len(package.files) < MaxSourceFiles THEN Len(package.files) ELSE MaxSourceFiles)

\* Where the browser half lives, as the manifest declares it.
HalfDirectory(package) ==
  LET entry == package.entry
      tree == \E f \in Range(package.files) : f.path[1] = "src"
  IN IF entry = <<>> THEN IF tree THEN <<"src">> ELSE <<>>
     ELSE IF ~tree THEN Front(entry) \o <<Stem[Last(entry)]>>
     ELSE IF entry[1] = "src" THEN Front(entry)
     ELSE <<"src", Stem[Last(entry)]>>
\* seeded fault: only the directory counts, not the entry beside it.
ClientPrefixesDirectory(package) ==
  IF ~package.browser THEN {}
  ELSE {p \in {HalfDirectory(package)} : \E f \in Range(package.files) : IsPrefix(p, f.path)}
ClientPrefixes(package) ==
  IF ~package.browser THEN {}
  ELSE {p \in {HalfDirectory(package)} : \E f \in Range(package.files) : IsPrefix(p, f.path)}
       \cup {p \in {package.entry} : \E f \in Range(package.files) : f.path = p}
InClient(package, file) == \E p \in ClientPrefixes(package) : IsPrefix(p, file.path)

HostScan(package) == Merged({f.scan : f \in {g \in Range(SourceFiles(package)) : ~InClient(package, g)}})
ClientScan(package) == Merged({f.scan : f \in {g \in Range(SourceFiles(package)) : InClient(package, g)}})
-----------------------------------------------------------------------------
(* activation: what the profile loads. *)

\* seeded fault: a later row that does not say so switches the plugin on again.
MergePatchRowResets(rows, entry) ==
  IF entry.id = NotSaid THEN rows
  ELSE LET old == IF entry.id \in DOMAIN rows THEN rows[entry.id] ELSE [name |-> NotSaid, disabled |-> FALSE]
       IN (entry.id :> [name |-> IF entry.name = NotSaid THEN old.name ELSE entry.name,
                        disabled |-> entry.disabled = "off"]) @@ rows
MergePatchRow(rows, entry) ==
  IF entry.id = NotSaid THEN rows
  ELSE LET old == IF entry.id \in DOMAIN rows THEN rows[entry.id] ELSE [name |-> NotSaid, disabled |-> FALSE]
       IN (entry.id :> [name |-> IF entry.name = NotSaid THEN old.name ELSE entry.name,
                        disabled |-> IF entry.disabled = NotSaid THEN old.disabled
                                     ELSE entry.disabled = "off"]) @@ rows
ApplyPatchLayer(rows, layer) == FoldLeft(MergePatchRow, rows, layer)

\* The patches of the profile's bundles in order, then its own; one that cannot
\* be read is passed over.
Layers(profile, unique) ==
  LET Of(bundle) == IF bundle \in DOMAIN unique THEN unique[bundle].patch ELSE NoLayer
  IN SelectSeq(Append([k \in DOMAIN profile.bundles |-> Of(profile.bundles[k])], profile.patch),
               LAMBDA l : l # NoLayer)
PatchRows(profile, unique) == FoldLeft(ApplyPatchLayer, <<>>, Layers(profile, unique))

\* The bundles and everything they depend on.
DependencyClosure(bundles, unique) ==
  LET after[n \in 0 .. Cardinality(DOMAIN unique) + 1] ==
        IF n = 0 THEN bundles
        ELSE after[n - 1] \cup UNION {unique[p].deps : p \in after[n - 1] \cap DOMAIN unique}
  IN after[Cardinality(DOMAIN unique) + 1]

\* seeded fault: a profile that cannot be read loads nothing.
ActivationEmpty(profile, unique) ==
  LET rows == PatchRows(profile, unique)
      Named(off) == {rows[i].name : i \in {j \in DOMAIN rows : rows[j].disabled = off}} \ {NotSaid}
      loaded == (DependencyClosure(Range(profile.bundles), unique) \cup Named(FALSE)) \ Named(TRUE)
  IN IF ~profile.readable THEN [known |-> TRUE, names |-> {}]
     ELSE [known |-> TRUE, names |-> loaded \cup ({Launcher} \cap DOMAIN unique)]
Activation(profile, unique) ==
  LET rows == PatchRows(profile, unique)
      Named(off) == {rows[i].name : i \in {j \in DOMAIN rows : rows[j].disabled = off}} \ {NotSaid}
      loaded == (DependencyClosure(Range(profile.bundles), unique) \cup Named(FALSE)) \ Named(TRUE)
  IN IF ~profile.readable THEN [known |-> FALSE, names |-> {}]
     ELSE [known |-> TRUE, names |-> loaded \cup ({Launcher} \cap DOMAIN unique)]

IsActivated(activated, name) == ~activated.known \/ name \in activated.names
-----------------------------------------------------------------------------
(* assemble: who waits for whom. *)

\* A package with two declaring halves is two nodes, else one.
NodesOf(package) ==
  LET host == HostScan(package)
      client == ClientScan(package)
      Node(id, half, scan) == [id |-> id, package |-> package.name, half |-> half, scan |-> scan]
  IN IF ~Declares(client) THEN {Node(<<package.name>>, "host", host)}
     ELSE IF ~Declares(host) THEN {Node(<<package.name>>, "client", client)}
     ELSE {Node(<<package.name>>, "host", host), Node(<<package.name, "client">>, "client", client)}

\* What declares nothing and is not loaded is no node.
Nodes(unique, activated) ==
  UNION {NodesOf(unique[n]) : n \in {m \in DOMAIN unique :
           \/ Declares(HostScan(unique[m])) \/ Declares(ClientScan(unique[m]))
           \/ activated.known /\ m \in activated.names}}

Providers(nodes, service) == {n \in nodes : service \in n.scan.provides}
\* seeded fault: a dotted requirement is looked up whole.
ResolveServiceWhole(nodes, declared) == IF Providers(nodes, declared) # {} THEN declared ELSE <<>>
\* The longest dotted prefix somebody provides, <<>> if there is none.
ResolveService(nodes, declared) ==
  LET provided == {k \in DOMAIN declared : Providers(nodes, SubSeq(declared, 1, k)) # {}}
  IN IF provided = {} THEN <<>> ELSE SubSeq(declared, 1, CHOOSE k \in provided : \A l \in provided : l <= k)

\* seeded fault: the other half's providers are taken as well.
ReachableAny(nodes, node, service) == Providers(nodes, service)
\* The providers of the node's own half, the other half's when there are none.
Reachable(nodes, node, service) ==
  LET same == {p \in Providers(nodes, service) : p.half = node.half}
  IN IF same = {} THEN Providers(nodes, service) ELSE same

\* The requirements of a node: the service it waits for and who may give it.
Requirements(nodes) ==
  UNION {{[node |-> n, declared |-> s, service |-> ResolveService(nodes, s)] : s \in n.scan.requires} : n \in nodes}
SelfProvided(r) == r.service \in r.node.scan.provides
Satisfied(nodes, activated, r) ==
  \/ SelfProvided(r)
  \/ \E p \in Reachable(nodes, r.node, r.service) : IsActivated(activated, p.package)

Links(nodes) ==
  UNION {{[from |-> r.node.id, to |-> p.id, service |-> r.service, cross |-> p.half # r.node.half] :
            p \in Reachable(nodes, r.node, r.service)} :
         r \in {q \in Requirements(nodes) : q.service # <<>> /\ ~SelfProvided(q)}}
Missing(nodes, activated) ==
  {<<r.node.id, r.declared>> : r \in {q \in Requirements(nodes) :
     q.service = <<>> /\ IsActivated(activated, q.node.package)}}
InactiveProviders(nodes, activated) ==
  {<<r.node.id, r.service>> : r \in {q \in Requirements(nodes) :
     q.service # <<>> /\ ~Satisfied(nodes, activated, q) /\ IsActivated(activated, q.node.package)}}

SharedServices(nodes, activated) ==
  LET Loaded(s) == {p \in Providers(nodes, s) : IsActivated(activated, p.package)}
      Of(s, half) == Cardinality({p \in Loaded(s) : p.half = half})
  IN {[service |-> s, perContext |-> Of(s, "client") <= 1 /\ Of(s, "host") <= 1] :
        s \in {t \in UNION {n.scan.provides : n \in nodes} : Cardinality(Loaded(t)) > 1}}

Assemble(nodes, activated) ==
  [nodes |-> nodes, links |-> Links(nodes), missing |-> Missing(nodes, activated),
   inactive |-> InactiveProviders(nodes, activated), shared |-> SharedServices(nodes, activated)]
BuildGraph(disk, profile) ==
  LET unique == Unique(disk)
      activated == Activation(profile, unique)
  IN Assemble(Nodes(unique, activated), activated)
-----------------------------------------------------------------------------
(* parse_lockfile.  A lock is [direct, packages, snapshots]: direct is a set *)
(* of [name, version, specifier]; the sections are sequences of [name, slot, *)
(* version, peer, edges], slot being what stands after the name in the key   *)
(* and version the entry's own version field.                                *)

\* seeded fault: every section resolves a slot for itself.
SlotVersionAlone(entries, e) ==
  IF e.slot \in Protocol /\ e.version # NotSaid THEN e.version ELSE e.slot
\* The first entry of a slot decides its version for both sections.
SlotVersion(entries, e) ==
  LET first == entries[SelectInSeq(entries, LAMBDA x : x.name = e.name /\ x.slot = e.slot)]
  IN IF first.slot \in Protocol /\ first.version # NotSaid THEN first.version ELSE first.slot

ParseLockfile(lock) ==
  LET entries == lock.packages \o lock.snapshots
      Listed(e) == <<e.name, SlotVersion(entries, e)>>
      First(key) == entries[SelectInSeq(entries, LAMBDA e : Listed(e) = key)]
      Asked(name) == {d \in lock.direct : d.name = name}
      Locked(key) ==
        [name |-> key[1], version |-> key[2], direct |-> Asked(key[1]) # {},
         specifier |-> IF Asked(key[1]) = {} THEN NotSaid ELSE (CHOOSE d \in Asked(key[1]) : TRUE).specifier,
         plugin |-> Asked(key[1]) # {} \/ First(key).peer,
         edges |-> UNION {e.edges : e \in {x \in Range(entries) : Listed(x) = key}}]
      unlisted == {d \in lock.direct : \A e \in Range(entries) : e.name # d.name}
  IN {Locked(key) : key \in {Listed(e) : e \in Range(entries)}}
     \cup {[name |-> d.name, version |-> d.version, direct |-> TRUE, specifier |-> d.specifier,
            plugin |-> TRUE, edges |-> {}] : d \in unlisted}

\* What the template's recipe and its lock add to the graph: nodes without
\* declarations, and no place in the order.
RecipePlugins(graph, recipes, locked) ==
  LET have == {n.package : n \in graph.nodes}
  IN Range(recipes) \cup ({p.name : p \in {q \in locked : q.plugin}} \ have)
WithRecipe(graph, recipes, locked) ==
  LET have == {n.package : n \in graph.nodes}
      added == RecipePlugins(graph, recipes, locked) \ have
  IN [graph EXCEPT !.nodes = @ \cup {[id |-> <<n>>, package |-> n, half |-> "host", scan |-> Silent] : n \in added}]
-----------------------------------------------------------------------------
(* plugins.rs: the plugins of the machine, one derived entry for a name.  An *)
(* owner is [kind, locked, built]; templates come before containers.         *)

DerivedSpec(p) ==
  IF p.specifier \in Protocol THEN p.specifier
  ELSE IF p.version \in Protocol THEN p.version
  ELSE <<p.name, p.version>>
\* seeded fault: a template that was never built counts.
InstalledPluginVersionsUnbuilt(owners) ==
  LET counted == SelectSeq(owners, LAMBDA o : TRUE)
      Plugins(o) == {p \in o.locked : p.plugin}
      names == {p.name : p \in UNION {Plugins(o) : o \in Range(counted)}}
      LastOwner(n) == counted[SelectLastInSeq(counted, LAMBDA o : \E p \in Plugins(o) : p.name = n)]
      Chosen(n) == CHOOSE p \in Plugins(LastOwner(n)) :
                     p.name = n /\ \A q \in Plugins(LastOwner(n)) : q.name = n => q = p \/ SortsLater(p.version, q.version)
  IN {[name |-> n, version |-> Chosen(n).version, spec |-> DerivedSpec(Chosen(n))] : n \in names}
\* The last owner in this order decides; within a lock its last version.
InstalledPluginVersions(owners) ==
  LET counted == SelectSeq(owners, LAMBDA o : o.kind = "container" \/ o.built)
      Plugins(o) == {p \in o.locked : p.plugin}
      names == {p.name : p \in UNION {Plugins(o) : o \in Range(counted)}}
      LastOwner(n) == counted[SelectLastInSeq(counted, LAMBDA o : \E p \in Plugins(o) : p.name = n)]
      Chosen(n) == CHOOSE p \in Plugins(LastOwner(n)) :
                     p.name = n /\ \A q \in Plugins(LastOwner(n)) : q.name = n => q = p \/ SortsLater(p.version, q.version)
  IN {[name |-> n, version |-> Chosen(n).version, spec |-> DerivedSpec(Chosen(n))] : n \in names}

\* list_installed_plugins: one row for a name, whoever has it.
InstalledRows(repository, owners) ==
  LET counted == {o \in Range(owners) : o.kind = "container" \/ o.built}
      Plugins(o) == {p \in o.locked : p.plugin}
      names == {e.name : e \in repository} \cup {p.name : p \in UNION {Plugins(o) : o \in counted}}
  IN {[name |-> n,
       inRepository |-> \E e \in repository : e.name = n,
       versions |-> ({e.version : e \in {x \in repository : x.name = n}} \ {NotSaid})
                    \cup {p.version : p \in {q \in UNION {Plugins(o) : o \in counted} : q.name = n}}] : n \in names}
=============================================================================
