---------------------------- MODULE Calculations ----------------------------
(***************************************************************************)
(* The parts of the system that only compute: a call with its input, and   *)
(* its answer.  Every step answers one call; the properties compare the    *)
(* answers with what the call promises, and with the answers of the other  *)
(* computations that must agree with it.                                   *)
(***************************************************************************)
EXTENDS PageTree, PluginGraph, PluginOrder, EnvPolicy

CONSTANTS Calls, NoAnswer, Spaced, Dotted
CONSTANTS ArchiveWord, Digital, OddWord, Noise, Coloned, DropGit(_), DropSuffix(_), DropArchive(_), Safe(_)
CONSTANTS Unsafe, ByName(_, _)
CONSTANTS Slot, Known, Fate, Clean(_)

Kinds == INSTANCE ResourceKinds
Wants == INSTANCE Requests
Drawing == INSTANCE GraphLayout
Script == INSTANCE Boxfile
Names == INSTANCE Releases
Pinned == INSTANCE ApplyDocument

VARIABLES call, answer
vars == <<call, answer, orderVars>>

Init ==
  /\ call \in Calls /\ answer = NoAnswer
  /\ OrderStart(IF call.of = "order" THEN call.links ELSE [n \in Node |-> {}])

Open(of) == call.of = of /\ answer = NoAnswer /\ call' = call /\ UNCHANGED orderVars

ListPage == Open("page_text") /\ answer' = PageText(call.tree, call.limit, call.role, call.within)
Locate ==
  /\ Open("locate")
  /\ answer' = LocateByName(call.tree, call.name, call.role, call.nth, call.within, call.inDom)
ReadConsole == Open("console") /\ answer' = ConsoleReply(call.events, call.levels, call.limit)
Prune == Open("prune") /\ answer' = Pruned(call.files, call.keep)
ReadGraph == Open("graph") /\ answer' = BuildGraph(call.disk, call.profile)
ReadTemplateGraph ==
  /\ Open("template_graph")
  /\ answer' = WithRecipe(BuildGraph(call.disk, call.profile), call.recipes, call.locked)
SplitHalves ==
  /\ Open("halves")
  /\ answer' = {f.path : f \in {g \in Range(SourceFiles(call.package)) : InClient(call.package, g)}}
Activate == Open("activation") /\ answer' = Activation(call.profile, Unique(call.disk))
ReadLock == Open("lock") /\ answer' = ParseLockfile(call.lock)
ListPlugins == Open("plugins") /\ answer' = InstalledRows(call.repository, call.owners)

\* A drawing, and the drawings of what is left when one depth is folded.
LayOut ==
  /\ Open("layout")
  /\ \E drawn \in {Drawing!layoutGraph(call)} :
       answer' = [drawn |-> drawn,
                  folded |-> [d \in Range(drawn.layer) |->
                                Drawing!layoutGraph(Drawing!foldLayers(call, drawn.layer, {d}))]]

Environ == Open("env") /\ answer' = ChildEnv(call)

WriteSection ==
  Open("section") /\ answer' = Kinds!write_section(call.doc, call.section, call.incoming, call.conflict)
PutEntries == Open("entries") /\ answer' = Kinds!InjectEntries(call.payload, call.dest, call.conflict)
Carry == Open("carry") /\ answer' = Kinds!Carried(call.source, call.target, call.conflict)
ResolveKind == Open("kind") /\ answer' = Kinds!resolve_kind(call.declared, call.id, call.dest)

Resolve ==
  /\ Open("resolve")
  /\ answer' = <<Wants!resolve_container_in_root(call.store, call.raw),
                Wants!match_container(Wants!scan_containers(call.store), call.raw)>>
Dispatch == Open("requests") /\ answer' = [k \in 1 .. 2 |-> Wants!dispatch(call.store, call.pair[k])]

Base == <<"base">>
ReadSource ==
  /\ Open("source")
  /\ \E source \in {Script!parse_source_token(call.token, Base)} :
       answer' = [parsed |-> source,
                  spec |-> IF source = Script!Bad THEN NotSaid ELSE Script!pnpm_plugin_spec(source),
                  imported |-> Script!classify_import_source(call.token),
                  pulled |-> Script!parse_template_ref(call.token),
                  from |-> Script!ReadFrom(Script!Blank, call.token),
                  shown |-> Script!describe_source(source), key |-> Script!data_source_name(source)]
ReadScript ==
  /\ Open("script")
  /\ \E one \in {Script!parse_script(call.lines, Base)},
        other \in {Script!parse_script([call.lines EXCEPT ![call.at] = call.lines[call.at + 1],
                                                       ![call.at + 1] = call.lines[call.at]], Base)} :
       answer' = [plan |-> Script!BuildPlan(one, <<>>), swapped |-> Script!BuildPlan(other, <<>>),
                  manifest |-> IF one.ok THEN Script!compile_manifest(one) ELSE NotSaid,
                  preview |-> Script!preview_image_script(one)]
ReadArchive ==
  Open("archive") /\ answer' = Script!read_dshimage(Script!write_dshimage(call.blobs), call.suffix)

ListReleases ==
  /\ Open("catalogue")
  /\ answer' = [shown |-> Names!list_dsh_versions_derived(call.index, call.remote),
                badge |-> Names!list_installed_dsh_versions(call.index)]
CompareReleases ==
  /\ Open("compare")
  /\ answer' = [newer |-> Names!is_newer(call.a, call.b), older |-> Names!is_newer(call.b, call.a),
                same |-> Names!same_version(call.a, call.b), above |-> Names!order_of(call.a, call.b)]
PickAsset ==
  /\ Open("asset")
  /\ answer' = [read |-> Names!read_manifest(call.offer),
                asset |-> Names!preferred_asset(call.offer, call.preferred),
                takes |-> Names!installable_from(call.offer, call.current)]

\* A document applied for show, applied, and applied again.
ApplyTwice ==
  /\ Open("apply")
  /\ \E shown \in {Pinned!apply_document_rpc(call.store, call.doc, TRUE, 1)},
        once \in {Pinned!apply_document_rpc(call.store, call.doc, FALSE, 1)} :
       \E twice \in {Pinned!apply_document_rpc([views |-> once.views, copies |-> once.copies], call.doc, FALSE, 2)} :
         answer' = [shown |-> shown, once |-> once, twice |-> twice,
                    tabs |-> [id \in DOMAIN once.views |->
                                Pinned!list_resource_type(Range(Known), once.views[id].kind, once.views[id].path, once.copies)]]
Edit(views, e, now) ==
  CASE e.op = "add" -> Pinned!add_resource_view(views, "k", "c1", e.path, e.label, now)
    [] e.op = "enable" -> Pinned!set_resource_view_enabled(views, Pinned!build_id("k", "c1", e.path), e.on)
    [] OTHER -> Pinned!delete_resource_view(views, Pinned!build_id("k", "c1", e.path))
EditViews ==
  Open("views") /\ answer' = FoldLeft(LAMBDA views, k : Edit(views, call.edits[k], k), <<>>, [k \in DOMAIN call.edits |-> k])

\* The one computation that takes many steps.
Sort == call.of = "order" /\ OrderNext /\ UNCHANGED <<call, answer>>

Done == (IF call.of = "order" THEN Sorted ELSE answer # NoAnswer) /\ UNCHANGED vars
Next ==
  \/ ListPage \/ Locate \/ ReadConsole \/ Prune
  \/ ReadGraph \/ ReadTemplateGraph \/ SplitHalves \/ Activate \/ ReadLock \/ ListPlugins \/ LayOut
  \/ Environ
  \/ WriteSection \/ PutEntries \/ Carry \/ ResolveKind
  \/ Resolve \/ Dispatch
  \/ ReadSource \/ ReadScript \/ ReadArchive
  \/ ListReleases \/ CompareReleases \/ PickAsset
  \/ ApplyTwice \/ EditViews
  \/ Sort
  \/ Done
Spec == Init /\ [][Next]_vars

Answered(of) == call.of = of /\ answer # NoAnswer
-----------------------------------------------------------------------------
(* debug.rs *)

\* What the listing of a page leaves out is either beyond the limit, which the
\* answer then says, or a text that repeats the name of a control it lists.
ListingFaithful ==
  (Answered("page_text") /\ call.within = NoName) =>
     \A i \in DOMAIN call.tree :
       Reportable(call.tree, call.role, i) =>
          \/ i \in On(answer.elements)
          \/ answer.truncated /\ \A j \in On(answer.elements) : j < i
          \/ /\ call.tree[i].role = "StaticText"
             /\ \E j \in On(answer.elements) :
                  call.tree[j].role \in ClickableRole /\ call.tree[j].name = call.tree[i].name

\* A press by name without a position lands on the only thing of that name that
\* is on the page, and never on a disabled one.
PressIsUnambiguous ==
  (Answered("locate") /\ answer.out = "at") =>
     /\ call.tree[answer.node].placed /\ ~call.tree[answer.node].disabled
     /\ (call.nth = NoName /\ call.within = NoName) =>
          \A i \in DOMAIN call.tree \ {answer.node} :
             ~(Matches(call.tree, call.name, call.role, call.within, i) /\ call.tree[i].placed)

\* A control the listing shows, whose name nothing else has, is the one a press
\* by that name lands on.
ListedIsFound ==
  (Answered("locate") /\ call.within = NoName /\ call.nth = NoName /\ call.role = NoName) =>
     \A i \in On(PageText(call.tree, Len(call.tree), NoName, NoName).elements) :
        (/\ call.tree[i].name = call.name /\ call.tree[i].placed /\ ~call.tree[i].disabled
         /\ \A j \in DOMAIN call.tree \ {i} : call.tree[j].name # call.name)
        => answer = [out |-> "at", node |-> i]

\* A console answer that is not cut off has every event of the wanted levels
\* under one entry, with the number of times it happened, first come first.
CountsExact ==
  (Answered("console") /\ ~answer.truncated) =>
     LET wanted == SelectSeq(call.events, LAMBDA e : e.level \in call.levels)
         First(e) == CHOOSE i \in DOMAIN wanted : wanted[i] = e /\ \A j \in 1 .. i - 1 : wanted[j] # e
     IN /\ {x.what : x \in Range(answer.entries)} = Range(wanted)
        /\ \A k \in DOMAIN answer.entries :
             answer.entries[k].count = Cardinality({i \in DOMAIN wanted : wanted[i] = answer.entries[k].what})
        /\ \A k, l \in DOMAIN answer.entries :
             k < l => First(answer.entries[k].what) < First(answer.entries[l].what)

\* Only files beyond the number to keep are deleted, and none that is newer
\* than one that stays.
NewestKept ==
  Answered("prune") =>
     /\ Cardinality(answer) = IF Len(call.files) > call.keep THEN Len(call.files) - call.keep ELSE 0
     /\ \A i \in answer, j \in DOMAIN call.files \ answer : call.files[i] <= call.files[j]

\* The listing of a page and the click by name agree: what is on the page is
\* listed, and what is listed can be pressed, unambiguously.  What a limit cuts
\* off is nothing of a complete console answer, and the oldest screenshots.
PagesSound == ListingFaithful /\ PressIsUnambiguous /\ ListedIsFound /\ CountsExact /\ NewestKept

\* The listing of a named container has exactly what is kept below the node
\* that was settled on.  It fails: see the README.
ListingScoped ==
  (Answered("page_text") /\ call.within # NoName /\ answer.ok) =>
     LET listed == FirstReported(call.tree, call.limit, call.role)
         kept == WithoutLabels(call.tree, listed)
         named == kept[SelectInSeq(kept, LAMBDA i : call.tree[i].name = call.within)]
         scope == ScopeNode(Chain(call.tree)[named], [k \in DOMAIN listed |-> Chain(call.tree)[listed[k]]])
     IN answer.elements = SelectSeq(kept, LAMBDA i : scope \in On(Chain(call.tree)[i]))

\* A press within a container lands inside it.  It fails: see the README.
PressIsInside ==
  (Answered("locate") /\ call.within # NoName /\ answer.out = "at") =>
     \E j \in On(Chain(call.tree)[answer.node]) : call.tree[j].name = call.within
-----------------------------------------------------------------------------
(* box-plugin-graph, plugins.rs *)

Requires(graph) == Requirements(graph.nodes)
Runs(r) == IsActivated(Activation(call.profile, Unique(call.disk)), r.node.package)

\* A loaded plugin that waits for a service gets it from itself or over a link
\* from a loaded plugin, or the graph says why not; nothing is said of a plugin
\* that is not loaded, and a service some dotted prefix of which is provided is
\* never called missing.
RequirementsAccounted ==
  Answered("graph") =>
     LET Named(r) == <<r.node.id, r.declared>>
         Served(r) == \/ \E k \in DOMAIN r.declared : SubSeq(r.declared, 1, k) \in r.node.scan.provides
                      \/ \E l \in answer.links, n \in answer.nodes :
                           /\ l.from = r.node.id /\ l.to = n.id /\ IsPrefix(l.service, r.declared)
                           /\ Runs([node |-> n])
     IN /\ \A r \in Requires(answer) :
             Runs(r) => (Served(r) <=> Named(r) \notin answer.missing /\ <<r.node.id, r.service>> \notin answer.inactive)
        /\ \A m \in answer.missing :
             \A n \in answer.nodes, k \in DOMAIN m[2] : SubSeq(m[2], 1, k) \notin n.scan.provides
        /\ \A r \in Requires(answer) :
             ~Runs(r) => Named(r) \notin answer.missing /\ <<r.node.id, r.service>> \notin answer.inactive

\* A link crosses from one application to the other only when nobody on the
\* requiring side has the service.
LinksStayInContext ==
  Answered("graph") =>
     \A l \in answer.links, m, n \in answer.nodes :
        (l.cross /\ l.from = m.id /\ n.half = m.half) => l.service \notin n.scan.provides

\* Without a profile every plugin counts as loaded: what nobody provides is
\* missing, and nothing is called installed but not loaded.
UnknownCountsAsLoaded ==
  (Answered("graph") /\ ~call.profile.readable) =>
     /\ answer.inactive = {}
     /\ {m[2] : m \in answer.missing} = {r.declared : r \in {q \in Requires(answer) : q.service = <<>>}}

\* The browser entry a manifest declares is in the browser half.
EntryIsClient ==
  (Answered("halves") /\ call.package.browser) =>
     \A f \in Range(SourceFiles(call.package)) : f.path = call.package.entry => f.path \in answer

\* What a patch layer switches off, and no later layer switches on, is not loaded.
DisabledStaysOff ==
  (Answered("activation") /\ call.profile.readable) =>
     LET entries == FlattenSeq(Layers(call.profile, Unique(call.disk)))
         Last2(id, Said(_)) == SelectLastInSeq(entries, LAMBDA e : e.id = id /\ Said(e))
     IN \A id \in {e.id : e \in Range(entries)} \ {NotSaid} :
          LET named == Last2(id, LAMBDA e : e.name # NotSaid)
              said == Last2(id, LAMBDA e : e.disabled # NotSaid)
          IN (named # 0 /\ said # 0 /\ entries[said].disabled = "off")
             => entries[named].name \notin answer.names \ {Launcher}

\* A package the lock resolved from a file or a link is listed under the version
\* the lock states, in whichever sections it stands, and under nothing else.
LockListedOnce ==
  Answered("lock") =>
     \A e \in Range(call.lock.packages) :
        (e.slot \in Protocol /\ e.version # NotSaid
         /\ \A x \in Range(call.lock.packages) : (x.name = e.name /\ x.slot = e.slot) => x = e)
        => /\ \E p \in answer : p.name = e.name /\ p.version = e.version
           /\ ~\E p \in answer : p.name = e.name /\ p.version = e.slot

\* The derived index names the plugins the list shows for templates and
\* containers, each with a version some owner has.
IndexMatchesList ==
  Answered("plugins") =>
     LET derived == InstalledPluginVersions(call.owners)
         shown == InstalledRows({}, call.owners)
     IN /\ {d.name : d \in derived} = {r.name : r \in shown}
        /\ \A d \in derived : \E r \in answer : r.name = d.name /\ d.version \in r.versions

\* The plugin graph says of every loaded plugin where its services come from,
\* stays within an application, and knows what is loaded.
GraphSound ==
  /\ RequirementsAccounted /\ LinksStayInContext /\ UnknownCountsAsLoaded
  /\ EntryIsClient /\ DisabledStaysOff

\* The lockfile and the owners' manifests give each installed plugin once, under
\* the same name and version wherever it is shown.
InstalledSound == LockListedOnce /\ IndexMatchesList

\* The derived index has the newest version.  It fails: see the README.
NewestWins ==
  Answered("plugins") =>
     \A d \in InstalledPluginVersions(call.owners), r \in InstalledRows({}, call.owners) :
        r.name = d.name => \A v \in r.versions : v = d.version \/ SortsLater(d.version, v)

Apart(a, b) == a.x + a.width <= b.x \/ b.x + b.width <= a.x \/ a.y + a.height <= b.y \/ b.y + b.height <= a.y
Box(p) == [x |-> p.x, y |-> p.y, width |-> Drawing!NODE_WIDTH, height |-> Drawing!NODE_HEIGHT]
\* Every plugin is drawn once and inside the canvas, no box covers another, and
\* the box around a depth covers no other depth unless depths share a band;
\* sorting never adds crossings.
BoxesApart ==
  Answered("layout") =>
     LET drawn == answer.drawn
     IN /\ {p.id : p \in drawn.nodes} = Range(call.nodes) /\ Cardinality(drawn.nodes) = Len(call.nodes)
        /\ \A p \in drawn.nodes : p.x \in 0 .. drawn.width - Box(p).width /\ p.y \in 0 .. drawn.height - Box(p).height
        /\ \A p, q \in drawn.nodes : p # q => Apart(Box(p), Box(q))
        /\ (\A b \in DOMAIN drawn.bands : Cardinality({drawn.layer[n] : n \in Range(drawn.bands[b])}) = 1)
             => \A d, e \in DOMAIN drawn.groups : d # e => Apart(drawn.groups[d], drawn.groups[e])
        /\ drawn.crossings <= drawn.before

\* An edge runs against the drawing only towards a plugin that a cycle leads to;
\* folding a depth of a graph without cycles makes none and turns no edge.
EdgesForward ==
  Answered("layout") =>
     /\ \A e \in answer.drawn.back :
          \E n \in Range(call.nodes) : n \in Drawing!Reached(call.edges, n) /\ e[2] \in Drawing!Reached(call.edges, n)
     /\ answer.drawn.cyclic = {} =>
          \A d \in DOMAIN answer.folded : answer.folded[d].cyclic = {} /\ answer.folded[d].back = {}

\* What hangs off a cycle is below it.  It fails: see the README.
ChainBelowCycle ==
  Answered("layout") =>
     \A e \in answer.drawn.back : e \in answer.drawn.cyclic \/ e[2] \in Drawing!Reached(call.edges, e[2])

\* The graph and its drawing, the installed plugins, and the plugins' load order with its cycles.
PluginsSound ==
  /\ GraphSound /\ InstalledSound /\ BoxesApart /\ EdgesForward
  /\ CyclesExact /\ DependenciesFirst /\ ClosedComplete

\* A file outside the directory of the browser entry is in the host half.  It
\* fails: see the README.
HostHalfKept ==
  (Answered("halves") /\ call.package.browser) =>
     \A f \in answer : f # <<"src", "index.ts">>
-----------------------------------------------------------------------------
(* process/env.rs *)

\* The locale a program of the child resolves.
Locale(env) ==
  IF "LC_ALL" \in DOMAIN env THEN env.LC_ALL ELSE IF "LC_CTYPE" \in DOMAIN env THEN env.LC_CTYPE
  ELSE IF "LANG" \in DOMAIN env THEN env.LANG ELSE "C"

\* What the daemon was started with, a proxy or an agent's variables, does not
\* reach a container's host unless the container declares it.
HostIsClean ==
  (Answered("env") /\ call.kind = "host") =>
     \A k \in DOMAIN answer.env \cap (Proxies \cup {"CODEX_SESSION", "npm_config_registry", "SHELL"}) :
        k \in DOMAIN call.declared

\* A real UTF-8 LANG of the user's is what the host's shell uses, and a locale
\* that is the only one there is stays.
HostReadsUtf8 ==
  (Answered("env") /\ call.kind = "host" /\ "LANG" \notin DOMAIN call.declared) =>
     IF Holds(call.parent, "LANG", locale_names_utf8)
     THEN ~locale_is_c_family(Locale(answer.env)) ELSE Locale(answer.env) = Locale(call.parent)

\* Box's own values win over what is declared and what is inherited, and its
\* directories come first on the path; a protected value is overridden by nobody.
BoxValuesWin ==
  (Answered("env") /\ answer.ok) =>
     /\ call.kind = "host" => answer.env.DSH_HOME = "box"
     /\ call.kind = "tool" => answer.env.PNPM_CONFIG_STORE_DIR = "box"
     /\ IsPrefix(<<"node", "pnpm">>, answer.env.PATH)
     /\ "DSHBOX_HOME" \in DOMAIN answer.env =>
          "DSHBOX_HOME" \in DOMAIN call.parent /\ answer.env.DSHBOX_HOME = call.parent.DSHBOX_HOME

\* An installation sees nothing of the user's node, npm or git set-up, and the
\* user's proxies exactly when it is asked to.
InstallIsHermetic ==
  (Answered("env") /\ call.kind = "pnpm" /\ answer.ok) =>
     /\ DOMAIN answer.env \cap Proxies = IF call.proxy THEN DOMAIN call.parent \cap Proxies ELSE {}
     /\ "NODE_PATH" \notin DOMAIN answer.env /\ DOMAIN answer.env \cap ApiKeys = {}
     /\ answer.env.HOME = "box" /\ answer.env.npm_config_registry = "box" /\ answer.env.GIT_CONFIG_GLOBAL = "box"
     /\ "sys" \notin Range(answer.env.PATH)

\* The tests apply the policies through a copy of the code; what it says is
\* what the child gets, but for a declared PATH.
TestsSeeTheChild ==
  (Answered("env") /\ answer.ok /\ ~(call.kind = "host" /\ "PATH" \in DOMAIN call.declared)) =>
     ApplyToMap(PolicyOf(call), call.parent) = answer.env

\* The environment of a child is what its policy promises.
EnvironmentSound ==
  HostIsClean /\ HostReadsUtf8 /\ BoxValuesWin /\ InstallIsHermetic /\ TestsSeeTheChild

\* A declared value replaces what was inherited.  It fails for PATH: see the README.
DeclaredArrives ==
  (Answered("env") /\ call.kind = "host") =>
     \A k \in DOMAIN call.declared \ {"DSH_HOME"} : answer.env[k] = call.declared[k]
\* Hosts own their NODE_PATH.  It fails: see the README.
HostOwnsNodePath == (Answered("env") /\ call.kind = "host") => answer.env.NODE_PATH = "box"
\* The locale of a declared LANG.  It fails: see the README.
DeclaredLocaleReads ==
  (Answered("env") /\ call.kind = "host" /\ "LANG" \in DOMAIN call.declared) =>
     ~locale_is_c_family(Locale(answer.env))
-----------------------------------------------------------------------------
(* box-resources *)

\* Every step of the section finds what it expects: an item goes into a list.
RECURSIVE Fits(_, _)
Fits(doc, section) ==
  \/ doc = Kinds!Absent \/ section = <<>>
  \/ IF Head(section).layer
     THEN doc.t = "list" /\ Fits(Kinds!section_value(doc, <<Head(section)>>), Tail(section))
     ELSE doc.t = "map" /\ Fits(Kinds!Get(doc, Head(section).name), Tail(section))

\* A value written over a section, or where there was none, is what the section
\* then holds; everything else of the document stays, whatever the policy.
SectionArrives ==
  (Answered("section") /\ answer.ok /\ Fits(call.doc, call.section)) =>
     LET was == IF call.doc = Kinds!Absent THEN call.doc ELSE Kinds!section_value(call.doc, call.section)
     IN /\ (call.conflict = "overwrite" \/ was = Kinds!Absent) =>
             Kinds!section_value(answer.doc, call.section) = call.incoming
        /\ was # Kinds!Absent =>
             Kinds!remove_section(answer.doc, call.section) = Kinds!remove_section(call.doc, call.section)

\* What was written is there: written again with "refuse" it is refused, and
\* what is refused changes nothing.
RefusedTwice ==
  Answered("section") =>
     /\ ~answer.ok => answer.doc = call.doc
     /\ (answer.ok /\ Fits(call.doc, call.section)) =>
          ~Kinds!write_section(answer.doc, call.section, call.incoming, "refuse").ok

\* The entries of the payload arrive, whole; the others stay, but for what is
\* overwritten.
EntriesArrive ==
  (Answered("entries") /\ answer.ok) =>
     /\ \A k \in DOMAIN call.payload : answer.dest[call.payload[k].path] = call.payload[k].data
     /\ call.conflict = "overwrite" => DOMAIN answer.dest = {e.path : e \in Range(call.payload)}
     /\ call.conflict # "overwrite" =>
          \A e \in DOMAIN call.dest :
             (\A k \in DOMAIN call.payload : ~IsPrefix(call.payload[k].path, e)) =>
                e \in DOMAIN answer.dest /\ answer.dest[e] = call.dest[e]
     /\ call.conflict = "refuse" => \A e \in DOMAIN call.dest : answer.dest[e] = call.dest[e]

\* Credentials put over those of another container, or into one without, are
\* what that container's own version then reads, wherever it keeps them.
CarriedIsRead ==
  (Answered("carry") /\ answer.ok) =>
     LET own == Kinds!PartsFor(call.target)
         before == Kinds!Extracted(call.target, own)
         after == Kinds!Extracted([call.target EXCEPT !.files = answer.files], own)
         empty == \A k \in DOMAIN own : before.values[k] = Kinds!Absent
     IN (call.conflict = "overwrite" \/ empty) =>
           after.ok /\ after.values = Kinds!Extracted(call.source, Kinds!PartsFor(call.source)).values

\* A package cannot take over a built-in kind: its own name for it needs its path.
BuiltinStays ==
  (Answered("kind") /\ answer.ok) =>
     \A b \in Range(Kinds!Builtin) :
        (call.id = b.id /\ call.dest \in {Kinds!NoSlot, b.path}) => answer.kind = b

\* A copy put into a container is there, and takes nothing else with it.
CarryingSound == SectionArrives /\ RefusedTwice /\ EntriesArrive /\ CarriedIsRead /\ BuiltinStays

\* What is refused leaves the container as it was.  It fails: see the README.
RefuseIsAtomic ==
  (Answered("carry") /\ ~answer.ok /\ call.conflict = "refuse") => answer.files = call.target.files
\* Merging the same value twice is merging it once.  It fails: see the README.
MergeIsOnce ==
  (Answered("section") /\ answer.ok /\ call.conflict = "merge") =>
     Kinds!write_section(answer.doc, call.section, call.incoming, "merge").doc = answer.doc
\* Straight from the container and by way of a copy the same arrives.  It fails:
\* see the README.
FromMovesTogether ==
  (Answered("carry") /\ answer.ok) =>
     answer = Kinds!CarriedDirectly(call.source, call.target, call.conflict)
-----------------------------------------------------------------------------
(* box-containers/src/resolve.rs, dispatch.rs *)

\* A store as Box makes it: every directory has the name of its container.
Proper(store) == \A i \in DOMAIN store : store[i].id \in {store[i].dir, NotSaid} /\ store[i].versioned

\* The daemon, which looks at one directory first, and a client that has listed
\* all containers mean the same one; an id always means its own container,
\* whatever the others are called; and a name that two have means none.
ReferencesAgree ==
  (Answered("resolve") /\ Proper(call.store)) =>
     LET ids == {c.id : c \in Wants!scan_containers(call.store)}
         named == {c \in Wants!scan_containers(call.store) : c.name = call.raw}
         Meant(id) == id = call.raw \/ IsPrefix(<<"container">> \o call.raw, id)
     IN /\ answer[1] = answer[2]
        /\ call.raw \in ids => answer[1] = Wants!Found(call.raw, call.raw)
        /\ (Cardinality(named) > 1 /\ ~\E id \in ids : Meant(id)) => ~answer[1].ok

\* Two tasks that open the same container, or of which one changes what the
\* other changes or reads, have a key in common, however the callers spelled the
\* container; but for a plugin added by its spec, whose key names no container,
\* an installed bundle, which reads the repository without its key, and a build,
\* which reads the bases without theirs.
TasksSerialised ==
  (Answered("requests") /\ Proper(call.store) /\ answer[1].ok /\ answer[2].ok) =>
     LET a == answer[1]  b == answer[2]
         how == {call.pair[k].method : k \in 1 .. 2}
         same == a.home = b.home /\ \E i \in DOMAIN call.store : call.store[i].dir = a.home
         one == {a.changes \cap (b.changes \cup b.reads), b.changes \cap a.reads}
     IN /\ (same /\ "plugin_add" \notin how) => a.keys \cap b.keys # {}
        /\ (one # {{}} /\ "bundle_install" \notin how /\ how # {"build", "pull"}) => a.keys \cap b.keys # {}
        /\ (a.home # b.home /\ NotSaid \notin {a.home, b.home} /\ "plugin_add" \notin how)
           => a.keys \cap b.keys \subseteq {Wants!Extensions}
RequestsSound == ReferencesAgree /\ TasksSerialised

\* ... also when a directory was copied by hand.  It fails: see the README.
CopiesAgree == Answered("resolve") => answer[1] = answer[2]
-----------------------------------------------------------------------------
(* box-image: the build script *)

Words(t) == SelectSeq(t, LAMBDA x : x \notin Script!Separators)
Said(t) == IF IsPrefix(<<"npm", ":">>, t) \/ IsPrefix(<<"git", ":">>, t) THEN SubSeq(t, 3, Len(t)) ELSE t

\* What pnpm is asked for has every name and pin of the source as it was written,
\* in that order, and ends with them.
SpecAsWritten ==
  (Answered("source") /\ answer.spec # NotSaid) => IsSuffix(Words(Said(call.token)), Words(answer.spec))

\* A pointer an import records stands for the package a build installs.
ImportMatchesBuild ==
  (Answered("source") /\ answer.imported.ok) => answer.imported.spec = answer.spec

\* A pull and a FROM that both take a reference mean the same commit of the same
\* repository.
PullMatchesFrom ==
  (Answered("source") /\ answer.pulled.ok /\ answer.from.base = NotSaid) =>
     /\ answer.pulled.url = answer.from.url
     /\ answer.pulled.version = (IF answer.from.ref = NotSaid THEN <<"latest">> ELSE answer.from.ref)

\* What is shown of a source that is not left open reads back as that source.
ShownReadsBack ==
  (Answered("source") /\ call.token[Len(call.token)] \notin Script!Separators
   /\ answer.parsed.type \in {"bare", "git", "npm", "passthrough"}) =>
     Script!parse_source_token(answer.shown, Base) = answer.parsed

\* Lines of different directives may change places: the build is the same.
OrderIrrelevant ==
  (Answered("script") /\ call.lines[call.at].key # call.lines[call.at + 1].key) => answer.plan = answer.swapped

\* Everything a script adds has a place, below the one of its kind, and only
\* data is copied.
DestinationsResolve ==
  (Answered("script") /\ answer.manifest # NotSaid) =>
     \A i \in 2 .. Len(answer.manifest.adds) :
        LET add == answer.manifest.adds[i]
        IN /\ IsPrefix(answer.manifest.defs[<<add.kind>>], add.dest)
           /\ add.data <=> add.kind = "data"

\* An archive that can be read has every file of every blob but those below a
\* directory that is left out.
ArchiveWhole ==
  (Answered("archive") /\ answer.ok) =>
     \A d \in DOMAIN call.blobs : \A p \in call.blobs[d] :
        (<<"blobs", Safe(d), "source">> \o p) \in answer.files
        \/ \E i \in DOMAIN p : p[i] \in Noise

\* A source means the same wherever it is written, and a script builds what it says.
BoxfilesSound ==
  /\ SpecAsWritten /\ ImportMatchesBuild /\ PullMatchesFrom /\ ShownReadsBack
  /\ OrderIrrelevant /\ DestinationsResolve /\ ArchiveWhole

\* The ref of a repository is given to pnpm as one.  It fails: see the README.
RefIsRef ==
  (Answered("source") /\ answer.parsed.type \in {"git", "github"} /\ Script!is_github_short(Said(call.token))) =>
     answer.spec = Script!pnpm_plugin_spec(Script!parse_source_token(Said(call.token), Base))

\* An import and a build take the same sources.  It fails: see the README.
SameSources == Answered("source") => (answer.imported.ok <=> answer.spec # NotSaid)

\* Different packages of a script are different blobs.  It fails: see the README.
BlobsApart ==
  (Answered("script") /\ answer.manifest # NotSaid /\ answer.plan.ok) =>
     \A i, j \in DOMAIN answer.plan.specs :
        answer.plan.specs[i] # answer.plan.specs[j] => answer.manifest.adds[i + 1].digest # answer.manifest.adds[j + 1].digest

\* A script has one FROM.  It fails: see the README.
OneFrom ==
  (Answered("script") /\ answer.plan.ok) => Cardinality({i \in DOMAIN call.lines : call.lines[i].key = "FROM"}) = 1
-----------------------------------------------------------------------------
(* box-dsh-versions, box-updates: release names *)

\* Semver precedence as one key: the numbers, then the identifiers, where text
\* stands above numbers, nothing below both, and no pre-release above all.
Semver(name) ==
  LET Weight(k) == IF name.pre = <<>> THEN 1000
                   ELSE IF k > Len(name.pre) THEN -1
                   ELSE IF name.pre[k].text THEN 100 + name.pre[k].v ELSE name.pre[k].v
  IN [k \in 1 .. 6 |-> IF k > 3 THEN Weight(k - 3) ELSE IF k > Len(name.nums) THEN 0 ELSE name.nums[k]]
Precedes(a, b) ==
  \E k \in 1 .. 6 : Semver(a)[k] < Semver(b)[k] /\ \A j \in 1 .. k - 1 : Semver(a)[j] = Semver(b)[j]
Readable(name) ==
  /\ Len(name.nums) \in 1 .. 3 /\ \A i \in DOMAIN name.nums : name.nums[i] >= 0
  /\ ~name.build /\ (name.dash <=> name.pre # <<>>) /\ \A i \in DOMAIN name.pre : name.pre[i] # Names!Text(0)

\* The catalogue begins with latest, has no release above a newer one, what it
\* cannot read last, each name once, and calls installed what is whole on disk.
CatalogueInOrder ==
  Answered("catalogue") =>
     LET shown == answer.shown
     IN /\ shown[1].name = Names!Latest
        /\ \A i, j \in DOMAIN shown : i < j =>
             /\ shown[i].name # shown[j].name
             /\ (Readable(shown[i].name) /\ Readable(shown[j].name)) => ~Precedes(shown[i].name, shown[j].name)
             /\ shown[i].name.nums = <<>> /\ i > 1 => ~Readable(shown[j].name)
        /\ \A i \in DOMAIN shown :
             shown[i].installed <=> [version |-> shown[i].name, whole |-> TRUE] \in call.index

\* The updater and the catalogue agree on which of two releases is the newer,
\* and no two names are each newer than the other.
VersionsAgree ==
  Answered("compare") =>
     /\ ~(answer.newer /\ answer.older) /\ (answer.same => ~answer.newer /\ ~answer.older)
     /\ (Readable(call.a) /\ Readable(call.b) /\ {call.a.lead, call.b.lead} \subseteq {"", "v"}) =>
          /\ answer.newer <=> Precedes(call.b, call.a)
          /\ answer.same <=> Semver(call.a) = Semver(call.b)
          /\ answer.newer => answer.above

\* A release is offered with the installer this machine likes best of those it
\* has, and only to a build that is not older than its floor.
AssetFits ==
  (Answered("asset") /\ answer.read) =>
     /\ (answer.asset = NotSaid) <=> (call.offer.assets = <<>>)
     /\ \A k \in DOMAIN call.preferred :
          call.preferred[k] \in Range(call.offer.assets) =>
             \E j \in 1 .. k : answer.asset = call.preferred[j]
     /\ (call.offer.floor # NotSaid /\ answer.takes) => ~Precedes(call.current, call.offer.floor)

ReleasesSound == CatalogueInOrder /\ VersionsAgree /\ AssetFits

\* What the badge counts as installed is installed.  It fails: see the README.
BadgeAgrees ==
  Answered("catalogue") => answer.badge = {e.name : e \in {x \in Range(answer.shown) : x.installed}}

\* Names of any length are compared alike.  It fails: see the README.
LengthsAgree ==
  (Answered("compare") /\ answer.same /\ call.a.lead = call.b.lead) => Names!parse_release(call.a) = Names!parse_release(call.b)
-----------------------------------------------------------------------------
(* apply.rs, resources.rs: pinned types and apply documents *)

\* Applying a document again changes nothing, whatever the first time did.
ApplyIdempotent ==
  Answered("apply") => answer.twice.views = answer.once.views /\ answer.twice.copies = answer.once.copies

\* A dry run changes nothing and says of every entry whether it would be left
\* out; it is refused for what the document would be refused for.
DryRunTells ==
  Answered("apply") =>
     LET Left(run) == {i \in DOMAIN run.outcomes : run.outcomes[i].status = "exists"}
     IN /\ answer.shown.views = call.store.views /\ answer.shown.copies = call.store.copies
        /\ answer.shown.ok = answer.once.ok /\ Len(answer.shown.outcomes) = Len(answer.once.outcomes)
        /\ Left(answer.shown) = Left(answer.once)

\* A type that was pinned is listed for its container, at the path it was pinned at.
PinnedIsListed ==
  Answered("apply") =>
     \A id \in DOMAIN answer.once.views :
        [container |-> answer.once.views[id].container, path |-> answer.once.views[id].path] \in answer.tabs[id].rows

\* A type is pinned iff it was added after it was last removed, and on iff
\* nothing switched it off since it was last added.
LastEditHolds ==
  Answered("views") =>
     \A p \in {e.path : e \in Range(call.edits)} :
        LET Last1(Of(_)) == SelectLastInSeq(call.edits, LAMBDA e : e.path = p /\ Of(e))
            added == Last1(LAMBDA e : e.op = "add")
            id == Pinned!build_id("k", "c1", p)
            switched == SelectLastInSeq(call.edits, LAMBDA e : e.path = p /\ e.op = "enable")
        IN (\A e \in Range(call.edits) : e.path # p => Pinned!build_id("k", "c1", e.path) # id) =>
             /\ id \in DOMAIN answer <=> added > Last1(LAMBDA e : e.op = "remove")
             /\ id \in DOMAIN answer =>
                  (answer[id].enabled <=> switched < added \/ call.edits[switched].on)

DocumentsSound == ApplyIdempotent /\ DryRunTells /\ PinnedIsListed /\ LastEditHolds

\* A copy that was taken is reported as taken.  It fails: see the README.
TakenIsReported ==
  Answered("apply") =>
     Len(answer.once.copies) - Len(call.store.copies)
       = Len(SelectSeq(answer.once.outcomes, LAMBDA o : o.action = "copy" /\ o.status = "applied"))

\* A name is in the store once.  It fails: see the README.
NameOnce ==
  (Answered("apply") /\ call.store.copies = <<>>) =>
     \A i, j \in DOMAIN answer.once.copies : answer.once.copies[i].name = answer.once.copies[j].name => i = j

\* A document that is refused was not begun.  It fails: see the README.
RefusedIsUntouched ==
  (Answered("apply") /\ ~answer.once.ok) =>
     answer.once.views = call.store.views /\ answer.once.copies = call.store.copies

\* Every type of a document is pinned.  It fails: see the README.
EveryTypePinned ==
  (Answered("apply") /\ answer.once.ok) =>
     \A i \in DOMAIN call.doc.types :
        answer.once.outcomes[i].status = "applied" =>
          \E id \in DOMAIN answer.once.views :
             answer.once.views[id].path \in {call.doc.types[i].path, Slot["k"]} /\ answer.once.views[id].kind = call.doc.types[i].kind
             /\ (call.doc.types[i].path # NotSaid => answer.once.views[id].path = call.doc.types[i].path)
-----------------------------------------------------------------------------
\* What a caller names is what is acted on: a control of a page, a container, a
\* release, a source of a build script.
NamesSound == PagesSound /\ RequestsSound /\ ReleasesSound /\ BoxfilesSound

\* What a process or a container is given is what it was promised: an
\* environment, a copy of a resource, a document's pinned types.
GivenSound == EnvironmentSound /\ CarryingSound /\ DocumentsSound
=============================================================================
