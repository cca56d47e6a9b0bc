--------------------------- MODULE MCParts ---------------------------
(***************************************************************************)
(* One instance of everything small: a behaviour is one computation, or    *)
(* one of the parts.  The inputs of the computations and the requests of   *)
(* the parts are enumerated over small sets.                               *)
(***************************************************************************)
EXTENDS Parts, Calculations

NotCalled == call = [of |-> NoAnswer] /\ answer = NoAnswer /\ OrderStart([n \in Node |-> {}])
WholeInit ==
  /\ part \in Part \cup {"calc"}
  /\ PartsStart
  /\ IF part = "calc" THEN Init ELSE NotCalled
WholeNext ==
  \/ PartsNext /\ UNCHANGED vars
  \/ part = "calc" /\ Next /\ UNCHANGED partsVars
WholeSpec == WholeInit /\ [][WholeNext]_<<partsVars, vars>>

PageNode(role, name, ignored, disabled, placed) ==
  [parent |-> 0, role |-> role, name |-> name, valued |-> FALSE,
   ignored |-> ignored, disabled |-> disabled, placed |-> placed]
PageNodes ==
  {PageNode("button", "save", FALSE, FALSE, TRUE), PageNode("button", "save", FALSE, TRUE, TRUE),
   PageNode("button", "open", FALSE, FALSE, FALSE), PageNode("StaticText", "save", FALSE, FALSE, TRUE),
   PageNode("StaticText", "open", TRUE, FALSE, TRUE), PageNode("generic", NoName, FALSE, FALSE, TRUE),
   PageNode("group", "open", FALSE, FALSE, TRUE),
   [PageNode("textbox", NoName, FALSE, FALSE, TRUE) EXCEPT !.valued = TRUE]}
Root == PageNode("RootWebArea", NoName, FALSE, FALSE, TRUE)
Trees ==
  {<<Root, [a EXCEPT !.parent = 1], [b EXCEPT !.parent = p], [c EXCEPT !.parent = q]>> :
     a \in PageNodes, b \in PageNodes, c \in PageNodes, p \in 1 .. 2, q \in 1 .. 3}

Listings ==
  [of : {"page_text"}, tree : Trees, limit : {2, 3}, role : {NoName}, within : {NoName, "open"}]
  \cup [of : {"page_text"}, tree : Trees, limit : {1}, role : {"button"}, within : {NoName}]
Presses ==
  [of : {"locate"}, tree : Trees, name : {"save"}, role : {NoName}, nth : {NoName, 1},
   within : {NoName, "open"}, inDom : {FALSE}]
  \cup [of : {"locate"}, tree : Trees, name : {"open"}, role : {NoName, "group"}, nth : {NoName},
        within : {NoName}, inDom : {TRUE}]
Alike(a, b) == a = "save" /\ b = "open"

Event == [level : {"log", "error"}, text : {"a", "b"}]
Reads == [of : {"console"}, events : SeqOf(Event, 4), levels : SUBSET {"log", "error"}, limit : {1, 4}]
Prunes == [of : {"prune"}, files : SeqOf(1 .. 3, 4), keep : 0 .. 3]

\* Services a, a.b and c; two packages with both halves, a third with one.
Scans ==
  {Silent, [Silent EXCEPT !.provides = {<<"a">>}], [Silent EXCEPT !.requires = {<<"a", "b">>}],
   [Silent EXCEPT !.provides = {<<"c">>}, !.requires = {<<"a">>}], [Silent EXCEPT !.requires = {<<"c">>}],
   [Silent EXCEPT !.provides = {<<"a">>}, !.requires = {<<"a">>, <<"c">>}]}
PackageOf(n, deps, patch, host, client) ==
  [name |-> n, deps |-> deps, patch |-> patch, browser |-> TRUE, entry |-> <<"src", "client", "index.ts">>,
   files |-> <<[path |-> <<"src", "index.ts">>, scan |-> host],
               [path |-> <<"src", "client", "index.ts">>, scan |-> client]>>]
Disk(harness, modules) ==
  [harness |-> harness, vendor |-> <<>>, modules |-> modules, repository |-> <<>>,
   launcher |-> <<[PackageOf(Launcher, {}, NoLayer, [Silent EXCEPT !.provides = {<<"c">>}], Silent)
                     EXCEPT !.browser = FALSE]>>]
Profile(readable, bundles, patch) == [readable |-> readable, bundles |-> bundles, patch |-> patch]

Graphs ==
  [of : {"graph"},
   disk : {Disk(<<PackageOf("p", {"q"}, <<>>, a, b)>>, <<PackageOf("q", {}, NoLayer, c, d), PackageOf("p", {}, <<>>, d, d)>>) :
             a \in Scans, b \in Scans, c \in Scans, d \in Scans},
   profile : {Profile(FALSE, <<>>, NoLayer), Profile(TRUE, <<>>, NoLayer),
              Profile(TRUE, <<"p">>, NoLayer),
              Profile(TRUE, <<"p">>, <<[id |-> "r", name |-> "q", disabled |-> "off"]>>)}]

Row == [id : {"r"}, name : {"p", "q", NotSaid}, disabled : {"on", "off", NotSaid}]
  \cup [id : {NotSaid, "s"}, name : {"p"}, disabled : {"off"}]
Activations ==
  [of : {"activation"},
   disk : {Disk(<<PackageOf("p", {"q"}, l, Silent, Silent)>>, <<PackageOf("q", {}, m, Silent, Silent)>>) :
             l \in SeqOf(Row, 2) \cup {NoLayer}, m \in SeqOf(Row, 1)},
   profile : {Profile(TRUE, <<"p", "q">>, NoLayer), Profile(TRUE, <<"q", "p">>, <<[id |-> "r", name |-> NotSaid, disabled |-> "on"]>>)}]

Paths == {<<"src", "index.ts">>, <<"src", "client", "index.ts">>, <<"src", "client.ts">>,
          <<"lib", "index.js">>, <<"lib", "client.js">>, <<"lib", "client", "chunk.js">>}
StemOf == [n \in {p[Len(p)] : p \in Paths} |->
             IF n \in {"client.ts", "client.js"} THEN "client"
             ELSE IF n = "chunk.js" THEN "chunk" ELSE "index"]
\* A package keeps its sources or only its build output.
Layouts == {SetToSeq({[path |-> p, scan |-> Silent] : p \in paths}) :
              paths \in SUBSET {p \in Paths : p[1] = "src"} \cup SUBSET {p \in Paths : p[1] = "lib"}}
Halves ==
  [of : {"halves"},
   package : [name : {"p"}, deps : {{}}, patch : {NoLayer}, browser : BOOLEAN,
              entry : {<<>>, <<"src", "client.ts">>, <<"src", "client", "index.ts">>, <<"lib", "client.js">>},
              files : Layouts \ {<<>>}]]

Entry == [name : {"x"}, slot : {"1", "file"}, version : {NotSaid, "2"}, peer : {TRUE}, edges : {{}}]
  \cup [name : {"y"}, slot : {"1"}, version : {NotSaid}, peer : BOOLEAN, edges : {{<<"x", "1">>}}]
Asked == {[name |-> "x", version |-> "file", specifier |-> "file"], [name |-> "z", version |-> "1", specifier |-> "1"]}
Locks ==
  [of : {"lock"},
   lock : [direct : SUBSET Asked, packages : SeqOf(Entry, 2),
           snapshots : SeqOf({e \in Entry : e.version = NotSaid}, 2)]]

Installed(n, v, plugin) ==
  [name |-> n, version |-> v, direct |-> FALSE, specifier |-> NotSaid, plugin |-> plugin, edges |-> {}]
Owner == [kind : {"template"}, built : BOOLEAN,
          locked : {{Installed("x", "1", TRUE)}, {Installed("x", "2", TRUE), Installed("y", "1", FALSE)}}]
  \cup [kind : {"container"}, built : {TRUE},
        locked : {{Installed("x", "1", TRUE), Installed("x", "2", TRUE)}, {Installed("y", "1", TRUE)}}]
Plugins ==
  [of : {"plugins"},
   owners : {o \in SeqOf(Owner, 3) : \A i, j \in DOMAIN o : i < j => ~(o[i].kind = "container" /\ o[j].kind = "template")},
   repository : {{}, {[name |-> "x", version |-> "1"], [name |-> "w", version |-> NotSaid]}}]
Later(v, w) == v = "2" /\ w = "1"

TemplateGraphs ==
  [of : {"template_graph"}, disk : {Disk(<<PackageOf("p", {}, <<>>, s, Silent)>>, <<>>) : s \in Scans},
   profile : {Profile(FALSE, <<>>, NoLayer)}, recipes : {<<>>, <<"p", "x">>},
   locked : {{}, {Installed("y", "1", TRUE), Installed("z", "1", FALSE)}}]

Orders == [of : {"order"}, links : Loopless]

Locales == {"C.UTF-8", "zh.UTF-8"}
AmbientLocales == UNION {[keys -> Locales] : keys \in SUBSET {"LANG", "LC_ALL", "LC_CTYPE"}}
Ambient == [HOME |-> "user", PATH |-> <<"sys">>, HTTPS_PROXY |-> "user", CODEX_SESSION |-> "user",
            OPENAI_API_KEY |-> "user", NODE_PATH |-> "user", npm_config_registry |-> "user",
            SHELL |-> "user", DSH_HOME |-> "user", DSHBOX_HOME |-> "user"]
Environments ==
  LET parents == {Set(l, rest) : l \in AmbientLocales, rest \in {Empty, Ambient}}
      overrides == {Empty, [DSHBOX_HOME |-> "task", PNPM_CONFIG_STORE_DIR |-> "task"]}
  IN [of : {"env"}, kind : {"host"}, parent : parents, overrides : {Empty},
      declared : {Empty, [DSH_HOME |-> "c", HTTPS_PROXY |-> "c"], [PATH |-> <<"c">>],
                  [LANG |-> "zh.UTF-8", NODE_PATH |-> "c"]}]
     \cup [of : {"env"}, kind : {"pnpm"}, parent : parents, overrides : overrides,
           git : {"bundled", "system", "none"}, proxy : BOOLEAN, install : {<<"box">>}]
     \cup [of : {"env"}, kind : {"tool"}, parent : parents, overrides : overrides,
           git : {"bundled", "none"}, host : BOOLEAN, registry : BOOLEAN, install : {<<>>}]

\* TemplateStore: what tasks and connections ask for.
Archives == {[name |-> "m", ref |-> "r", recipe |-> "x", platform |-> "there"]}
StoreRequests ==
  [op : {"pull", "uninstall"}, ref : Ref]
  \cup [op : {"build"}, name : {"m"}, ref : Ref, recipe : Recipe]
  \cup [op : {"create"}, template : {"m"} \cup Ref, id : Instance]
  \cup [op : {"remove"}, name : {"m"}]
  \cup [op : {"import"}, name : Name, archive : Archives]

\* Resources: documents of maps, lists and scalars, and what is put into them.
Put(x) == Kinds!Scalar(x)
MapOf(f) == Kinds!Map(f)
Values == {Put("a"), MapOf([x |-> Put("a")]), MapOf([x |-> Put("b"), y |-> Put("a")]), Kinds!List(<<Put("a")>>)}
Items == {MapOf([id |-> Put("i"), name |-> Put("n"), config |-> v]) : v \in Values}
  \cup {MapOf([id |-> Put("i")]), MapOf([id |-> Put("j"), config |-> Put("a")]), Put("a")}
Documents ==
  {Kinds!Absent, Kinds!EmptyMap} \cup Values \cup {MapOf([k |-> v]) : v \in Values}
  \cup {MapOf([k |-> v, o |-> w]) : v \in Values, w \in {Put("a"), MapOf([x |-> Put("a")])}}
  \cup {Kinds!List(l) : l \in SeqOf(Items, 2)}
Sections ==
  {<<Kinds!Key("k")>>, <<Kinds!Key("k"), Kinds!Key("x")>>, <<Kinds!Layer("i")>>, <<Kinds!Layer("i"), Kinds!Key("x")>>,
   <<Kinds!Layer("j")>>}
Policies == {"refuse", "merge", "overwrite"}
Writes == [of : {"section"}, doc : Documents, section : Sections, incoming : Values, conflict : Policies]

EntryPaths == {<<"a">>, <<"a", "x">>, <<"b", "y">>}
Payloads == {<<[path |-> <<"a">>, data |-> "new"]>>, <<[path |-> <<"a", "x">>, data |-> "new"]>>,
             <<[path |-> <<"a", "x">>, data |-> "new"], [path |-> <<"b", "y">>, data |-> "new"]>>}
Injections ==
  [of : {"entries"}, payload : Payloads, conflict : Policies,
   dest : UNION {[paths -> {"old"}] : paths \in {p \in SUBSET EntryPaths : p \cap {<<"a">>, <<"a", "x">>} # {<<"a">>, <<"a", "x">>}}}]

Routes == {Put("a"), Put("b")}
Patches == {Kinds!Absent, Kinds!List(<<>>)} \cup {Kinds!List(<<MapOf([id |-> Put("llm-pi-ai"), config |-> r])>>) : r \in Routes}
Settings == {Kinds!Absent, MapOf([o |-> Put("a")])} \cup {MapOf([k \in {"llm-pi-ai"} |-> r]) : r \in Routes}
Homes ==
  {[profile |-> p, version |-> v,
    files |-> (<<"credentials">> :> c) @@ (<<"settings">> :> s) @@ (<<"profiles", p, "patch">> :> l)] :
      p \in {"web", "cli"}, v \in {6, 7}, c \in {Kinds!Absent, Put("a")}, s \in Settings, l \in Patches}
Carries == [of : {"carry"}, source : {h \in Homes : h.profile = "web"}, target : Homes, conflict : Policies]

Claims == [id : {"credentials", "own"}, path : {"credentials", "own"}, secret : BOOLEAN]
KindLooks ==
  [of : {"kind"}, declared : SeqOf(Claims, 2), id : {"credentials", "own", "other"},
   dest : {Kinds!NoSlot, "credentials", "own"}]

\* Containers 1 and 2, one of a template (1-9), and names that look like ids.
Names2 == {<<"web">>, <<"my web">>, <<"1">>, <<"container", "2">>, NotSaid}
Ids == {<<"container", "1">>, <<"container", "2">>, <<"container", "1", "9">>}
Instances(dir, id, name, versioned) == [dir |-> dir, id |-> id, name |-> name, versioned |-> versioned]
Stores ==
  {<<Instances(d, d, n, TRUE), Instances(e, e, m, TRUE), Instances(f, f, m, TRUE)>> :
     d \in {<<"container", "1">>}, e \in Ids \ {<<"container", "1">>}, f \in {<<"container", "1", "8">>, <<"tmp">>},
     n \in Names2, m \in Names2}
  \cup {<<Instances(<<"container", "1">>, NotSaid, n, TRUE), Instances(<<"container", "2">>, i, n, v)>> :
          n \in Names2, i \in Ids, v \in BOOLEAN}
Raws == Ids \cup {<<>>, <<"1">>, <<"2">>, <<"1", "9">>, <<"web">>, <<"my web">>, <<"..">>}
Resolves == [of : {"resolve"}, store : Stores, raw : Raws]
Asks(method, raws, refs, paths) == [method : {method}, raw : raws, ref : refs, path : paths]
Spelled == {<<>>, <<"container", "1">>, <<"1">>, <<"web">>, <<"my web">>}
RequestsAsked ==
  UNION {Asks(m, {<<>>}, {<<>>, <<"v1">>}, {<<>>, <<"src">>}) :
           m \in {"build", "catalog", "pull", "purge", "import", "export", "bundle_export", "bundle_import", "run"}}
  \cup UNION {Asks(m, Spelled, {<<"v1">>}, {<<"src">>}) :
           m \in {"start", "stop", "rebuild", "restart", "workspace", "inject", "add", "copy", "plugin_add",
                  "plugin_export", "bundle_install"}}
  \cup Asks("workspace_import", {<<"1">>}, {<<>>}, {<<>>, <<"src">>, <<"..", "src">>})
RequestPairs ==
  [of : {"requests"},
   store : {<<Instances(<<"container", "1">>, <<"container", "1">>, <<"web">>, TRUE),
              Instances(<<"container", "2">>, <<"container", "2">>, <<"my web">>, TRUE)>>},
   pair : [1 .. 2 -> RequestsAsked]]

\* Drawings: all graphs of three plugins, cross-overs between two depths, a chain
\* of more depths than bands, and a depth larger than a band.
EdgeList(S) == SelectSeq([k \in 1 .. 64 |-> [from |-> 1 + (k - 1) \div 8, to |-> 1 + ((k - 1) % 8)]], LAMBDA e : e \in S)
Edge(from, to) == [from |-> from, to |-> to]
Ladder == {Edge(4, 7), Edge(5, 8), Edge(6, 7)}
Crossing == {S \cup Ladder : S \in {T \in SUBSET {Edge(i, j) : i \in 1 .. 3, j \in 4 .. 6} : Cardinality(T) = 5}}
Drawings(n, edges, seeded) ==
  [of : {"layout"}, nodes : {[k \in 1 .. n |-> k]}, edges : edges, seeded : seeded,
   weight : {[k \in 1 .. n |-> IF k = 3 THEN 2 ELSE 1]}, order : {<<4, 2>>}]
LayoutCalls ==
  Drawings(3, {EdgeList(S) : S \in SUBSET {Edge(i, j) : i \in 1 .. 3, j \in 1 .. 3}}, {TRUE})
  \cup Drawings(8, {EdgeList(S) : S \in Crossing}, {TRUE})
  \cup Drawings(17, {[k \in 1 .. 16 |-> Edge(k, k + 1)]}, {FALSE})
  \cup Drawings(21, {[k \in 1 .. 20 |-> Edge(1, k + 1)]}, {FALSE})

\* Sources: every way to begin one, a name, and a way to end it.
Begun ==
  {<<>>, <<"npm", ":">>, <<"git", ":">>, <<"git+", "https", ":", "/", "/">>, <<"https", ":", "/", "/">>,
   <<"file", ":", "/", "/">>, <<"/">>, <<".", "/">>, <<"workspace", ":">>, <<"github", ":">>,
   <<"github.com", "/", "o", "/">>, <<"git", ":", "github.com", "/", "o", "/">>, <<"evil.com", "/", "o", "/">>,
   <<"@", "s", "/">>, <<"npm", ":", "@", "s", "/">>, <<"al", "@", "npm", ":">>, <<"@">>}
Ended ==
  {<<>>, <<"@", "1">>, <<":", "1">>, <<"@">>, <<":">>, <<":", "1", "@", "b">>, <<"@", "b", ":", "1">>,
   <<"@", "b", "/", "c">>, <<":", "^1">>, <<"@", "latest">>}
Tokens == {b \o <<n>> \o e : b \in Begun, n \in {"p", "a.tgz", "r.git"}, e \in Ended}
  \cup (Begun \ {<<>>})
Sources == [of : {"source"}, token : Tokens]

Line(key, args) == [key |-> key, args |-> args]
Harness(tag) == <<"github.com", "/", "o", "/", "dsh">> \o tag
Lines ==
  {Line("FROM", <<Harness(<<":", "v2">>)>>), Line("FROM", <<<<"web-base">>>>), Line("FROM", <<Harness(<<>>), <<"x">>>>),
   Line("PROFILE", <<<<"cli">>>>), Line("NAME", <<<<"n">>>>), Line("VERSION", <<>>),
   Line("LABEL", <<<<"dshbox.allow-build", "=", "a", ",", "b">>>>), Line("LABEL", <<<<"k">>>>),
   Line("ENV", <<<<"A", "=", "x">>>>), Line("ENV", <<<<"1", "=", "x">>>>),
   Line("DEF", <<<<"plugin">>, <<"@", "mine">>>>), Line("DEF", <<<<"data">>, <<"mine">>>>),
   Line("ADD", <<<<"plugin">>, <<"p", "@", "1">>>>), Line("ADD", <<<<"plugin">>, <<"p", "@", "2">>, <<"@", "there">>>>),
   Line("ADD", <<<<"plugin">>>>), Line("CP", <<Harness(<<"@", "v1">>)>>), Line("ADD", <<<<"data">>, <<".", "/", "a.tgz">>>>),
   Line("ADD", <<<<"skill">>, <<"@", "s", "/", "k">>>>), Line("ADD", <<<<"npm", ":">>>>), Line("EXEC", <<>>)}
Scripts ==
  [of : {"script"}, at : 1 .. 3,
   lines : {<<a, Line("FROM", <<Harness(<<":", "v1">>)>>), b, Line("PROFILE", <<<<"web">>>>)>> : a \in Lines, b \in Lines}]
Blob == SUBSET {<<"f">>, <<"d", "f">>, <<"dist", "f">>, <<"d", "node_modules", "f">>, <<"a:b">>}
ArchiveCalls ==
  [of : {"archive"}, suffix : {".tar.gz", ".tar"}, blobs : [{"x"} -> Blob] \cup [{"x", "y"} -> {{<<"f">>}, {<<"d", "f">>}}]]
CutSuffix(w) == IF w = "a.tgz" THEN "a" ELSE w
CutGit(w) == IF w = "r.git" THEN "r" ELSE w
Same(w) == w

\* Releases: numbers of one to four parts, pre-releases of text and of numbers.
Release1(lead, nums, pre) == [lead |-> lead, nums |-> nums, dash |-> pre # <<>>, pre |-> pre, build |-> FALSE]
Num(v) == [text |-> FALSE, v |-> v]
Word(v) == [text |-> TRUE, v |-> v]
Pres == {<<>>, <<Word(1), Num(2)>>, <<Word(1), Num(10)>>, <<Word(1)>>, <<Word(2)>>, <<Num(1)>>}
ReleaseNames ==
  {Release1("v", n, p) : n \in {<<1, 2>>, <<1, 2, 0>>, <<1, 10, 0>>}, p \in Pres}
  \cup {Release1("", <<1, 2, 0, 0>>, <<>>), Release1("v", <<1, 2, 0, 0>>, <<>>), Release1("v", <<1, -1>>, <<>>), Release1("main", <<>>, <<>>),
        Release1("", <<1, 2, 0>>, <<Word(0)>>), [Release1("", <<1, 2>>, <<>>) EXCEPT !.dash = TRUE],
        [Release1("", <<1, 2, 0>>, <<>>) EXCEPT !.build = TRUE], [Release1("v", <<1, 2, 0>>, <<Word(1)>>) EXCEPT !.build = TRUE],
        Release1("dsh-v", <<1, 2, 0>>, <<Word(1), Num(2)>>), Release1("latest", <<>>, <<>>)}
Comparisons == [of : {"compare"}, a : ReleaseNames, b : ReleaseNames]
Few == {Release1("dsh-v", <<1, 2>>, <<>>), Release1("dsh-v", <<1, 10>>, <<Word(1), Num(2)>>),
        Release1("dsh-v", <<1, 10>>, <<Word(1), Num(10)>>), Release1("dsh-v", <<1, 10>>, <<>>), Release1("main", <<>>, <<>>),
        Release1("latest", <<>>, <<>>), Release1("..", <<>>, <<>>)}
Catalogues ==
  {[of |-> "catalogue", index |-> [version : own, whole : {TRUE}] \cup [version : torn, whole : {FALSE}], remote |-> remote] :
     own \in {S \in SUBSET Few : Cardinality(S) <= 1}, torn \in {S \in SUBSET Few : Cardinality(S) <= 1},
     remote \in {S \in SUBSET Few : Cardinality(S) \in {2, 3}}}
Assets ==
  [of : {"asset"}, preferred : {<<"deb", "rpm">>, <<"msi">>}, current : {Release1("v", <<1, 2>>, p) : p \in Pres},
   offer : [schema : {1, 2}, assets : SeqOf({"deb", "rpm", "dmg"}, 2),
            floor : {NotSaid, Release1("", <<1, 2, 0>>, <<>>), Release1("", <<1, 2, 0>>, <<Word(1), Num(2)>>)}]]
\* The byte order of names, as far as it is told apart.
RankOf(n) == Len(n.nums) + 10 * Len(n.pre) + (IF n.dash THEN 1 ELSE 0) + (IF n.build THEN 100 ELSE 0) + (IF n.lead = "v" THEN 1000 ELSE 0)
Forbidden == {Release1("..", <<>>, <<>>)}
InBytes(a, b) == a # b /\ RankOf(a) <= RankOf(b)

\* Apply documents: kinds that extract, fail and are unknown, over two containers.
Slots == [k |-> "k/s", bad |-> "bad"]
Containers == [c1 |-> "c1", web |-> "c1", c2 |-> "c2"]
Fates == [k |-> "succeeded", bad |-> "rolled_back"]
Cleaned(p) == IF p = "a/b" THEN "a-b" ELSE p
TypeSpecs ==
  [kind : {"k"}, container : {NotSaid, "web"}, path : {NotSaid, "a/b", "a-b"}, label : {NotSaid}]
  \cup [kind : {"x"}, container : {NotSaid, "gone"}, path : {NotSaid}, label : {"l"}]
CopySpecs ==
  [name : {"n"}, kind : {"k", "bad"}, from : {NotSaid, "c2"}, container : {NotSaid}, path : {NotSaid}]
  \cup [name : {"n", "m"}, kind : {"x"}, from : {NotSaid}, container : {"gone", "c1"}, path : {NotSaid}]
Row1 == [kind |-> "k", container |-> "c1", path |-> "a-b", label |-> "old", enabled |-> FALSE, created |-> 0]
Applies ==
  [of : {"apply"},
   store : {[views |-> <<>>, copies |-> <<>>],
            [views |-> (<<"k", "c1", "a-b">> :> Row1), copies |-> <<[name |-> "m", kind |-> "k", of |-> "c2"]>>]},
   doc : [container : {NotSaid, "c1"}, types : SeqOf(TypeSpecs, 2), copies : SeqOf(CopySpecs, 2)]]
ViewEdits ==
  [of : {"views"},
   edits : UNION {[1 .. n -> [op : {"add"}, path : {NotSaid, "a/b"}, label : {NotSaid, "l"}] \cup [op : {"enable"}, path : {NotSaid, "a/b"}, on : BOOLEAN]
                             \cup [op : {"remove"}, path : {NotSaid}]] : n \in 1 .. 3}]

AllCalls ==
  Applies \cup ViewEdits \cup
  Comparisons \cup Catalogues \cup Assets \cup
  Sources \cup Scripts \cup ArchiveCalls \cup
  LayoutCalls \cup
  Resolves \cup RequestPairs \cup
  Writes \cup Injections \cup Carries \cup KindLooks \cup
  Environments \cup
  Listings \cup Presses \cup Reads \cup Prunes \cup
  Graphs \cup TemplateGraphs \cup Activations \cup Halves \cup Locks \cup Plugins \cup Orders
=============================================================================
