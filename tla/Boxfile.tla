------------------------------- MODULE Boxfile -------------------------------
(***************************************************************************)
(* A build script: its directives, the sources they name, and what becomes *)
(* of them, the specs pnpm gets, the pointer an import records, the image  *)
(* manifest and its archive.  A token is the sequence of its lexemes: the  *)
(* separators one by one, and the words between them.                      *)
(***************************************************************************)
EXTENDS SequencesExt

CONSTANTS
  NotSaid,
  ArchiveWord,  \* words that end in a tar suffix
  Digital,      \* words that begin with a digit
  OddWord,      \* words with characters no version or identifier has
  Noise,        \* directory names an archive leaves out
  Coloned,      \* file names with a colon
  DropGit(_), DropSuffix(_), DropArchive(_), Safe(_)

Separators == {"/", "@", ":", "=", ",", "#"}
Hosts == {"github.com", "gitlab.com", "bitbucket.org"}
After(t, i) == SubSeq(t, i + 1, Len(t))
Before(t, i) == SubSeq(t, 1, i - 1)
Find(t, s) == SelectInSeq(t, LAMBDA x : x = s)
FindLast(t, s) == SelectLastInSeq(t, LAMBDA x : x = s)
SplitOn(t, s) ==
  FoldLeft(LAMBDA acc, x : IF x = s THEN Append(acc, <<>>) ELSE [acc EXCEPT ![Len(acc)] = Append(@, x)], <<<<>>>>, t)
Includes(t, s) == \E i \in DOMAIN t : IsPrefix(s, SubSeq(t, i, Len(t)))
Last0(t) == SplitOn(t, "/")[Len(SplitOn(t, "/"))]
OrSaid(t) == IF t = <<>> THEN NotSaid ELSE t
Slashes == <<":", "/", "/">>
HttpsUrl(t) == <<"https">> \o Slashes \o t

is_github_short(t) ==
  LET parts == SplitOn(t, "/")
  IN /\ Len(parts) = 3
     /\ parts[1] \in {<<h>> : h \in Hosts}
     /\ parts[2] # <<>>
     /\ parts[3] # <<>> /\ parts[3][1] \notin {":", "@"}

\* The last separator cuts; an empty ref is none.
LastMark(t) == IF FindLast(t, "@") > FindLast(t, ":") THEN FindLast(t, "@") ELSE FindLast(t, ":")
split_github_ref(t) ==
  LET cut == LastMark(t)
  IN IF cut = 0 THEN [url |-> HttpsUrl(t), ref |-> NotSaid]
     ELSE [url |-> HttpsUrl(Before(t, cut)), ref |-> OrSaid(After(t, cut))]

looks_like_version(t) == t # <<>> /\ \A i \in DOMAIN t : t[i] \notin Separators \cup OddWord
split_at_ref(t) ==
  LET at == FindLast(t, "@")
      colon == FindLast(t, ":")
  IN IF at > 0 THEN [name |-> Before(t, at), version |-> OrSaid(After(t, at))]
     ELSE IF colon > 0 /\ looks_like_version(After(t, colon))
     THEN [name |-> Before(t, colon), version |-> After(t, colon)]
     ELSE [name |-> t, version |-> NotSaid]

split_scope_token(t) ==
  LET slash == Find(t, "/")
  IN IF IsPrefix(<<"@">>, t) /\ slash > 0
     THEN [scope |-> SubSeq(t, 2, slash - 1), rest |-> After(t, slash)]
     ELSE [scope |-> NotSaid, rest |-> t]

Source(type, of, pin, scope) == [type |-> type, of |-> of, pin |-> pin, scope |-> scope]
Bad == Source("error", <<>>, NotSaid, NotSaid)
Plain(type, of) == Source(type, of, NotSaid, NotSaid)
classify_path(path) == Plain(IF path[Len(path)] \in ArchiveWord THEN "tarball" ELSE "dir", path)

Git == {<<"git+", s>> \o Slashes : s \in {"https", "http", "ssh"}}
Protocols == {<<p, ":">> : p \in {"npm", "workspace", "file", "link", "github", "gitlab", "bitbucket"}}
Begins(t, prefixes) == \E p \in prefixes : IsPrefix(p, t)
Relative == {<<".", "/">>, <<"..", "/">>}

BareSource(t) ==
  LET scoped == split_scope_token(t)
      pinned == split_at_ref(scoped.rest)
  IN IF pinned.name = <<>> THEN Bad
     ELSE IF Includes(t, <<"@", "npm", ":">>) \/ Begins(t, Protocols) THEN Plain("passthrough", t)
     ELSE Source("bare", pinned.name, pinned.version, scoped.scope)

parse_source_token(t, base) ==
  CASE IsPrefix(<<"npm", ":">>, t) -> IF Len(t) = 2 THEN Bad ELSE Plain("npm", After(t, 2))
    [] IsPrefix(<<"git", ":">>, t) -> IF Len(t) = 2 THEN Bad ELSE Plain("git", After(t, 2))
    [] Includes(t, Slashes) -> Plain(IF Begins(t, Git) THEN "passthrough" ELSE "tarball", t)
    [] IsPrefix(<<"/">>, t) -> classify_path(t)
    [] Begins(t, Relative) -> classify_path(base \o <<"/">> \o t)
    [] is_github_short(t) -> Source("github", split_github_ref(t).url, split_github_ref(t).ref, NotSaid)
    [] OTHER -> BareSource(t)

\* DIRECTIVES.  A line is its keyword and its tokens.
Blank ==
  [ok |-> TRUE, name |-> NotSaid, version |-> NotSaid, url |-> NotSaid, ref |-> NotSaid, base |-> NotSaid,
   profile |-> NotSaid, labels |-> <<>>, defs |-> <<>>, env |-> <<>>, ops |-> <<>>]
Fails(s) == [s EXCEPT !.ok = FALSE]
One(s, args, then) == IF Len(args) = 1 THEN then ELSE Fails(s)
Assigned(f, key, value) == (key :> value) @@ f

ReadFrom(s, t) ==
  IF is_github_short(t)
  THEN [s EXCEPT !.url = split_github_ref(t).url,
                 !.ref = IF split_github_ref(t).ref # NotSaid THEN split_github_ref(t).ref ELSE @]
  ELSE [s EXCEPT !.base = t]
is_env_key(t) == Len(t) = 1 /\ t[1] \notin Separators \cup OddWord \cup Digital
ReadPair(s, key, t) ==
  LET eq == Find(t, "=")
  IN IF eq = 0 THEN Fails(s)
     ELSE IF key = "LABEL" THEN [s EXCEPT !.labels = Assigned(@, Before(t, eq), After(t, eq))]
     ELSE IF is_env_key(Before(t, eq)) THEN [s EXCEPT !.env = Assigned(@, Before(t, eq), After(t, eq))]
     ELSE Fails(s)
ReadDef(s, args) ==
  IF Len(args) = 2 /\ args[2][1] = "@" /\ args[1] \notin DOMAIN s.defs
  THEN [s EXCEPT !.defs = Assigned(@, args[1], args[2])] ELSE Fails(s)
\* The destination a line gives is read over.
ReadAdd(s, args, base) ==
  LET named == args # <<>> /\ args[1] \in {<<"plugin">>, <<"skill">>, <<"data">>}
      at == IF named THEN 2 ELSE 1
  IN IF Len(args) \notin at .. 3 THEN Fails(s)
     ELSE LET source == parse_source_token(args[at], base)
          IN IF source = Bad THEN Fails(s)
             ELSE [s EXCEPT !.ops = Append(@, [kind |-> IF named THEN args[1][1] ELSE "plugin", source |-> source])]

ReadLine(s, line, base) ==
  CASE ~s.ok -> s
    [] line.key = "FROM" -> One(s, line.args, ReadFrom(s, line.args[1]))
    [] line.key = "PROFILE" -> One(s, line.args, [s EXCEPT !.profile = line.args[1]])
    [] line.key = "NAME" -> One(s, line.args, [s EXCEPT !.name = line.args[1]])
    [] line.key = "VERSION" -> One(s, line.args, [s EXCEPT !.version = line.args[1]])
    [] line.key \in {"LABEL", "ENV"} -> One(s, line.args, ReadPair(s, line.key, line.args[1]))
    [] line.key = "DEF" -> ReadDef(s, line.args)
    [] line.key \in {"ADD", "CP"} -> ReadAdd(s, line.args, base)
    [] OTHER -> Fails(s)

parse_script(lines, base) ==
  LET s == FoldLeft(LAMBDA acc, line : ReadLine(acc, line, base), Blank, lines)
      Default(x, d) == IF x = NotSaid THEN d ELSE x
  IN IF ~s.ok \/ (s.base = NotSaid /\ s.url = NotSaid) \/ s.profile = NotSaid THEN [ok |-> FALSE]
     ELSE [s EXCEPT !.name = Default(@, <<"image">>), !.version = Default(@, <<"latest">>),
                    !.url = IF s.base = NotSaid THEN @ ELSE <<>>,
                    !.ref = IF s.base = NotSaid THEN @ ELSE NotSaid]

\* WHAT A BUILD AND AN IMPORT MAKE OF A SOURCE.
PackageName(source) == IF source.scope = NotSaid THEN source.of ELSE <<"@">> \o source.scope \o <<"/">> \o source.of
Pinned(t, mark, pin) == IF pin = NotSaid THEN t ELSE t \o <<mark>> \o pin

pnpm_plugin_spec(source) ==
  CASE source.type = "github" -> Pinned(<<"git+">> \o source.of, "#", source.pin)
    [] source.type \in {"tarball", "passthrough", "npm"} -> source.of
    [] source.type = "bare" -> Pinned(PackageName(source), "@", source.pin)
    [] source.type = "git" -> <<"git+">> \o HttpsUrl(source.of)
    [] OTHER -> NotSaid

BuildPlan(script, asked) ==
  IF ~script.ok \/ script.base # NotSaid
     \/ \E i \in DOMAIN script.ops : script.ops[i].kind # "plugin" \/ pnpm_plugin_spec(script.ops[i].source) = NotSaid
  THEN [ok |-> FALSE]
  ELSE [ok |-> TRUE, name |-> IF asked # <<>> THEN asked ELSE script.name,
        base |-> IF script.ref = NotSaid THEN <<"latest">> ELSE script.ref,
        profile |-> script.profile, env |-> script.env,
        specs |-> [i \in DOMAIN script.ops |-> pnpm_plugin_spec(script.ops[i].source)],
        allowed |-> IF <<"dshbox.allow-build">> \notin DOMAIN script.labels THEN <<>>
                    ELSE SelectSeq(SplitOn(script.labels[<<"dshbox.allow-build">>], ","), LAMBDA w : w # <<>>)]

Refuses == [ok |-> FALSE]
split_package_spec(spec) ==
  LET at == FindLast(spec, "@")
  IN IF at > 1 /\ at < Len(spec) /\ spec[at + 1] \in Digital
     THEN [ok |-> TRUE, name |-> Before(spec, at), version |-> After(spec, at), spec |-> spec]
     ELSE IF spec[1] = "@" /\ Find(spec, "@") = at THEN Refuses
     ELSE [ok |-> TRUE, name |-> spec, version |-> NotSaid, spec |-> spec]
classify_import_source(t) ==
  LET source == parse_source_token(t, <<".">>)
  IN CASE source.type \in {"npm", "passthrough"} -> split_package_spec(source.of)
       [] source.type = "bare" ->
            [ok |-> TRUE, name |-> PackageName(source), version |-> source.pin,
             spec |-> Pinned(PackageName(source), "@", source.pin)]
       [] OTHER -> Refuses

\* A template reference, as a pull and a created container read it.
parse_template_ref(t) ==
  LET cut == LastMark(t)
      head == IF cut = 0 THEN t ELSE Before(t, cut)
      tag == After(t, cut)
      version == IF cut = 0 THEN <<"latest">> ELSE tag
      parts == SplitOn(head, "/")
  IN IF (cut > 0 /\ tag = <<>>) \/ Len(parts) # 3 \/ parts[1] \notin {<<h>> : h \in Hosts} \/ ~looks_like_version(version)
     THEN Refuses ELSE [ok |-> TRUE, url |-> HttpsUrl(head), version |-> version]

\* What a person is shown, and what the data store keys and records.
describe_source(source) ==
  CASE source.type = "github" -> Pinned(source.of, "@", source.pin)
    [] source.type = "bare" -> Pinned(PackageName(source), "@", source.pin)
    [] source.type \in {"git", "npm"} -> <<source.type, ":">> \o source.of
    [] OTHER -> source.of
data_source_name(source) ==
  CASE source.type = "github" -> [i \in 1 .. Len(Last0(source.of)) |-> DropGit(Last0(source.of)[i])]
    [] source.type = "tarball" -> [i \in 1 .. Len(Last0(source.of)) |-> DropArchive(Last0(source.of)[i])]
    [] source.type = "dir" -> Last0(source.of)
    [] source.type = "bare" -> source.of
    [] OTHER -> <<"data">>
preview_image_script(script) ==
  IF ~script.ok THEN Refuses
  ELSE [ok |-> TRUE, name |-> script.name, version |-> script.version, url |-> script.url,
        profile |-> script.profile, labels |-> script.labels,
        ops |-> [i \in DOMAIN script.ops |-> [kind |-> script.ops[i].kind, source |-> describe_source(script.ops[i].source)]]]

\* THE MANIFEST AND ITS ARCHIVE.
builtin_defs(profile) ==
  (<<"plugin">> :> <<"@", "profile", "/", "profiles", "/">> \o profile \o <<"/", "node_modules">>)
  @@ (<<"skill">> :> <<"@", "profile", "/", "skills">>) @@ (<<"data">> :> <<"extensions", "/", "data">>)

resolve_dest(dest, defs) ==
  LET rest == After(dest, 1)
      slash == Find(rest, "/")
      name == IF slash = 0 THEN rest ELSE Before(rest, slash)
  IN IF dest[1] # "@" THEN NotSaid
     ELSE IF slash = 1 \/ name = <<"profile">> THEN rest
     ELSE IF name \notin DOMAIN defs \/ defs[name] = <<>> THEN NotSaid
     ELSE IF slash = 0 THEN defs[name] ELSE defs[name] \o SubSeq(rest, slash, Len(rest))
default_dest(kind, defs) == resolve_dest(<<"@", kind>>, defs)

\* The scope of an npm name runs into the name.
source_name(source) ==
  LET of == source.of
      cut == LastMark(of)
      bare == IF of[1] = "@" /\ Find(of, "/") > 0 THEN After(of, Find(of, "/")) ELSE of
      stem == IF FindLast(bare, "@") = 0 THEN bare ELSE Before(bare, FindLast(bare, "@"))
  IN CASE source.type = "github" -> [i \in 1 .. Len(Last0(of)) |-> DropGit(Last0(of)[i])]
       [] source.type = "tarball" -> [i \in 1 .. Len(Last0(of)) |-> DropSuffix(Last0(of)[i])]
       [] source.type = "dir" -> Last0(of)
       [] source.type = "bare" -> PackageName(source)
       [] source.type = "git" -> IF cut = 0 THEN <<"git-extension">> ELSE Last0(Before(of, cut))
       [] source.type = "npm" -> (IF bare = of THEN <<>> ELSE Before(of, Find(of, "/"))) \o stem
       [] OTHER -> of
source_from_parsed(source) == IF source.type = "bare" THEN Plain("dir", PackageName(source)) ELSE source

compile_manifest(script) ==
  LET defs == script.defs @@ builtin_defs(script.profile)
      harness ==
        [kind |-> "plugin", source |-> Source("github", script.url, script.ref, NotSaid), data |-> FALSE,
         dest |-> <<"@", "runtime", "/", "dsh", "/">> \o (IF script.ref = NotSaid THEN <<"latest">> ELSE script.ref),
         digest |-> Pinned(script.url, "@", script.ref)]
      Added(op) ==
        LET found == default_dest(op.kind, defs)
            dest == IF found = NotSaid THEN <<>> ELSE found
        IN [kind |-> op.kind, source |-> source_from_parsed(op.source), data |-> op.kind = "data",
            dest |-> dest \o <<"/">> \o source_name(op.source), digest |-> source_name(op.source) \o <<":">> \o dest]
  IN [id |-> script.name \o <<":">> \o script.version, defs |-> defs, ref |-> script.ref, profile |-> script.profile,
      adds |-> <<harness>> \o [i \in DOMAIN script.ops |-> Added(script.ops[i])]]

\* A blob is the set of its files' paths; an archive is the set of its entries.
write_dshimage(blobs) ==
  {<<"manifest.json">>} \cup
  UNION {{<<"blobs", Safe(d), "source">> \o p : p \in {q \in blobs[d] : \A i \in DOMAIN q : q[i] \notin Noise}} :
           d \in DOMAIN blobs}
read_dshimage(entries, suffix) ==
  IF \/ suffix \notin {".tar.gz", ".tgz"}
     \/ \E e \in entries, c \in Coloned \cup {".."} : Includes(e, <<c>>)
     \/ <<"manifest.json">> \notin entries
  THEN Refuses ELSE [ok |-> TRUE, files |-> entries \ {<<"manifest.json">>}]
=============================================================================
