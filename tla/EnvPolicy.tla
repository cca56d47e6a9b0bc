----------------------------- MODULE EnvPolicy -----------------------------
(***************************************************************************)
(* The environment a child process gets: a policy applied to the           *)
(* environment of the daemon, on Linux.  An environment is a function from *)
(* the variables that are set to their values; the search path is a        *)
(* sequence.                                                               *)
(***************************************************************************)
LOCAL INSTANCE Sequences
LOCAL INSTANCE Functions
LOCAL INSTANCE TLC

Proxies == {"HTTPS_PROXY", "https_proxy", "ALL_PROXY", "NO_PROXY"}
\* The variables whose name ends in _API_KEY.
ApiKeys == {"OPENAI_API_KEY"}
Empty == [k \in {} |-> "unset"]
Without(env, keys) == Restrict(env, DOMAIN env \ keys)
Set(env, changes) == changes @@ env
-----------------------------------------------------------------------------
(* The policies. *)

Policy == [clean |-> FALSE, inherited |-> {}, suffixed |-> {}, locale |-> FALSE,
           remove |-> {}, defaults |-> Empty, replace |-> Empty, path |-> <<>>,
           overrides |-> Empty, protected |-> {}]

Shared == {"TEMP", "LANG", "LC_ALL", "LC_CTYPE", "TZ", "SSH_AUTH_SOCK", "XDG_RUNTIME_DIR"}

\* What ENV directives declare goes with the values Box sets.
DeclaredEnv(policy, declared) == [policy EXCEPT !.replace = Set(@, declared)]
TaskOverride(policy, changes) == [policy EXCEPT !.overrides = Set(@, changes)]

dsh_host_policy ==
  [Policy EXCEPT !.clean = TRUE, !.locale = TRUE,
     !.inherited = Shared \cup {"HOME", "USER", "TERM", "PATH"},
     !.suffixed = ApiKeys,
     !.remove = Proxies \cup {"SHELL", "COLORTERM"},
     !.path = <<"node", "pnpm">>, !.protected = {"DSHBOX_HOME"},
     !.replace = [NODE_PATH |-> "box", CHOKIDAR_USEPOLLING |-> "box"]]

\* The policy of a container's host, as a start builds it.
HostPolicy(declared) ==
  TaskOverride(DeclaredEnv(dsh_host_policy, declared),
               [DSH_HOME |-> "box", DSHBOX_CONTAINER_ID |-> "box"])

OnPath(policy, dirs) == [policy EXCEPT !.path = @ \o dirs]

\* Git is the bundled one, the machine's, or absent, and then there is no policy.
GitValues(git) ==
  Set([GIT_CONFIG_NOSYSTEM |-> "box", GIT_CONFIG_GLOBAL |-> "box", GIT_TERMINAL_PROMPT |-> "box"],
      IF git = "bundled" THEN [LD_LIBRARY_PATH |-> "box"] ELSE [XDG_CONFIG_HOME |-> "box"])

bundled_package_manager_policy(git, proxy, install) ==
  OnPath([Policy EXCEPT !.clean = TRUE,
               !.inherited = Shared \cup (IF proxy THEN Proxies ELSE {}),
               !.path = <<"node", "pnpm", "git">>, !.protected = {"DSHBOX_HOME"},
               !.replace = Set(GitValues(git),
                 [HOME |-> "box", NPM_CONFIG_USERCONFIG |-> "box", npm_config_registry |-> "box",
                  PNPM_CONFIG_STORE_DIR |-> "box", npm_config_cache |-> "box",
                  npm_config_optional |-> "box"])],
            install)

bundled_toolchain_policy(host, registry, git, install) ==
  OnPath([Policy EXCEPT
               !.remove = {"SHELL", "TERM", "COLORTERM"} \cup (IF host THEN {} ELSE {"NODE_PATH"}),
               !.path = <<"node", "pnpm">>,
               !.protected = {"DSHBOX_HOME", "PNPM_CONFIG_STORE_DIR", "npm_config_cache"},
               !.replace = Set([PNPM_CONFIG_STORE_DIR |-> "box", npm_config_cache |-> "box",
                                npm_config_optional |-> "box"],
                               IF registry THEN [npm_config_registry |-> "box"] ELSE Empty)],
            install \o (IF git = "bundled" THEN <<"git">> ELSE <<>>))

PolicyOf(ask) ==
  TaskOverride(CASE ask.kind = "host" -> HostPolicy(ask.declared)
                 [] ask.kind = "pnpm" -> bundled_package_manager_policy(ask.git, ask.proxy, ask.install)
                 [] ask.kind = "tool" -> bundled_toolchain_policy(ask.host, ask.registry, ask.git, ask.install),
               ask.overrides)
-----------------------------------------------------------------------------
(* EnvironmentPolicy::apply *)

locale_is_c_family(v) == v \in {"C", "C.UTF-8"}
locale_names_utf8(v) == v \in {"zh.UTF-8"}
Holds(env, k, Test(_)) == k \in DOMAIN env /\ Test(env[k])

Passes(policy, k) == ~policy.clean \/ k \in policy.inherited \cup policy.suffixed
Whitelisted(policy, parent) == Restrict(parent, {k \in DOMAIN parent : Passes(policy, k)})

\* seeded fault: only LC_ALL is looked at.
ShadowingAll(policy, parent) ==
  IF policy.locale /\ Holds(parent, "LANG", locale_names_utf8) /\ Holds(parent, "LC_ALL", locale_is_c_family)
  THEN {"LC_ALL"} ELSE {}
\* The variables of the C family that shadow a real UTF-8 locale.
ShadowingLocale(policy, parent) ==
  IF policy.locale /\ Passes([policy EXCEPT !.suffixed = {}], "LANG") /\ Holds(parent, "LANG", locale_names_utf8)
  THEN {k \in {"LC_ALL", "LC_CTYPE"} : Holds(parent, k, locale_is_c_family)}
  ELSE {}

AppendsPath(policy) == ~policy.clean \/ "PATH" \in policy.inherited

\* The steps in their order: whitelist, locale, remove, defaults, replace, the
\* path over the daemon's own, overrides.  A default is set when the daemon's
\* environment, not the child's, lacks the variable.
Apply(policy, parent) ==
  LET kept == Without(Whitelisted(policy, parent), ShadowingLocale(policy, parent) \cup policy.remove)
      filled == Set(kept, Without(policy.defaults, DOMAIN parent))
      set == Set(filled, policy.replace)
      searched == IF policy.path = <<>> THEN set
                  ELSE Set(set, [PATH |-> policy.path \o
                                   (IF AppendsPath(policy) /\ "PATH" \in DOMAIN parent THEN parent.PATH ELSE <<>>)])
  IN Set(searched, Without(policy.overrides, policy.protected))

\* The copy of it that the unit tests use, over a map in place of the process
\* environment: each step looks at what the earlier ones left.
ApplyToMap(policy, input) ==
  LET kept == Whitelisted(policy, input)
      shadowing == IF policy.locale /\ Holds(kept, "LANG", locale_names_utf8)
                   THEN {k \in {"LC_ALL", "LC_CTYPE"} : Holds(kept, k, locale_is_c_family)} ELSE {}
      left == Without(kept, shadowing \cup policy.remove)
      filled == Set(left, Without(policy.defaults, DOMAIN left))
      set == Set(filled, policy.replace)
      searched == IF policy.path = <<>> THEN set
                  ELSE Set(set, [PATH |-> policy.path \o
                                   (IF AppendsPath(policy) /\ "PATH" \in DOMAIN set THEN set.PATH ELSE <<>>)])
  IN Set(searched, Without(policy.overrides, policy.protected))

\* No git at all: the package manager's policy is refused.
HasPolicy(ask) == ask.kind = "pnpm" => ask.git # "none"
ChildEnv(ask) == IF HasPolicy(ask) THEN [ok |-> TRUE, env |-> Apply(PolicyOf(ask), ask.parent)] ELSE [ok |-> FALSE]
=============================================================================
