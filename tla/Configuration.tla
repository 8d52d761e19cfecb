--------------------------- MODULE Configuration ---------------------------
(***************************************************************************)
(* What a configuration file means: the sources that are looked at, the    *)
(* defaults, the validation (src/mma_mcp/config.py), and what the server   *)
(* makes of it: role runtimes, bound tools, pool parameters (server.py).   *)
(*                                                                         *)
(* A file that parses is a function from the names of its sections to      *)
(* functions from keys to values; lists are sets of names.                 *)
(***************************************************************************)
EXTENDS Integers, Sequences, FiniteSetsExt, SecurityPolicy

CONSTANTS
  Tool,          \* the names in _REGISTRY
  Provider,      \* the keys of DNS_PROVIDERS
  Kernel,        \* paths at which a kernel is installed
  Candidates,    \* where find_kernel looks after the hint, in this order
  CpuCount,      \* os.cpu_count(), 0 for None
  Groups,        \* the symbol groups that were loaded
  Dangerous, Safe,   \* _DANGEROUS_GROUPS, _DEFAULT_WHITELIST_GROUPS
  Star,          \* "*", where a list of tools may stand
  NotATable,     \* a value where a table should be
  Absent, Broken \* a file that is not there, or does not parse

ASSUME ConfigAssumption ==
  /\ CpuCount \in Nat /\ Absent # Broken
  /\ Kernel \subseteq STRING \ {""} /\ Candidates \in Seq(STRING)

Empty == << >>
Get(table, key, default) == IF key \in DOMAIN table THEN table[key] ELSE default
Section(raw, name) == Get(raw, name, Empty)
Filled(table, defaults) == [k \in DOMAIN defaults |-> Get(table, k, defaults[k])]
Tables(table) == {k \in DOMAIN table : table[k] # NotATable}

-----------------------------------------------------------------------------
(* load_config                                                             *)

(* mma_mcp.toml wins, even if it is empty; if it does not parse it is      *)
(* passed over with a warning.                                             *)
Source(standalone, pyproject) ==
  IF standalone \notin {Absent, Broken} THEN standalone
  ELSE IF pyproject \notin {Absent, Broken} THEN pyproject ELSE Empty

KernelDefaults ==
  [mathkernel |-> "", timeout |-> 30, hard_timeout |-> 60,
   max_result_size |-> 65536, default_format |-> "TeXForm", pool_size |-> 0,
   pool_min_idle |-> 1, max_requests_per_worker |-> 100, idle_timeout |-> 0]
ServerDefaults == [transport |-> "stdio", port |-> 8000, auth_token_env |-> ""]
TlsDefaults == [enabled |-> FALSE, domain |-> "", dns_provider |-> ""]
SecurityDefaults ==
  [mode |-> "blacklist", deny_groups |-> Dangerous, allow_groups |-> {},
   extra_blocked |-> {}, extra_allowed |-> {}]
ToolsDefaults == [enabled |-> {"evaluate", "evaluate_image"}]
RoleDefaults ==
  [tools |-> {}, security |-> "", deny_groups |-> {}, allow_groups |-> {},
   extra_blocked |-> {}, extra_allowed |-> {}, timeout |-> 0, hard_timeout |-> 0,
   max_result_size |-> 0]
ClientDefaults == [role |-> "", password_hash |-> ""]

NamedTables(table, defaults) == [n \in Tables(table) |-> Filled(table[n], defaults)]

AuthOf(sec) ==
  LET enabled == Get(sec, "enabled", FALSE)
      part(name) == IF enabled THEN Get(sec, name, Empty) ELSE Empty IN
  [enabled |-> enabled,
   roles   |-> NamedTables(part("roles"), RoleDefaults),
   clients |-> NamedTables(part("clients"), ClientDefaults)]

Loaded(raw) ==
  [kernel   |-> Filled(Section(raw, "kernel"), KernelDefaults),
   server   |-> Filled(Section(raw, "server"), ServerDefaults),
   tls      |-> Filled(Section(raw, "tls"), TlsDefaults),
   security |-> Filled(Section(raw, "security"), SecurityDefaults),
   tools    |-> Filled(Section(raw, "tools"), ToolsDefaults),
   auth     |-> AuthOf(Section(raw, "auth"))]

(* What `mma-mcp init` writes: the settings that are not commented out.    *)
GeneratedKernel ==
  [mathkernel |-> "", timeout |-> 30, hard_timeout |-> 60,
   max_result_size |-> 65536, default_format |-> "TeXForm", pool_size |-> 0,
   pool_min_idle |-> 1, max_requests_per_worker |-> 100, idle_timeout |-> 0]
GeneratedServer == [transport |-> "stdio", port |-> 8000]
Generated ==
  [kernel |-> GeneratedKernel, server |-> GeneratedServer,
   tls |-> [enabled |-> FALSE, domain |-> "", dns_provider |-> ""],
   security |-> [mode |-> "blacklist", deny_groups |-> Dangerous],
   tools |-> [enabled |-> {"evaluate"}]]

-----------------------------------------------------------------------------
(* _validate, part by part; unknown groups are only warned about.          *)

(* The fields that KernelConfig and RoleConfig declare as int.             *)
KernelNumbers ==
  {"timeout", "hard_timeout", "max_result_size", "pool_size", "pool_min_idle",
   "max_requests_per_worker", "idle_timeout"}
RoleNumbers == {"timeout", "hard_timeout", "max_result_size"}

NotNegative(table, keys) == \A k \in keys : table[k] >= 0

KernelValid(kc) ==
  /\ NotNegative(kc, KernelNumbers)
  /\ kc.default_format \in {"TeXForm", "OutputForm", "InputForm",
                            "StandardForm", "TraditionalForm"}
  /\ kc.mathkernel # "" => kc.mathkernel \in Kernel

ServerValid(sc) == sc.transport \in {"stdio", "http"} /\ sc.port \in 1..65535

TlsValid(tls) ==
  /\ tls.enabled => tls.domain # ""
  /\ tls.dns_provider # "" => tls.dns_provider \in Provider

RoleValid(role) ==
  /\ role.security \in {"", "none", "blacklist", "whitelist"}
  /\ NotNegative(role, RoleNumbers)

(* A hash is "scrypt" if it has the form scrypt:<salt>:<hash>.             *)
ClientValid(client, roles) ==
  client.role # "" /\ client.role \in DOMAIN roles /\ client.password_hash = "scrypt"

AuthValid(auth) ==
  auth.enabled =>
    /\ DOMAIN auth.clients # {} /\ DOMAIN auth.roles # {}
    /\ \A c \in DOMAIN auth.clients : ClientValid(auth.clients[c], auth.roles)
    /\ \A r \in DOMAIN auth.roles : RoleValid(auth.roles[r])

Valid(config) ==
  /\ KernelValid(config.kernel) /\ ServerValid(config.server) /\ TlsValid(config.tls)
  /\ config.security.mode \in {"blacklist", "whitelist"}
  /\ AuthValid(config.auth)

-----------------------------------------------------------------------------
(* What App makes of it: _build_role_runtimes, _build_context,             *)
(* _create_server, register_tools; KernelPool.__init__.                    *)

RoleTools(config, role) ==
  IF role.tools = Star THEN Tool
  ELSE IF role.tools # {} THEN role.tools ELSE config.tools.enabled

RolePolicy(role) ==
  [mode |-> role.security, deny_groups |-> role.deny_groups, allow_groups |-> role.allow_groups,
   extra_blocked |-> role.extra_blocked, extra_allowed |-> role.extra_allowed]

(* The filter of ToolContext, for callers without a role.                  *)
ContextFilter(config) == BuildFilter(Groups, config.security, Dangerous, Safe)

(* A mutant: a role without a policy is filtered by its own empty lists.   *)
RoleFilterOwnLists(config, role) ==
  IF role.security = "none" THEN Filter("blacklist", {})
  ELSE BuildFilter(Groups, RolePolicy(role), Dangerous, Safe)

RoleFilter(config, role) ==
  CASE role.security = "none" -> Filter("blacklist", {})
    [] role.security = "" -> ContextFilter(config)
    [] OTHER -> BuildFilter(Groups, RolePolicy(role), Dangerous, Safe)

Runtimes(config) ==
  LET roles == config.auth.roles IN
  [r \in DOMAIN roles |->
     [tools |-> RoleTools(config, roles[r]), filter |-> RoleFilter(config, roles[r]),
      hard |-> roles[r].hard_timeout, size |-> roles[r].max_result_size]]

Enabled(config) ==
  IF DOMAIN config.auth.roles # {}
  THEN UNION {Runtimes(config)[r].tools : r \in DOMAIN config.auth.roles}
  ELSE config.tools.enabled

(* Names that are not registered are warned about and skipped.             *)
Bound(config) == Enabled(config) \cap Tool

(* find_kernel: the first that is there.                                   *)
KernelPath(hint) ==
  LET tried == <<hint>> \o Candidates
      found == {i \in DOMAIN tried : tried[i] \in Kernel}
  IN  IF found = {} THEN "" ELSE tried[Min(found)]

PoolSize(kc) ==
  IF kc.pool_size > 0 THEN kc.pool_size
  ELSE Min({IF CpuCount = 0 THEN 2 ELSE CpuCount, 4})
MinIdle(kc) == Max({1, Min({kc.pool_min_idle, PoolSize(kc)})})
=============================================================================
