--------------------------- MODULE SecurityPolicy ---------------------------
(***************************************************************************)
(* The expression filters (src/mma_mcp/security/filter.py) and how they    *)
(* are resolved from the symbol groups that were loaded and a [security]   *)
(* section (security/registry.py).                                         *)
(*                                                                         *)
(* An expression is the set of the names it uses, as they are written, with*)
(* a context or without; the loaded groups are a function from group names *)
(* to sets of names.                                                       *)
(***************************************************************************)
CONSTANT Short   \* _short_name: of each name, what follows its context

ASSUME ShortAssumption ==
  \A s \in DOMAIN Short : Short[s] \in DOMAIN Short /\ Short[Short[s]] = Short[s]

Filter(mode, policy) == [mode |-> mode, policy |-> policy]

(* A mutant: names are taken as they are written. *)
SymbolsAsWritten(expr) == expr
(* extract_symbols *)
Symbols(expr) == {Short[s] : s \in expr}

(* ExpressionFilter.check: the short names of the expression are looked up *)
(* in a policy whose names are never shortened.                            *)
Passes(filter, expr) ==
  IF filter.mode = "blacklist" THEN Symbols(expr) \cap filter.policy = {}
                               ELSE Symbols(expr) \subseteq filter.policy

(* A group without a file, or with one that cannot be read, has no symbols.*)
Resolve(groups, names) == UNION {groups[g] : g \in names \cap DOMAIN groups}

(* "config.x if config.x else default" *)
OrDefault(names, default) == IF names = {} THEN default ELSE names

BlacklistFilter(groups, sec, dangerous) ==
  Filter("blacklist",
         Resolve(groups, OrDefault(sec.deny_groups, dangerous)) \cup sec.extra_blocked)

WhitelistFilter(groups, sec, dangerous, safe) ==
  Filter("whitelist",
         (Resolve(groups, OrDefault(sec.allow_groups, safe)) \cup sec.extra_allowed)
         \ (Resolve(groups, dangerous) \cup sec.extra_blocked))

(* CapabilityRegistry.build_filter *)
BuildFilter(groups, sec, dangerous, safe) ==
  IF sec.mode = "blacklist" THEN BlacklistFilter(groups, sec, dangerous)
                            ELSE WhitelistFilter(groups, sec, dangerous, safe)
=============================================================================
