--------------------------- MODULE MCApplication ---------------------------
(* An instance of Application for TLC: a configuration file with two roles *)
(* served over HTTP, its variations in one section at a time, and files    *)
(* that are absent, empty or broken.                                       *)
EXTENDS Application, TLC

CONSTANTS main, other, x, y, z, sysX, ctxN, n

TwoThreads == {main, other}
Tools == {"evaluate", "evaluate_image"}
Paths == <<"env", "which">>
ShortNames == [s \in {x, y, z, sysX, ctxN, n} |->
                 CASE s = sysX -> x [] s = ctxN -> n [] OTHER -> s]
ThreeGroups == [file_read |-> {x}, networking |-> {y, ctxN}, calculus |-> {z}]
TwoDangerous == {"file_read", "networking"}
OneSafe == {"calculus"}

Http == [transport |-> "http"]
Alice == [role |-> "admin", password_hash |-> "scrypt"]
Auth(admin, alice) ==
  [enabled |-> TRUE, clients |-> [alice |-> alice],
   roles |-> [admin |-> admin, reader |-> [tools |-> {"evaluate"}, security |-> "whitelist"]]]
Base == [server |-> Http, auth |-> Auth([tools |-> Star], Alice)]

With(name, sections) == {name :> s @@ Base : s \in sections}
Key(k, values) == {k :> v : v \in values}

Kernels ==
  UNION {Key(k, {-1, 0}) : k \in {"timeout", "hard_timeout", "max_result_size",
                                  "max_requests_per_worker", "idle_timeout"}}
  \cup {[pool_size |-> a, pool_min_idle |-> b] : a \in -1..3, b \in -1..4}
  \cup Key("mathkernel", {"opt", "nowhere"}) \cup Key("default_format", {"TeXForm", "HTML"})
Servers ==
  {s @@ Http : s \in Key("port", {0, 1, 65535, 65536}) \cup Key("auth_token_env", {"", "TOKEN"})}
  \cup {[transport |-> "tcp"]}
TlsSections ==
  {[enabled |-> TRUE], [enabled |-> TRUE, domain |-> "example.com"],
   [dns_provider |-> "dnspod"], [dns_provider |-> "dns"]}
Lists == Key("deny_groups", {{}, OneSafe, TwoDangerous})
         \cup {Empty, [extra_blocked |-> {z}, extra_allowed |-> {x, n}]}
Policies(key) == {m @@ l : m \in Key(key, {"blacklist", "whitelist", "other"}), l \in Lists}
Admins ==
  Policies("security") \cup Lists \cup Key("security", {"none"})
  \cup Key("tools", {{}, {"evaluate"}, {"plot"}})
  \cup UNION {Key(k, {-1, 1}) : k \in {"timeout", "hard_timeout", "max_result_size"}}
Clients == {[role |-> r, password_hash |-> h] :
              r \in {"", "admin", "nobody"}, h \in {"", "plain", "scrypt"}} \cup {Empty, NotATable}

Files ==
  With("kernel", Kernels) \cup With("server", Servers) \cup With("tls", TlsSections)
  \cup With("security", Policies("mode")) \cup With("tools", Key("enabled", {{}, {"plot"}}))
  \cup With("auth", {Auth(a, Alice) : a \in Admins} \cup {Auth(Empty, c) : c \in Clients}
                    \cup {[enabled |-> TRUE], [enabled |-> FALSE, clients |-> [alice |-> Alice]]})
  \cup {[server |-> [auth_token_env |-> "TOKEN"] @@ Http]}

StandaloneFiles == Files \cup {Absent, Broken, Empty, Generated}
PyprojectFiles  == {Absent, Broken, Base}
Options == {"", "http"}

(* --transport is given only where the file names none, and the transport  *)
(* starts when the other thread has returned: they share no variable.      *)
MCInit == Init /\ (option # "" => source = Empty)
MCNext ==
  \/ AppStep /\ UNCHANGED <<busy, stdioVars>>
  \/ stack[other] = << >> /\ Stdio(StdioNext)
  \/ JobsEnd \/ Stopped
MCSpec == MCInit /\ [][MCNext]_allVars /\ Fairness
=============================================================================
