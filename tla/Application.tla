---------------------------- MODULE Application ----------------------------
(***************************************************************************)
(* The server process (App in src/mma_mcp/server.py): it loads the         *)
(* configuration, makes the pool, the tool context and the MCP server on   *)
(* first use, and serves over HTTP or over the standard streams.           *)
(*                                                                         *)
(* pool, ctx and mcp are properties of App that any thread may read; the   *)
(* code reads them in the main thread, and its lock is for embedders that  *)
(* use more.  Each is made under one re-entrant lock after a second look;  *)
(* making mcp reads ctx, and making ctx reads pool.  A server on the       *)
(* standard streams runs StdioTransport until its task group is left, and  *)
(* then waits for the jobs of its calls.                                   *)
(***************************************************************************)
EXTENDS Configuration, StdioTransport

CONSTANTS
  Thread, Main,    \* threads that use the App, and the one that runs it
  Standalone, Pyproject, \* the files there can be, or Absent or Broken
  Option,          \* --transport: "" if it is not given
  MaxFails         \* bound: how often making something raises

ASSUME ApplicationAssumption ==
  Main \in Thread /\ Option \subseteq {"", "stdio", "http"} /\ MaxFails \in Nat

(* A number in a file is an integer: load_config takes what it finds, and  *)
(* _validate only compares it with its bounds.                             *)
Numeric(c) ==
  /\ \A k \in KernelNumbers : c.kernel[k] \in Int
  /\ \A r \in DOMAIN c.auth.roles : \A k \in RoleNumbers : c.auth.roles[r][k] \in Int
ASSUME NumbersAssumption ==
  \A file \in (Standalone \cup Pyproject) \ {Absent, Broken} : Numeric(Loaded(file))

VARIABLES
  source,   \* the file that is used, from which everything else follows
  option,   \* the command line
  phase,    \* of the main thread
  guard,    \* what setup_http_auth put in front of the HTTP transport
  stack,    \* of each thread: the properties it is reading, innermost last
  made,     \* how often each property was made
  fails,
  busy      \* a job of a call is in the default executor

inputs  == <<source, option>>
appVars == <<inputs, phase, guard, stack, made, fails>>

Property == {"pool", "ctx", "mcp"}
(* A mutant: making the pool reads mcp.                                    *)
NeedsInCircle == [pool |-> "mcp", ctx |-> "pool", mcp |-> "ctx"]
Needs == [ctx |-> "pool", mcp |-> "ctx"]
Frame == [of : Property, at : {"look", "lock", "check", "make"}]

config == Loaded(source)

AppInit ==
  /\ busy = FALSE
  /\ source \in {Source(s, p) : s \in Standalone, p \in Pyproject}
  /\ option \in Option
  /\ phase = "load" /\ guard = "unset"
  /\ stack = [t \in Thread |-> << >>]
  /\ made = [f \in Property |-> 0]
  /\ fails = 0

-----------------------------------------------------------------------------
(* Reading a property.                                                     *)

Top(t) == stack[t][Len(stack[t])]
Reads(t, f, at) == stack[t] # << >> /\ Top(t) = [of |-> f, at |-> at]
Frames(t, s) == stack' = [stack EXCEPT ![t] = s]
Goto(t, at) == Frames(t, [stack[t] EXCEPT ![Len(stack[t])].at = at])

(* The lock belongs to the thread that is inside; nobody else gets it.     *)
Inside(t) == \E i \in DOMAIN stack[t] : stack[t][i].at \in {"check", "make"}
(* A mutant: a lock that is not re-entrant.                                *)
FreeOnce(t) == \A u \in Thread : ~Inside(u)
FreeFor(t) == \A u \in Thread \ {t} : ~Inside(u)

(* `return self._x`, which gives up the lock if this read has taken it.    *)
Return(t) == Frames(t, Front(stack[t]))

(* Another thread may read while they are being made; a read that begins   *)
(* when all are there returns at once, and is left out.                    *)
Access(t, f) ==
  /\ t # Main /\ phase = "mcp"
  /\ stack[t] = << >>
  /\ Frames(t, <<[of |-> f, at |-> "look"]>>)
  /\ UNCHANGED <<inputs, phase, guard, made, fails>>

Look(t, f) ==
  /\ Reads(t, f, "look")
  /\ IF made[f] > 0 THEN Return(t) ELSE Goto(t, "lock")
  /\ UNCHANGED <<inputs, phase, guard, made, fails>>

Lock(t, f) ==
  /\ Reads(t, f, "lock") /\ FreeFor(t)
  /\ Goto(t, "check")
  /\ UNCHANGED <<inputs, phase, guard, made, fails>>

(* A mutant: no second look under the lock.                                *)
NotLooking(f) == FALSE
MadeMeanwhile(f) == made[f] > 0

(* The second look; what is needed to make f is read as a property too.    *)
Check(t, f) ==
  /\ Reads(t, f, "check")
  /\ IF MadeMeanwhile(f) THEN Return(t)
     ELSE LET making == [stack[t] EXCEPT ![Len(stack[t])].at = "make"] IN
          Frames(t, IF f \in DOMAIN Needs
                    THEN Append(making, [of |-> Needs[f], at |-> "look"]) ELSE making)
  /\ UNCHANGED <<inputs, phase, guard, made, fails>>

Make(t, f) ==
  /\ Reads(t, f, "make")
  /\ made' = [made EXCEPT ![f] = @ + 1]
  /\ Return(t)
  /\ UNCHANGED <<inputs, phase, guard, fails>>

(* Making it raises: all reads of the thread end, their locks are released,*)
(* what they have made already stays.  It ends the process in main.        *)
MakeRaises(t, f) ==
  /\ Reads(t, f, "make") /\ fails < MaxFails
  /\ fails' = fails + 1
  /\ Frames(t, << >>)
  /\ phase' = IF t = Main THEN "crashed" ELSE phase
  /\ UNCHANGED <<inputs, guard, made>>

ReadStep(t) == \E f \in Property :
  Look(t, f) \/ Lock(t, f) \/ Check(t, f) \/ Make(t, f) \/ MakeRaises(t, f)

-----------------------------------------------------------------------------
(* The main thread: App.__init__, run, setup_http_auth.                    *)

Moves(from, to) == phase = from /\ phase' = to

Load ==
  /\ Moves("load", IF Valid(config) THEN "mcp" ELSE "refused")
  /\ stack' = IF Valid(config) THEN [stack EXCEPT ![Main] = <<[of |-> "mcp", at |-> "look"]>>]
              ELSE stack
  /\ UNCHANGED <<inputs, guard, made, fails>>

Transport == IF option # "" THEN option ELSE config.server.transport

HasServer == phase = "mcp" /\ stack[Main] = << >>

RunStdio ==
  /\ HasServer /\ Transport # "http"
  /\ phase' = "stdio"
  /\ UNCHANGED <<inputs, guard, stack, made, fails>>

(* setup_http_auth: clients if auth is enabled, else the token if one is   *)
(* named; if its variable is not set or empty the process exits.           *)
Guard(token) ==
  IF config.auth.enabled THEN "clients"
  ELSE IF config.server.auth_token_env # "" THEN IF token THEN "token" ELSE "exit"
  ELSE "none"

RunHttp ==
  /\ HasServer /\ Transport = "http"
  /\ \E token \in BOOLEAN : guard' = Guard(token)
  /\ phase' = IF guard' = "exit" THEN "refused" ELSE "http"
  /\ UNCHANGED <<inputs, stack, made, fails>>

Serving == phase \in {"stdio", "http"}

AppStep ==
  \/ Load \/ RunStdio \/ RunHttp
  \/ \E t \in Thread : ReadStep(t) \/ \E f \in Property : Access(t, f)

(* A line that reaches the session may be a call whose job is given to the *)
(* default executor.  The client may read what is in the pipe after the    *)
(* process has ended.                                                      *)
Stdio(A) ==
  /\ phase \in {"stdio", "stopped"} /\ A
  /\ busy' = busy \/ (busy' = TRUE /\ inbox' # inbox)
  /\ UNCHANGED appVars

(* The last job that was submitted has ended. *)
JobsEnd == busy /\ busy' = FALSE /\ UNCHANGED <<appVars, stdioVars>>

(* anyio.run returns, or raises, when the task group has been left and the *)
(* threads of the default executor have been joined.                       *)
Stopped ==
  /\ group # "open" /\ ~busy /\ Moves("stdio", "stopped")
  /\ UNCHANGED <<inputs, guard, stack, made, fails, busy, stdioVars>>

Init == AppInit /\ StdioInit
Next ==
  \/ AppStep /\ UNCHANGED <<busy, stdioVars>>
  \/ Stdio(StdioNext) \/ JobsEnd \/ Stopped

allVars == <<appVars, busy, stdioVars>>

(* Threads run, and so does the event loop; a client that is there reads   *)
(* what it is sent.  The session ends after its input has, when no call is *)
(* under way; nothing makes a job end.                                     *)
Fairness ==
  /\ \A t \in Thread : WF_allVars(ReadStep(t) /\ UNCHANGED <<busy, stdioVars>>)
  /\ WF_allVars(Stdio(Readline)) /\ WF_allVars(Stdio(Read))
  /\ WF_allVars(\/ Stdio(Handle \/ Write \/ WriterEnds \/ Leave)
                \/ Stdio(reader = "ended" /\ ~busy /\ SessionEnds("returned")) \/ Stopped)

Spec == Init /\ [][Next]_allVars /\ Fairness

-----------------------------------------------------------------------------

(* Type invariant: inputs, threads and both ends of the transport.         *)
TypeOK ==
  /\ source \in {Source(s, p) : s \in Standalone, p \in Pyproject}
  /\ option \in Option
  /\ phase \in {"load", "refused", "mcp", "crashed", "stdio", "http", "stopped"}
  /\ guard \in {"unset", "clients", "token", "none", "exit"}
  /\ \A t \in Thread : Len(stack[t]) <= 3 /\ \A i \in DOMAIN stack[t] : stack[t][i] \in Frame
  /\ made \in [Property -> Nat] /\ fails \in 0..MaxFails /\ busy \in BOOLEAN
  /\ client \in {"open", "closed", "failed", "gone"}
  /\ Len(lines) <= MaxLines /\ taken \in 0..Len(lines)
  /\ line \in {"none", "text", "blank", "end", "error"}
  /\ reader \in {"run", "ended", "crashed"} /\ writer \in {"idle", "write", "ended", "crashed"}
  /\ session \in {"running", "returned", "raised"} /\ group \in {"open", "left", "crashed"}
  /\ sent \in 0..MaxReplies /\ Len(pipe) <= PipeSize

(* However many threads read the properties of App, and whatever raises    *)
(* meanwhile, there is one pool (one set of kernels), one context with it, *)
(* one MCP server, and nothing is served before all three are there        *)
(* (server.py:59-89).                                                      *)
OneOfEach ==
  /\ \A f \in Property : made[f] <= 1
  /\ \A f \in DOMAIN Needs : made[f] > 0 => made[Needs[f]] > 0
  /\ Serving => made["mcp"] > 0

(* What the pool and the calls take for granted of their parameters.       *)
ParametersReady ==
  /\ PoolSize(config.kernel) \in Nat \ {0}
  /\ MinIdle(config.kernel) \in 1..PoolSize(config.kernel)
  /\ config.kernel.mathkernel \in {"", KernelPath(config.kernel.mathkernel)}
  /\ {config.kernel.hard_timeout, config.kernel.max_result_size} \subseteq Nat
  /\ \A r \in DOMAIN Runtimes(config) :
       {Runtimes(config)[r].hard, Runtimes(config)[r].size} \subseteq Nat

(* Every client that can log in has a runtime, every role its tools.       *)
RolesReady ==
  /\ \A c \in DOMAIN config.auth.clients : config.auth.clients[c].role \in DOMAIN Runtimes(config)
  /\ \A r \in DOMAIN Runtimes(config) : Runtimes(config)[r].tools \cap Tool \subseteq Bound(config)

(* A file that asks for authentication is not served over HTTP without.    *)
Guarded ==
  phase = "http" =>
    /\ Get(Section(source, "auth"), "enabled", FALSE) => guard = "clients"
    /\ Get(Section(source, "server"), "auth_token_env", "") # "" => guard # "none"

(* What passes a filter that a policy of this mode asked for, by its short *)
(* name: nothing extra_blocked; of the dangerous groups nothing, but for a *)
(* blacklist with a list of groups that leaves one of them out (a list that*)
(* is missing or empty does not); and with a whitelist only what its groups*)
(* or extra_allowed have.                                                  *)
Keeps(filter, mode, policy) ==
  \A s \in DOMAIN Short :
    Passes(filter, {s}) =>
      /\ Short[s] \notin policy.extra_blocked
      /\ Short[s] \in Resolve(Groups, Dangerous) =>
           /\ mode = "blacklist" /\ policy.deny_groups # {}
           /\ ~ Dangerous \subseteq policy.deny_groups
      /\ mode = "whitelist" =>
           Short[s] \in Resolve(Groups, OrDefault(policy.allow_groups, Safe))
                           \cup policy.extra_allowed

(* So are filtered callers without a role, and every role: by the section  *)
(* [security] if it names no policy of its own, not at all if that is      *)
(* "none".                                                                 *)
FilteredAsAsked ==
  /\ Keeps(ContextFilter(config), config.security.mode, config.security)
  /\ \A r \in DOMAIN config.auth.roles :
       LET role   == config.auth.roles[r]
           filter == Runtimes(config)[r].filter IN
       /\ role.security = "" => Keeps(filter, config.security.mode, config.security)
       /\ role.security \notin {"", "none"} => Keeps(filter, role.security, role)

(* The file that init writes means what no file means, but for the tools.  *)
GeneratedMeansDefaults ==
  source = Generated => [config EXCEPT !.tools = ToolsDefaults] = Loaded(Empty)

(* A server that runs has the parameters, runtimes and tools that the rest *)
(* of the program rests on, the guard its file asks for, and filters that  *)
(* let nothing pass which the policies in the file forbid, whichever       *)
(* sections and keys are missing, empty or in conflict (config.py:183-383, *)
(* server.py:94-218, pool.py:57-58, registry.py:107-150).                  *)
AsConfigured ==
  Serving =>
    /\ ParametersReady /\ RolesReady /\ Guarded /\ FilteredAsAsked
    /\ GeneratedMeansDefaults

(* A read of a property ends: the threads do not wait for each other in a  *)
(* circle, nor a thread for itself, although making one property reads the *)
(* next under the same lock (server.py:57, 62-88).                         *)
AccessReturns == \A t \in Thread : stack[t] # << >> ~> stack[t] = << >>

-----------------------------------------------------------------------------
(* The transport.                                                          *)

(* The numbers of the lines that are not blank, among the first n.         *)
Texts(ls) ==
  LET T[n \in Nat] ==
        IF n = 0 THEN << >>
        ELSE IF n <= Len(ls) /\ ls[n] = "text" THEN Append(T[n - 1], n) ELSE T[n - 1]
  IN  T
Text == Texts(lines)[Len(lines)]

InboundState ==
  IF reader = "ended" THEN IF line = "error" THEN "broken" ELSE "ended"
  ELSE IF reader = "crashed" \/ group = "crashed" THEN "broken" ELSE "open"

OutboundState ==
  IF client = "gone" \/ group = "crashed" THEN "broken"
  ELSE IF group = "left" /\ pipe = << >> THEN "ended" ELSE "open"

Inbound  == INSTANCE LineChannel WITH
  Message <- 1..MaxLines, sent <- Text, delivered <- inbox, state <- InboundState
Outbound == INSTANCE LineChannel WITH
  Message <- 1..MaxReplies, sent <- [i \in 1..sent |-> i], delivered <- outbox,
  state <- OutboundState

(* Every line that is not blank reaches the session, and every message of  *)
(* the session the client, once and in order, and neither is told of the   *)
(* end before it has everything (stdio_transport.py:52-82).                *)
Delivery == Inbound!Spec /\ Outbound!Spec

(* When the client has closed its end, or is gone, or stdin fails, the     *)
(* process ends, whatever the reader, the writer and the session were at   *)
(* (stdio_transport.py:60-65, 84-87) - if the jobs of its calls do: one    *)
(* that hangs, which nothing prevents (evaluate.py:34), keeps it alive.    *)
TransportEnds == []<>~busy => (phase = "stdio" /\ client # "open" ~> phase = "stopped")
=============================================================================
