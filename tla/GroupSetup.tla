----------------------------- MODULE GroupSetup -----------------------------
(***************************************************************************)
(* The symbol groups on disk: `mma-mcp setup` (src/mma_mcp/setup_groups.py *)
(* and _cmd_setup in server.py), which classifies the symbols of the local *)
(* kernel and rewrites one file per group, and the server that reads the   *)
(* files when it starts (CapabilityRegistry).  They are two processes and  *)
(* nothing is locked: a setup may be killed anywhere, and a server may     *)
(* start in the middle of one.                                             *)
(***************************************************************************)
EXTENDS Naturals, Sequences, SecurityPolicy

CONSTANTS
  Symbol,       \* names of symbols, with a context or without
  GroupNames,   \* the names in MANIFEST, in the order of sorted()
  Dangerous,    \* those whose "dangerous" is True
  Seed,         \* SAFE_SEEDS and DANGEROUS_SEEDS: the symbols of each group
  Missing, Torn,
  MaxSetups     \* bound: how often setup is run

Group == {GroupNames[i] : i \in DOMAIN GroupNames}
Safe  == Group \ Dangerous

ASSUME GroupAssumption ==
  /\ Short \in [Symbol -> Symbol]
  /\ GroupNames \in Seq(Group)
  /\ \A i, j \in DOMAIN GroupNames : GroupNames[i] = GroupNames[j] => i = j
  /\ Dangerous \subseteq Group
  /\ Seed \in [Group -> SUBSET Symbol]
  /\ Missing # Torn /\ \A S \in SUBSET Symbol : S \notin {Missing, Torn}
  /\ MaxSetups \in Nat

VARIABLES
  files,     \* of each group: its symbols, Missing, or Torn while unparsable
  manifest,  \* manifest.json exists
  setup,     \* where run_setup is
  class,     \* what _classify_symbols returned in the last run
  old,       \* the files that are still to be unlinked
  next,      \* the index of the group to be written next
  clean,     \* history: no forced setup has been cut short since one ended
  setups,    \* how often setup was run
  reading,   \* the index of the file the server reads next, 0 if none
  listed,    \* the files that its glob has found
  loaded,    \* _groups, complete when reading is past the last index
  steady     \* history: it began on clean files and no setup has run since

setupVars  == <<files, manifest, setup, class, old, next, clean, setups>>
serverVars == <<reading, listed, loaded, steady>>
vars == <<setupVars, serverVars>>

Present == {g \in Group : files[g] # Missing}
Last    == Len(GroupNames)

-----------------------------------------------------------------------------
(* _classify_symbols                                                       *)

(* What the areas of the symbols say, by short name, and the seeds, as     *)
(* they are written.                                                       *)
Classified(areas) ==
  [g \in Group |-> {Short[s] : s \in {t \in Symbol : g \in areas[t]}} \cup Seed[g]]

(* A mutant: the dangerous symbols are collected before the seeds are added*)
ClassifySeedsLast(areas) ==
  LET dangerous == {Short[s] : s \in {t \in Symbol : areas[t] \cap Dangerous # {}}} IN
  [g \in Group |-> IF g \in Safe THEN Classified(areas)[g] \ dangerous
                                 ELSE Classified(areas)[g]]

(* No symbol of a dangerous group stays in a safe one. *)
Classify(areas) ==
  LET dangerous == UNION {Classified(areas)[g] : g \in Dangerous} IN
  [g \in Group |-> IF g \in Safe THEN Classified(areas)[g] \ dangerous
                                 ELSE Classified(areas)[g]]

-----------------------------------------------------------------------------
(* run_setup                                                               *)

Init ==
  /\ files = [g \in Group |-> Missing] /\ manifest = FALSE
  /\ setup = "off"
  /\ class = [g \in Group |-> {}]
  /\ old = {} /\ next = 1
  /\ clean = TRUE
  /\ setups = 0
  /\ reading = 0 /\ listed = {} /\ loaded = << >> /\ steady = FALSE

(* A mutant: the old files are kept. *)
NoFiles == {}
OldFiles == Present

(* Without --force only if there is no manifest.  The kernel that is asked *)
(* is the one installed now; a symbol whose batch fails has no areas.      *)
SetupBegins(force) ==
  /\ setup = "off" /\ setups < MaxSetups
  /\ force \/ ~manifest
  /\ \E areas \in [Symbol -> SUBSET Group] : class' = Classify(areas)
  /\ setup' = "remove"
  /\ old' = OldFiles /\ next' = 1
  /\ clean' = (clean /\ ~manifest)
  /\ setups' = setups + 1
  /\ steady' = FALSE
  /\ UNCHANGED <<files, manifest, reading, listed, loaded>>

RemoveOld ==
  /\ setup = "remove"
  /\ \E g \in old : /\ files' = [files EXCEPT ![g] = Missing]
                    /\ old' = old \ {g}
  /\ UNCHANGED <<manifest, setup, class, next, clean, setups, serverVars>>

AllRemoved ==
  /\ setup = "remove" /\ old = {}
  /\ setup' = "write"
  /\ UNCHANGED <<files, manifest, class, old, next, clean, setups, serverVars>>

(* _write_group: opening the file truncates it, closing it completes it.   *)
(* Groups without symbols are not written.                                 *)
OpenGroup ==
  /\ setup = "write" /\ next <= Last
  /\ LET g == GroupNames[next] IN
     IF class[g] = {} THEN next' = next + 1 /\ UNCHANGED <<files, setup>>
     ELSE /\ files' = [files EXCEPT ![g] = Torn]
          /\ setup' = "flush"
          /\ UNCHANGED next
  /\ UNCHANGED <<manifest, class, old, clean, setups, serverVars>>

CloseGroup ==
  /\ setup = "flush"
  /\ LET g == GroupNames[next] IN files' = [files EXCEPT ![g] = class[g]]
  /\ setup' = "write" /\ next' = next + 1
  /\ UNCHANGED <<manifest, class, old, clean, setups, serverVars>>

WriteManifest ==
  /\ setup = "write" /\ next > Last
  /\ manifest' = TRUE
  /\ setup' = "off" /\ clean' = TRUE
  /\ UNCHANGED <<files, class, old, next, setups, serverVars>>

(* The process is killed; what is on disk stays as it is. *)
SetupKilled ==
  /\ setup # "off"
  /\ setup' = "off"
  /\ UNCHANGED <<files, manifest, class, old, next, clean, setups, serverVars>>

-----------------------------------------------------------------------------
(* CapabilityRegistry._load_groups                                         *)

LoadBegins ==
  /\ reading \in {0, Last + 1}
  /\ reading' = 1 /\ listed' = Present
  /\ loaded' = << >>
  /\ steady' = (manifest /\ clean /\ setup = "off")
  /\ UNCHANGED setupVars

Extended(f, g, x) == [h \in DOMAIN f \cup {g} |-> IF h = g THEN x ELSE f[h]]

(* A mutant: half a file is taken for the group. *)
ParsesTorn(g) == files[g] # Missing
Parses(g) == files[g] \notin {Missing, Torn}

(* A file that is gone by now, or cannot be parsed, is logged and skipped. *)
LoadOne ==
  /\ reading \in 1..Last
  /\ LET g == GroupNames[reading] IN
     loaded' = IF g \in listed /\ Parses(g)
               THEN Extended(loaded, g, files[g]) ELSE loaded
  /\ reading' = reading + 1
  /\ UNCHANGED <<setupVars, listed, steady>>

Next ==
  \/ \E force \in BOOLEAN : SetupBegins(force)
  \/ RemoveOld \/ AllRemoved \/ OpenGroup \/ CloseGroup \/ WriteManifest
  \/ SetupKilled
  \/ LoadBegins \/ LoadOne

Spec == Init /\ [][Next]_vars
-----------------------------------------------------------------------------
(* Properties                                                              *)

Serving == reading = Last + 1

(* Every variable keeps its type: the files, and what the server has read. *)
TypeOK ==
  /\ files \in [Group -> {Missing, Torn} \cup SUBSET Symbol]
  /\ manifest \in BOOLEAN /\ clean \in BOOLEAN /\ steady \in BOOLEAN
  /\ setup \in {"off", "remove", "write", "flush"}
  /\ class \in [Group -> SUBSET Symbol]
  /\ old \subseteq Group /\ next \in 1..(Last + 1)
  /\ setups \in 0..MaxSetups
  /\ reading \in 0..(Last + 1) /\ listed \subseteq Group
  /\ DOMAIN loaded \subseteq Group
  /\ \A g \in DOMAIN loaded : loaded[g] # Torn /\ loaded[g] \subseteq Symbol

(* What a [security] section may say: any group can be on either list.     *)
Sections == [deny_groups : SUBSET Group, allow_groups : SUBSET Group,
             extra_blocked : SUBSET Symbol, extra_allowed : SUBSET Symbol]
Blacklist(sec) == BlacklistFilter(loaded, sec, Dangerous)
Whitelist(sec) == WhitelistFilter(loaded, sec, Dangerous, Safe)

DangerousSeeds == UNION {Seed[g] : g \in Dangerous}

(* "Add hard-coded dangerous seeds (always, regardless of WLD)"            *)
(* (setup_groups.py:600): however many setups were killed, whatever kernel *)
(* answered what, and although files are missing or come from two runs, a  *)
(* whitelist lets no name pass whose short name is a dangerous seed, in    *)
(* whatever context it is written, unless extra_allowed has that seed.     *)
SeedsNotWhitelisted ==
  Serving => \A sec \in Sections, s \in Symbol :
               Short[s] \in DangerousSeeds /\ Passes(Whitelist(sec), {s}) =>
                 Short[s] \in sec.extra_allowed

(* manifest.json is taken for the sign that the groups exist               *)
(* (server.py:363-366), and it is: it is written last, and unless a forced *)
(* setup was cut short the files are those of one run, none left over from *)
(* an earlier one.                                                         *)
ManifestMeansComplete ==
  manifest /\ clean /\ setup = "off" =>
    files = [g \in Group |-> IF class[g] = {} THEN Missing ELSE class[g]]

(* A server that starts on such files, while no setup runs, filters as the *)
(* classification says: the default blacklist stops exactly the names      *)
(* whose short name is classified dangerous, in whatever context they are  *)
(* written, and no whitelist lets one pass, nor one that is extra_blocked, *)
(* extra_allowed or not ("extra_blocked always wins", registry.py:145).  A *)
(* seed that is classified with its context (setup_groups.py:412) is       *)
(* therefore no short name, and stops nothing.                             *)
FiltersFollowClassification ==
  Serving /\ steady =>
    LET dangerous == UNION {class[g] : g \in Dangerous} IN
    \A sec \in Sections, s \in Symbol :
      /\ sec.deny_groups = {} /\ sec.extra_blocked = {} =>
           (Passes(Blacklist(sec), {s}) <=> Short[s] \notin dangerous)
      /\ Passes(Whitelist(sec), {s}) => Short[s] \notin dangerous \cup sec.extra_blocked
=============================================================================
