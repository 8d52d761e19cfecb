-------------------------- MODULE GroupSetup_proofs --------------------------
(***************************************************************************)
(* Proofs about GroupSetup: for any groups, symbols and seeds, and any     *)
(* number of setups killed anywhere, what manifest.json stands for and     *)
(* what a server that reads the files lets pass.                           *)
(***************************************************************************)
EXTENDS GroupSetup, TLAPS

(* The helpers of one line are expanded everywhere. *)
USE DEF OldFiles, Parses

LEMMA GroupFacts ==
  /\ Last \in Nat /\ DOMAIN GroupNames = 1..Last
  /\ \A i \in 1..Last : GroupNames[i] \in Group
  /\ \A i, j \in 1..Last : GroupNames[i] = GroupNames[j] => i = j
  /\ \A g \in Group : \E i \in 1..Last : g = GroupNames[i]
  /\ Dangerous \subseteq Group /\ Safe \subseteq Group /\ Safe \cap Dangerous = {}
  <1>1. Last \in Nat /\ DOMAIN GroupNames = 1..Last
    BY GroupAssumption DEF Last
  <1> QED
    BY <1>1, GroupAssumption DEF Group, Safe

(* Whatever the areas say, classifying gives sets of symbols, and no       *)
(* dangerous seed is left in a safe group.                                 *)
LEMMA Classification ==
  ASSUME NEW areas \in [Symbol -> SUBSET Group]
  PROVE  /\ Classify(areas) \in [Group -> SUBSET Symbol]
         /\ \A g \in Safe : Classify(areas)[g] \cap DangerousSeeds = {}
  <1> DEFINE C == Classified(areas)
             D == UNION {C[g] : g \in Dangerous}
  <1>1. C \in [Group -> SUBSET Symbol] /\ \A g \in Group : Seed[g] \subseteq C[g]
    BY GroupAssumption DEF Classified
  <1>2. DangerousSeeds \subseteq D
    BY <1>1, GroupFacts DEF DangerousSeeds
  <1>3. Classify(areas) = [g \in Group |-> IF g \in Safe THEN C[g] \ D ELSE C[g]]
    BY DEF Classify
  <1> HIDE DEF C, D
  <1>4. Classify(areas) \in [Group -> SUBSET Symbol]
    BY <1>1, <1>3
  <1>5. \A g \in Safe : Classify(areas)[g] = C[g] \ D
    BY <1>3, GroupFacts
  <1> QED
    BY <1>2, <1>4, <1>5

-----------------------------------------------------------------------------
(* A file is open only while there is one to be written. *)
TypeInv == TypeOK /\ (setup = "flush" => next <= Last)

LEMMA InitType == Init => TypeInv
  <1> SUFFICES ASSUME Init PROVE TypeInv
    OBVIOUS
  <1>1. DOMAIN loaded = {}
    BY DEF Init
  <1>2. /\ files \in [Group -> {Missing, Torn} \cup SUBSET Symbol]
        /\ class \in [Group -> SUBSET Symbol]
    BY DEF Init
  <1>3. setups \in 0..MaxSetups /\ next \in 1..(Last + 1) /\ reading \in 0..(Last + 1)
    BY GroupFacts, GroupAssumption DEF Init
  <1> QED
    BY <1>1, <1>2, <1>3 DEF Init, TypeOK, TypeInv

LEMMA NextType == TypeInv /\ [Next]_vars => TypeInv'
  <1> SUFFICES ASSUME TypeOK, setup = "flush" => next <= Last, [Next]_vars PROVE TypeInv'
    BY DEF TypeInv
  <1>1. ASSUME NEW force \in BOOLEAN, SetupBegins(force) PROVE TypeInv'
    <2>1. class' \in [Group -> SUBSET Symbol]
      BY <1>1, Classification DEF SetupBegins
    <2>2. setups' \in 0..MaxSetups /\ next' \in 1..(Last + 1) /\ old' \subseteq Group
      BY <1>1, GroupFacts, GroupAssumption DEF SetupBegins, TypeOK, Present
    <2> QED
      BY <1>1, <2>1, <2>2 DEF SetupBegins, TypeOK, TypeInv
  <1>2. CASE RemoveOld
    BY <1>2 DEF RemoveOld, TypeOK, TypeInv, serverVars
  <1>3. CASE AllRemoved \/ WriteManifest \/ SetupKilled
    BY <1>3 DEF AllRemoved, WriteManifest, SetupKilled, TypeOK, TypeInv, serverVars
  <1>4. CASE OpenGroup
    BY <1>4, GroupFacts DEF OpenGroup, TypeOK, TypeInv, serverVars
  <1>5. CASE CloseGroup
    BY <1>5, GroupFacts DEF CloseGroup, TypeOK, TypeInv, serverVars
  <1>6. CASE LoadBegins
    BY <1>6, GroupFacts DEF LoadBegins, TypeOK, TypeInv, setupVars, Present
  <1>7. CASE LoadOne
    <2> DEFINE g == GroupNames[reading]
    <2>1. reading \in 1..Last /\ g \in Group /\ reading' \in 0..(Last + 1)
      BY <1>7, GroupFacts DEF LoadOne
    <2>2. CASE Parses(g) /\ loaded' = Extended(loaded, g, files[g])
      <3>1. files[g] # Torn /\ files[g] \subseteq Symbol
        BY <2>1, <2>2 DEF TypeOK
      <3>2. /\ DOMAIN loaded' = DOMAIN loaded \cup {g}
            /\ \A h \in DOMAIN loaded' : loaded'[h] = IF h = g THEN files[g] ELSE loaded[h]
        BY <2>2 DEF Extended
      <3> QED
        BY <1>7, <2>1, <3>1, <3>2 DEF LoadOne, TypeOK, TypeInv, setupVars
    <2>3. CASE loaded' = loaded
      BY <1>7, <2>1, <2>3 DEF LoadOne, TypeOK, TypeInv, setupVars
    <2> QED
      BY <1>7, <2>2, <2>3 DEF LoadOne
  <1>8. CASE UNCHANGED vars
    BY <1>8 DEF vars, setupVars, serverVars, TypeOK, TypeInv
  <1> QED
    BY <1>1, <1>2, <1>3, <1>4, <1>5, <1>6, <1>7, <1>8 DEF Next

(* The files and what the server has read keep their types, however setup  *)
(* and server interleave and wherever setup is killed.                     *)
THEOREM TypeCorrect == Spec => []TypeOK
  <1>1. TypeInv => TypeOK
    BY DEF TypeInv
  <1> QED
    BY <1>1, InitType, NextType, PTL DEF Spec
-----------------------------------------------------------------------------
(* No dangerous seed is in a safe group: not in the classification, not in *)
(* a file, whichever run wrote it, and not in what the server has read.    *)
SeedInv ==
  \A g \in Safe :
    /\ class[g] \cap DangerousSeeds = {}
    /\ Parses(g) => files[g] \cap DangerousSeeds = {}
    /\ g \in DOMAIN loaded => loaded[g] \cap DangerousSeeds = {}

LEMMA NextSeed == TypeInv /\ SeedInv /\ [Next]_vars => SeedInv'
  <1> SUFFICES ASSUME TypeInv, SeedInv, [Next]_vars PROVE SeedInv'
    OBVIOUS
  <1> DEFINE Same == UNCHANGED <<class, files, loaded>>
  <1>1. Same => SeedInv'
    BY DEF SeedInv
  <1>2. ASSUME NEW force \in BOOLEAN, SetupBegins(force) PROVE SeedInv'
    <2>1. \A g \in Safe : class'[g] \cap DangerousSeeds = {}
      BY <1>2, Classification DEF SetupBegins
    <2> QED
      BY <1>2, <2>1 DEF SetupBegins, SeedInv
  <1>3. ASSUME NEW h \in Group, NEW x \in {Missing, Torn, class[h]},
               files' = [files EXCEPT ![h] = x], UNCHANGED <<class, loaded>>
        PROVE  SeedInv'
    <2>1. \A g \in Safe : files'[g] = IF g = h THEN x ELSE files[g]
      BY <1>3, GroupFacts DEF TypeInv, TypeOK
    <2> QED
      BY <1>3, <2>1 DEF SeedInv
  <1>4. CASE RemoveOld
    BY <1>3, <1>4 DEF RemoveOld, serverVars, TypeInv, TypeOK
  <1>5. CASE OpenGroup
    <2>1. GroupNames[next] \in Group
      BY <1>5, GroupFacts DEF OpenGroup, TypeInv, TypeOK
    <2> QED
      BY <1>1, <1>3, <1>5, <2>1 DEF OpenGroup, serverVars
  <1>6. CASE CloseGroup
    <2>1. GroupNames[next] \in Group
      BY <1>6, GroupFacts DEF CloseGroup, TypeInv, TypeOK
    <2> QED
      BY <1>3, <1>6, <2>1 DEF CloseGroup, serverVars
  <1>7. CASE AllRemoved \/ WriteManifest \/ SetupKilled
    BY <1>1, <1>7 DEF AllRemoved, WriteManifest, SetupKilled, serverVars
  <1>8. CASE LoadBegins
    <2>1. DOMAIN loaded' = {}
      BY <1>8 DEF LoadBegins
    <2> QED
      BY <1>8, <2>1 DEF LoadBegins, setupVars, SeedInv
  <1>9. CASE LoadOne
    <2> DEFINE h == GroupNames[reading]
    <2>1. CASE Parses(h) /\ loaded' = Extended(loaded, h, files[h])
      <3>1. /\ DOMAIN loaded' = DOMAIN loaded \cup {h}
            /\ \A g \in DOMAIN loaded' : loaded'[g] = IF g = h THEN files[h] ELSE loaded[g]
        BY <2>1 DEF Extended
      <3> QED
        BY <1>9, <2>1, <3>1 DEF LoadOne, setupVars, SeedInv
    <2>2. CASE loaded' = loaded
      BY <1>1, <1>9, <2>2 DEF LoadOne, setupVars
    <2> QED
      BY <1>9, <2>1, <2>2 DEF LoadOne
  <1>10. CASE UNCHANGED vars
    BY <1>1, <1>10 DEF vars, setupVars, serverVars
  <1> QED
    BY <1>2, <1>4, <1>5, <1>6, <1>7, <1>8, <1>9, <1>10 DEF Next

(* What passes a whitelist and the default blacklist, by its short name.   *)
LEMMA WhitelistPasses ==
  ASSUME NEW sec, NEW s, Passes(Whitelist(sec), {s})
  PROVE  /\ Short[s] \in Resolve(loaded, OrDefault(sec.allow_groups, Safe)) \cup sec.extra_allowed
         /\ Short[s] \notin Resolve(loaded, Dangerous) \cup sec.extra_blocked
  <1>1. Whitelist(sec).mode # "blacklist" /\ Symbols({s}) = {Short[s]}
    BY DEF Whitelist, WhitelistFilter, Filter, Symbols
  <1>2. Short[s] \in Whitelist(sec).policy
    BY <1>1 DEF Passes
  <1> QED
    BY <1>2 DEF Whitelist, WhitelistFilter, Filter

LEMMA BlacklistPasses ==
  ASSUME NEW sec, sec.deny_groups = {}, sec.extra_blocked = {}, NEW s
  PROVE  Passes(Blacklist(sec), {s}) <=> Short[s] \notin Resolve(loaded, Dangerous)
  <1>1. Blacklist(sec) = [mode |-> "blacklist", policy |-> Resolve(loaded, Dangerous) \cup sec.extra_blocked]
    BY DEF Blacklist, BlacklistFilter, Filter, OrDefault
  <1>2. Symbols({s}) = {Short[s]}
    BY DEF Symbols
  <1> QED
    BY <1>1, <1>2 DEF Passes

(* "Add hard-coded dangerous seeds (always, regardless of WLD)"            *)
(* (setup_groups.py:600): no whitelist that a [security] section can ask   *)
(* for lets a name pass, in whatever context, whose short name is a        *)
(* dangerous seed that extra_allowed does not have, however many setups    *)
(* were killed and whatever the kernels answered.                          *)
THEOREM SeedsStayOut == Spec => []SeedsNotWhitelisted
  <1>1. Init => SeedInv
    BY GroupFacts DEF Init, SeedInv
  <1>2. SeedInv => SeedsNotWhitelisted
    <2> SUFFICES ASSUME SeedInv, NEW sec \in Sections, NEW s \in Symbol, Short[s] \in DangerousSeeds,
                        Passes(Whitelist(sec), {s}), Short[s] \notin sec.extra_allowed
                 PROVE  FALSE
      BY DEF SeedsNotWhitelisted
    <2> DEFINE names == OrDefault(sec.allow_groups, Safe)
    <2>1. names \subseteq Group
      BY GroupFacts DEF OrDefault, Sections
    <2>2. Short[s] \in Resolve(loaded, names) /\ Short[s] \notin Resolve(loaded, Dangerous)
      BY WhitelistPasses
    <2>3. PICK g \in names \cap DOMAIN loaded : Short[s] \in loaded[g]
      BY <2>2 DEF Resolve
    <2>4. g \notin Dangerous
      BY <2>2, <2>3 DEF Resolve
    <2> QED
      BY <2>1, <2>3, <2>4 DEF SeedInv, Safe
  <1> QED
    BY <1>1, <1>2, InitType, NextType, NextSeed, PTL DEF Spec
-----------------------------------------------------------------------------
(* Where a run of setup is, and what has become of the files by then. *)
Written(g) == IF class[g] = {} THEN Missing ELSE class[g]
UpTo(i)    == IF i < next THEN Written(GroupNames[i]) ELSE Missing
Complete   == \A g \in Group : files[g] = Written(g)

SetupInv ==
  /\ manifest /\ clean => setup = "off" /\ Complete
  /\ setup = "remove" => next = 1 /\ \A g \in Group \ old : files[g] = Missing
  /\ setup = "write" => \A i \in 1..Last : files[GroupNames[i]] = UpTo(i)
  /\ setup = "flush" => /\ class[GroupNames[next]] # {}
                        /\ \A i \in 1..Last \ {next} : files[GroupNames[i]] = UpTo(i)

LEMMA NextSetup == TypeInv /\ SetupInv /\ [Next]_vars => SetupInv'
  <1> SUFFICES ASSUME TypeInv, SetupInv, [Next]_vars PROVE SetupInv'
    OBVIOUS
  <1>1. next \in 1..(Last + 1) /\ Last \in Nat /\ \A i \in 1..Last : GroupNames[i] \in Group
    BY GroupFacts DEF TypeInv, TypeOK
  <1>2. ASSUME NEW force \in BOOLEAN, SetupBegins(force) PROVE SetupInv'
    <2>1. \A g \in Group \ old' : files'[g] = Missing
      BY <1>2 DEF SetupBegins, Present
    <2> QED
      BY <1>2, <2>1 DEF SetupBegins, SetupInv
  <1>3. CASE RemoveOld
    <2>1. PICK g \in old : files' = [files EXCEPT ![g] = Missing] /\ old' = old \ {g}
      BY <1>3 DEF RemoveOld
    <2>2. \A h \in Group \ old' : files'[h] = Missing
      BY <1>3, <2>1 DEF RemoveOld, SetupInv, TypeInv, TypeOK
    <2> QED
      BY <1>3, <2>2 DEF RemoveOld, SetupInv
  <1>4. CASE AllRemoved
    BY <1>1, <1>4 DEF AllRemoved, SetupInv, UpTo
  <1>5. CASE OpenGroup
    <2> DEFINE g == GroupNames[next]
    <2>1. next \in 1..Last /\ g \in Group
      BY <1>1, <1>5 DEF OpenGroup
    <2>2. ~(manifest' /\ clean')
      BY <1>5 DEF OpenGroup, SetupInv
    <2>3. CASE class[g] = {}
      <3>1. next' = next + 1 /\ UNCHANGED <<files, setup, class>>
        BY <1>5, <2>3 DEF OpenGroup
      <3>2. \A i \in 1..Last : UpTo(i)' = UpTo(i)
        BY <1>1, <2>3, <3>1 DEF UpTo, Written
      <3> QED
        BY <1>5, <2>2, <3>1, <3>2 DEF OpenGroup, SetupInv
    <2>4. CASE class[g] # {}
      <3>1. files' = [files EXCEPT ![g] = Torn] /\ setup' = "flush" /\ UNCHANGED <<next, class>>
        BY <1>5, <2>4 DEF OpenGroup
      <3>2. \A i \in 1..Last \ {next} : files'[GroupNames[i]] = files[GroupNames[i]]
        BY <2>1, <3>1, GroupFacts DEF TypeInv, TypeOK
      <3>3. \A i \in 1..Last : UpTo(i)' = UpTo(i)
        BY <3>1 DEF UpTo, Written
      <3> QED
        BY <1>5, <2>2, <2>4, <3>1, <3>2, <3>3 DEF OpenGroup, SetupInv
    <2> QED
      BY <2>3, <2>4
  <1>6. CASE CloseGroup
    <2> DEFINE g == GroupNames[next]
    <2>1. next \in 1..Last /\ g \in Group
      BY <1>1, <1>6 DEF CloseGroup, TypeInv
    <2>2. ~(manifest' /\ clean') /\ class[g] # {}
      BY <1>6 DEF CloseGroup, SetupInv
    <2>3. files' = [files EXCEPT ![g] = class[g]] /\ next' = next + 1 /\ class' = class
      BY <1>6 DEF CloseGroup
    <2>4. \A i \in 1..Last : files'[GroupNames[i]] = IF i = next THEN class[g] ELSE files[GroupNames[i]]
      BY <2>1, <2>3, GroupFacts DEF TypeInv, TypeOK
    <2>5. \A i \in 1..Last : UpTo(i)' = IF i = next THEN class[g] ELSE UpTo(i)
      BY <2>1, <2>2, <2>3 DEF UpTo, Written
    <2>6. \A i \in 1..Last : files'[GroupNames[i]] = UpTo(i)'
      BY <1>6, <2>4, <2>5 DEF CloseGroup, SetupInv
    <2> QED
      BY <1>6, <2>2, <2>6 DEF CloseGroup, SetupInv
  <1>7. CASE WriteManifest
    <2>1. \A i \in 1..Last : files[GroupNames[i]] = Written(GroupNames[i])
      BY <1>1, <1>7 DEF WriteManifest, SetupInv, UpTo
    <2>2. Complete'
      BY <1>7, <2>1, GroupFacts DEF WriteManifest, Complete, Written
    <2> QED
      BY <1>7, <2>2 DEF WriteManifest, SetupInv
  <1>8. CASE SetupKilled
    BY <1>8 DEF SetupKilled, SetupInv
  <1>9. CASE UNCHANGED setupVars
    BY <1>9 DEF setupVars, SetupInv, Complete, UpTo, Written
  <1> QED
    BY <1>2, <1>3, <1>4, <1>5, <1>6, <1>7, <1>8, <1>9
       DEF Next, LoadBegins, LoadOne, vars

(* manifest.json is taken for the sign that the groups exist               *)
(* (server.py:363-366): unless a forced setup was cut short, the files are *)
(* those of the last run that ended, all of them and no others.            *)
THEOREM ManifestIsSign == Spec => []ManifestMeansComplete
  <1>1. Init => SetupInv
    BY DEF Init, SetupInv
  <1>2. TypeInv /\ SetupInv => ManifestMeansComplete
    BY DEF TypeInv, TypeOK, SetupInv, Complete, Written, ManifestMeansComplete
  <1> QED
    BY <1>1, <1>2, InitType, NextType, NextSetup, PTL DEF Spec
-----------------------------------------------------------------------------
(* A server that began on complete files, while no setup has run since:    *)
(* what it has read is the classification.                                 *)
ServerInv ==
  steady =>
    /\ manifest /\ clean /\ listed = Present /\ reading \in 1..(Last + 1)
    /\ \A g \in DOMAIN loaded : loaded[g] = class[g]
    /\ \A i \in 1..Last : i < reading /\ class[GroupNames[i]] # {} =>
                            GroupNames[i] \in DOMAIN loaded

LEMMA NextServer == TypeInv /\ SetupInv /\ ServerInv /\ [Next]_vars => ServerInv'
  <1> SUFFICES ASSUME TypeInv, SetupInv, ServerInv, [Next]_vars, steady' PROVE ServerInv'
    BY DEF ServerInv
  <1>1. CASE \E force \in BOOLEAN : SetupBegins(force)
    BY <1>1 DEF SetupBegins
  <1>2. CASE RemoveOld \/ AllRemoved \/ OpenGroup \/ CloseGroup \/ WriteManifest \/ SetupKilled
    BY <1>2 DEF RemoveOld, AllRemoved, OpenGroup, CloseGroup, WriteManifest, SetupKilled,
                serverVars, ServerInv, SetupInv
  <1>3. CASE LoadBegins
    <2>1. DOMAIN loaded' = {}
      BY <1>3 DEF LoadBegins
    <2>2. reading' = 1 /\ 1 \in 1..(Last + 1) /\ \A i \in 1..Last : ~(i < reading')
      BY <1>3, GroupFacts DEF LoadBegins
    <2>3. manifest' /\ clean' /\ listed' = Present'
      BY <1>3 DEF LoadBegins, setupVars, Present
    <2>4. Last' = Last
      BY DEF Last
    <2> QED
      BY <2>1, <2>2, <2>3, <2>4 DEF ServerInv
  <1>4. CASE LoadOne
    <2> DEFINE g == GroupNames[reading]
    <2>1. /\ reading \in 1..Last /\ reading' = reading + 1 /\ g \in Group
          /\ reading' \in 1..(Last + 1)
      BY <1>4, GroupFacts DEF LoadOne
    <2>2. steady /\ UNCHANGED <<setupVars, listed>> /\ Present' = Present
      BY <1>4 DEF LoadOne, setupVars, Present
    <2>3. Complete /\ class \in [Group -> SUBSET Symbol]
      BY <2>2 DEF ServerInv, SetupInv, TypeInv, TypeOK
    <2>4. g \in listed /\ Parses(g) <=> class[g] # {}
      BY <2>1, <2>2, <2>3, GroupAssumption DEF ServerInv, Complete, Written, Present
    <2>5. CASE class[g] # {}
      <3>1. files[g] = class[g]
        BY <2>1, <2>3, <2>5 DEF Complete, Written
      <3>2. loaded' = Extended(loaded, g, class[g])
        BY <1>4, <2>4, <2>5, <3>1 DEF LoadOne
      <3>3. /\ DOMAIN loaded' = DOMAIN loaded \cup {g}
            /\ \A h \in DOMAIN loaded' : loaded'[h] = IF h = g THEN class[g] ELSE loaded[h]
        BY <3>2 DEF Extended
      <3>4. \A i \in 1..Last : i < reading' /\ class[GroupNames[i]] # {} =>
                                GroupNames[i] \in DOMAIN loaded'
        BY <2>1, <2>2, <3>3, GroupFacts DEF ServerInv
      <3> QED
        BY <2>1, <2>2, <3>3, <3>4 DEF ServerInv, setupVars
    <2>6. CASE class[g] = {}
      <3>1. loaded' = loaded
        BY <1>4, <2>4, <2>6 DEF LoadOne
      <3>2. \A i \in 1..Last : i < reading' /\ class[GroupNames[i]] # {} =>
                                GroupNames[i] \in DOMAIN loaded
        BY <2>1, <2>2, <2>6, GroupFacts DEF ServerInv
      <3> QED
        BY <2>1, <2>2, <2>6, <3>1, <3>2 DEF ServerInv, setupVars
    <2> QED
      BY <2>5, <2>6
  <1>5. CASE UNCHANGED vars
    BY <1>5 DEF vars, setupVars, serverVars, ServerInv, Present
  <1> QED
    BY <1>1, <1>2, <1>3, <1>4, <1>5 DEF Next

(* The filters of such a server follow the classification: the default     *)
(* blacklist stops exactly the names, in whatever context, whose short name*)
(* is classified dangerous, and no whitelist lets one of these or an       *)
(* extra_blocked one pass, whatever groups a [security] section lists      *)
(* (registry.py:106-145, filter.py:115-130).                               *)
THEOREM FiltersFollow == Spec => []FiltersFollowClassification
  <1>1. Init => SetupInv /\ ServerInv
    BY DEF Init, SetupInv, ServerInv
  <1>2. TypeInv /\ ServerInv => FiltersFollowClassification
    <2> DEFINE dangerous == UNION {class[g] : g \in Dangerous}
    <2> SUFFICES ASSUME TypeInv, ServerInv, Serving, steady,
                        NEW sec \in Sections, NEW s \in Symbol
                 PROVE  /\ sec.deny_groups = {} /\ sec.extra_blocked = {} =>
                              (Passes(Blacklist(sec), {s}) <=> Short[s] \notin dangerous)
                        /\ Passes(Whitelist(sec), {s}) => Short[s] \notin dangerous \cup sec.extra_blocked
      BY DEF FiltersFollowClassification
    <2>1. \A g \in Group : IF class[g] = {} THEN g \notin DOMAIN loaded \/ loaded[g] = {}
                                           ELSE g \in DOMAIN loaded /\ loaded[g] = class[g]
      BY GroupFacts DEF ServerInv, Serving
    <2>2. Resolve(loaded, Dangerous) = dangerous
      BY <2>1, GroupFacts DEF Resolve
    <2>3. Passes(Whitelist(sec), {s}) => Short[s] \notin Resolve(loaded, Dangerous) \cup sec.extra_blocked
      BY WhitelistPasses
    <2>4. sec.deny_groups = {} /\ sec.extra_blocked = {} =>
            (Passes(Blacklist(sec), {s}) <=> Short[s] \notin Resolve(loaded, Dangerous))
      BY BlacklistPasses
    <2> QED
      BY <2>2, <2>3, <2>4
  <1> QED
    BY <1>1, <1>2, InitType, NextType, NextSetup, NextServer, PTL DEF Spec
=============================================================================
