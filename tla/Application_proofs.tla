------------------------- MODULE Application_proofs -------------------------
(***************************************************************************)
(* Proofs about Application, for any threads, files and bounds.            *)
(***************************************************************************)
EXTENDS Application, NaturalsRecursion, SequenceTheorems, TLAPS

-----------------------------------------------------------------------------
(* The stack of a thread.                                                  *)

Rank == [pool |-> 1, ctx |-> 2, mcp |-> 3]

(* Every frame but the last is making what needs the next one.             *)
Nested(s) ==
  \A i \in 1..Len(s) :
    /\ i < Len(s) => /\ s[i].at = "make" /\ s[i].of \in DOMAIN Needs
                     /\ s[i + 1].of = Needs[s[i].of]
    /\ \A j \in (i + 1)..Len(s) : Rank[s[j].of] < Rank[s[i].of]

(* What is being made is not there yet, what it needs is or is being read. *)
Sound(s, m) ==
  /\ Nested(s)
  /\ \A i \in 1..Len(s) : s[i].at = "make" => m[s[i].of] = 0
  /\ s # << >> /\ s[Len(s)].at = "make" /\ s[Len(s)].of \in DOMAIN Needs =>
       m[Needs[s[Len(s)].of]] > 0

Counts == [Property -> 0..1]

LEMMA Ranks ==
  /\ DOMAIN Needs = {"ctx", "mcp"}
  /\ \A f \in DOMAIN Needs : f \in Property /\ Needs[f] \in Property /\ Rank[Needs[f]] < Rank[f]
  /\ \A f \in Property : Rank[f] \in 1..3
  BY DEF Needs, Rank, Property

LEMMA FrontFacts ==
  ASSUME NEW S, NEW s \in Seq(S), s # << >>
  PROVE  /\ Front(s) \in Seq(S) /\ Len(s) \in Nat \ {0} /\ Len(Front(s)) = Len(s) - 1
         /\ \A i \in 1..(Len(s) - 1) : Front(s)[i] = s[i]
  <1>1. Len(s) \in Nat \ {0}
    BY EmptySeq
  <1>2. PICK n \in Nat : Len(s) = n + 1
    BY <1>1
  <1>3. \A i \in 1..n : s[i] \in S
    BY <1>2, ElementOfSeq
  <1>4. /\ SubSeq(s, 1, n) \in Seq(S)
        /\ Len(SubSeq(s, 1, n)) = IF 1 <= n THEN n - 1 + 1 ELSE 0
        /\ \A i \in 1..(n - 1 + 1) : SubSeq(s, 1, n)[i] = s[1 + i - 1]
    BY <1>3, SubSeqProperties
  <1>5. Len(SubSeq(s, 1, n)) = n /\ \A i \in 1..n : SubSeq(s, 1, n)[i] = s[i]
    BY <1>4
  <1>6. Len(s) - 1 = n
    BY <1>2
  <1> QED
    BY <1>1, <1>4, <1>5, <1>6 DEF Front

LEMMA AppendFacts ==
  ASSUME NEW S, NEW s \in Seq(S), NEW x \in S
  PROVE  /\ Append(s, x) \in Seq(S)
         /\ Len(Append(s, x)) = Len(s) + 1
         /\ \A i \in 1..Len(s) : Append(s, x)[i] = s[i]
         /\ Append(s, x)[Len(s) + 1] = x
  BY SMT

(* The frame that is read moves on.                                        *)
LEMMA GotoSound ==
  ASSUME NEW s \in Seq(Frame), s # << >>, NEW m \in Counts, Sound(s, m),
         NEW at \in {"lock", "check", "make"},
         at = "make" => m[s[Len(s)].of] = 0 /\ s[Len(s)].of \notin DOMAIN Needs,
         NEW r, r = [s EXCEPT ![Len(s)].at = at]
  PROVE  r \in Seq(Frame) /\ Len(r) = Len(s) /\ Sound(r, m) /\ r[1].of = s[1].of
  <1>1. Len(s) \in Nat \ {0} /\ s[Len(s)] \in Frame
    OBVIOUS
  <1>2. [s[Len(s)] EXCEPT !.at = at] \in Frame
    BY <1>1 DEF Frame
  <1>3. /\ r \in Seq(Frame) /\ Len(r) = Len(s)
        /\ \A i \in 1..Len(s) : r[i].of = s[i].of
        /\ \A i \in 1..Len(s) : i < Len(s) => r[i] = s[i]
        /\ r[Len(s)].at = at
    BY <1>1, <1>2 DEF Frame
  <1>4. Nested(r)
    BY <1>1, <1>3 DEF Sound, Nested
  <1>5. \A i \in 1..Len(r) : r[i].at = "make" => m[r[i].of] = 0
    BY <1>1, <1>3 DEF Sound
  <1> QED
    BY <1>1, <1>3, <1>4, <1>5 DEF Sound

(* A read of what f needs begins.                                          *)
LEMMA PushSound ==
  ASSUME NEW s \in Seq(Frame), s # << >>, NEW m \in Counts, Sound(s, m),
         s[Len(s)].of \in DOMAIN Needs, m[s[Len(s)].of] = 0,
         NEW r, r = Append([s EXCEPT ![Len(s)].at = "make"],
                           [of |-> Needs[s[Len(s)].of], at |-> "look"])
  PROVE  r \in Seq(Frame) /\ r # << >> /\ Sound(r, m) /\ r[1].of = s[1].of
  <1> DEFINE q == [s EXCEPT ![Len(s)].at = "make"]
             g == [of |-> Needs[s[Len(s)].of], at |-> "look"]
  <1>1. Len(s) \in Nat \ {0} /\ s[Len(s)] \in Frame
    OBVIOUS
  <1>2. [s[Len(s)] EXCEPT !.at = "make"] \in Frame /\ g \in Frame
    BY <1>1, Ranks DEF Frame
  <1>3. /\ q \in Seq(Frame) /\ Len(q) = Len(s)
        /\ \A i \in 1..Len(s) : q[i].of = s[i].of
        /\ \A i \in 1..Len(s) : i < Len(s) => q[i] = s[i]
        /\ q[Len(s)].at = "make"
    BY <1>1, <1>2 DEF Frame
  <1>a. r = Append(q, g)
    OBVIOUS
  <1> HIDE DEF q, g
  <1>4. /\ r \in Seq(Frame) /\ Len(r) = Len(s) + 1
        /\ \A i \in 1..Len(s) : r[i] = q[i]
        /\ r[Len(s) + 1] = g
    <2>1. q \in Seq(Frame) /\ g \in Frame
      BY <1>2, <1>3
    <2>2. /\ Append(q, g) \in Seq(Frame)
          /\ Len(Append(q, g)) = Len(q) + 1
          /\ \A i \in 1..Len(q) : Append(q, g)[i] = q[i]
          /\ Append(q, g)[Len(q) + 1] = g
      BY <2>1, AppendFacts
    <2> QED
      BY <1>a, <2>2, <1>3
  <1>5. ASSUME NEW i \in 1..Len(r)
        PROVE  /\ i < Len(r) => /\ r[i].at = "make" /\ r[i].of \in DOMAIN Needs
                                /\ r[i + 1].of = Needs[r[i].of]
               /\ \A j \in (i + 1)..Len(r) : Rank[r[j].of] < Rank[r[i].of]
    <2>1. CASE i < Len(s)
      <3>1. i \in 1..Len(s) /\ Len(s) \in (i + 1)..Len(s)
        BY <2>1, <1>1, <1>4
      <3>2. /\ s[i].at = "make" /\ s[i].of \in DOMAIN Needs
            /\ s[i + 1].of = Needs[s[i].of]
            /\ \A j \in (i + 1)..Len(s) : Rank[s[j].of] < Rank[s[i].of]
        BY <2>1, <3>1 DEF Sound, Nested
      <3>3. Rank[g.of] < Rank[s[Len(s)].of] /\ s[Len(s)].of \in Property
        BY Ranks DEF g
      <3>4. s[i].of \in Property
        BY <3>2, Ranks
      <3>5. Rank[g.of] < Rank[s[i].of]
        BY <3>1, <3>2, <3>3, <3>4, Ranks DEF g
      <3>6. r[i].at = "make" /\ r[i].of = s[i].of /\ r[i + 1].of = s[i + 1].of
        BY <2>1, <3>1, <3>2, <1>1, <1>3, <1>4
      <3>7. \A j \in (i + 1)..Len(s) : r[j].of = s[j].of
        BY <3>1, <1>1, <1>3, <1>4
      <3> QED
        BY <3>1, <3>2, <3>5, <3>6, <3>7, <1>1, <1>4
    <2>2. CASE i = Len(s)
      BY <2>2, <1>1, <1>3, <1>4, Ranks DEF g
    <2>3. CASE i = Len(s) + 1
      BY <2>3, <1>1, <1>4
    <2> QED
      BY <1>1, <1>4, <2>1, <2>2, <2>3
  <1>6. Nested(r)
    BY <1>5 DEF Nested
  <1>7. \A i \in 1..Len(r) : r[i].at = "make" => m[r[i].of] = 0
    BY <1>1, <1>3, <1>4 DEF Sound, g
  <1>8. ~(r[Len(r)].at = "make")
    BY <1>1, <1>4 DEF g
  <1> QED
    BY <1>1, <1>3, <1>4, <1>6, <1>7, <1>8 DEF Sound

(* A read ends and leaves what it was for behind.                          *)
LEMMA PopSound ==
  ASSUME NEW s \in Seq(Frame), s # << >>, NEW m \in Counts, Sound(s, m),
         NEW n \in Counts, n[s[Len(s)].of] > 0,
         \A f \in Property : f # s[Len(s)].of => n[f] = m[f]
  PROVE  /\ Front(s) \in Seq(Frame) /\ Sound(Front(s), n)
         /\ Front(s) # << >> => Front(s)[1].of = s[1].of
         /\ Front(s) = << >> => s[1] = s[Len(s)]
  <1> DEFINE r == Front(s)
  <1>1. /\ r \in Seq(Frame) /\ Len(s) \in Nat \ {0} /\ Len(r) = Len(s) - 1
        /\ \A i \in 1..(Len(s) - 1) : r[i] = s[i]
    BY FrontFacts
  <1> HIDE DEF r
  <1>2. Nested(r)
    <2> SUFFICES ASSUME NEW i \in 1..Len(r)
                 PROVE  /\ i < Len(r) => /\ r[i].at = "make" /\ r[i].of \in DOMAIN Needs
                                         /\ r[i + 1].of = Needs[r[i].of]
                        /\ \A j \in (i + 1)..Len(r) : Rank[r[j].of] < Rank[r[i].of]
      BY DEF Nested
    <2>1. i \in 1..Len(s) /\ i < Len(s) /\ r[i] = s[i]
      BY <1>1
    <2>2. i < Len(r) => r[i + 1] = s[i + 1]
      BY <1>1
    <2>3. \A j \in (i + 1)..Len(r) : j \in (i + 1)..Len(s) /\ r[j] = s[j]
      BY <1>1
    <2> QED
      BY <2>1, <2>2, <2>3 DEF Sound, Nested
  <1>3. \A i \in 1..Len(r) : s[i].of \in Property /\ s[i].of # s[Len(s)].of
    <2> SUFFICES ASSUME NEW i \in 1..Len(r) PROVE s[i].of \in Property /\ s[i].of # s[Len(s)].of
      OBVIOUS
    <2>1. Rank[s[Len(s)].of] < Rank[s[i].of] /\ s[i] \in Frame /\ s[Len(s)] \in Frame
      BY <1>1 DEF Sound, Nested
    <2> QED
      BY <2>1, Ranks DEF Frame
  <1>4. \A i \in 1..Len(r) : r[i].at = "make" => n[r[i].of] = 0
    BY <1>1, <1>3 DEF Sound
  <1>5. r # << >> => Needs[r[Len(r)].of] = s[Len(s)].of
    BY <1>1 DEF Sound, Nested
  <1>6. Sound(r, n)
    BY <1>1, <1>2, <1>4, <1>5 DEF Sound
  <1> QED
    BY <1>1, <1>6 DEF r

-----------------------------------------------------------------------------
(* The invariant.  OneOfEach needs to know what is being made and by whom. *)

Exclusive == \A t, u \in Thread : Inside(t) /\ Inside(u) => t = u
NeedsThere == \A f \in DOMAIN Needs : made[f] > 0 => made[Needs[f]] > 0
MainHas(s, m) == IF s = << >> THEN m["mcp"] > 0 ELSE s[1].of = "mcp"

AppInv ==
  /\ stack \in [Thread -> Seq(Frame)] /\ made \in Counts
  /\ \A t \in Thread : Sound(stack[t], made)
  /\ Exclusive
  /\ NeedsThere
  /\ Serving => made["mcp"] > 0
  /\ phase = "mcp" => MainHas(stack[Main], made)

LEMMA InitApp == Init => AppInv
  <1> SUFFICES ASSUME Init PROVE AppInv
    OBVIOUS
  <1>1. stack = [t \in Thread |-> << >>] /\ made = [f \in Property |-> 0] /\ phase = "load"
    BY DEF Init, AppInit
  <1>2. stack \in [Thread -> Seq(Frame)] /\ made \in Counts
    BY <1>1 DEF Counts
  <1>3. \A t \in Thread : Sound(stack[t], made)
    BY <1>1 DEF Sound, Nested
  <1>4. \A t \in Thread : ~Inside(t)
    BY <1>1 DEF Inside
  <1>5. NeedsThere
    BY <1>1, Ranks DEF NeedsThere
  <1> QED
    BY <1>1, <1>2, <1>3, <1>4, <1>5 DEF AppInv, Exclusive, Serving

(* A step of one thread, as far as the others can tell.                    *)
LEMMA ThreadStep ==
  ASSUME AppInv, NEW t \in Thread, NEW s \in Seq(Frame),
         stack' = [stack EXCEPT ![t] = s], made' \in Counts,
         made'["mcp"] >= made["mcp"], NeedsThere',
         Sound(s, made'), \A u \in Thread \ {t} : Sound(stack[u], made'),
         (\E i \in DOMAIN s : s[i].at \in {"check", "make"}) =>
            \A u \in Thread \ {t} : ~Inside(u),
         phase' \in {phase, "crashed"},
         t = Main /\ phase' = "mcp" => MainHas(s, made')
  PROVE  AppInv'
  <1>1. stack' \in [Thread -> Seq(Frame)] /\ stack'[t] = s
        /\ \A u \in Thread \ {t} : stack'[u] = stack[u]
    BY DEF AppInv
  <1>2. \A u \in Thread : Sound(stack'[u], made')
    BY <1>1
  <1>3. \A u \in Thread \ {t} : Inside(u)' <=> Inside(u)
    BY <1>1 DEF Inside
  <1>4. Inside(t)' => \A u \in Thread \ {t} : ~Inside(u)
    BY <1>1 DEF Inside
  <1>5. Exclusive'
    BY <1>3, <1>4 DEF AppInv, Exclusive
  <1>6. made["mcp"] \in 0..1 /\ made'["mcp"] \in 0..1
    BY DEF AppInv, Counts, Property
  <1>7. Serving' => made'["mcp"] > 0
    BY <1>6 DEF AppInv, Serving
  <1>8. phase' = "mcp" => MainHas(stack'[Main], made')
    <2>1. CASE t = Main
      BY <2>1, <1>1 DEF MainHas
    <2>2. CASE t # Main
      <3> SUFFICES ASSUME phase' = "mcp" PROVE MainHas(stack'[Main], made')
        OBVIOUS
      <3>1. phase = "mcp" /\ stack'[Main] = stack[Main]
        BY <2>2, <1>1, ApplicationAssumption
      <3>2. MainHas(stack[Main], made)
        BY <3>1 DEF AppInv
      <3> QED
        BY <3>1, <3>2, <1>6 DEF MainHas
    <2> QED
      BY <2>1, <2>2
  <1> QED
    BY <1>1, <1>2, <1>5, <1>7, <1>8 DEF AppInv

(* While a thread is inside nobody else is making anything.                *)
LEMMA OthersIdle ==
  ASSUME AppInv, NEW t \in Thread, Inside(t), NEW u \in Thread \ {t}, NEW n \in Counts
  PROVE  Sound(stack[u], n)
  <1>1. ~Inside(u) /\ stack[u] \in Seq(Frame) /\ Sound(stack[u], made)
    BY DEF AppInv, Exclusive
  <1>2. \A i \in 1..Len(stack[u]) : stack[u][i].at # "make"
    BY <1>1 DEF Inside
  <1>3. stack[u] # << >> => Len(stack[u]) \in 1..Len(stack[u])
    BY <1>1
  <1> QED
    BY <1>1, <1>2, <1>3 DEF Sound

LEMMA Reading ==
  ASSUME AppInv, NEW t \in Thread, NEW f, NEW at, Reads(t, f, at)
  PROVE  /\ stack[t] \in Seq(Frame) /\ stack[t] # << >> /\ Len(stack[t]) \in 1..Len(stack[t])
         /\ stack[t][Len(stack[t])].of = f /\ stack[t][Len(stack[t])].at = at
         /\ f \in Property /\ made[f] \in 0..1 /\ Sound(stack[t], made)
         /\ at \in {"check", "make"} => Inside(t) /\ \A u \in Thread \ {t} : ~Inside(u)
  <1>1. stack[t] \in Seq(Frame) /\ stack[t] # << >> /\ Len(stack[t]) \in 1..Len(stack[t])
    BY DEF AppInv, Reads
  <1>2. stack[t][Len(stack[t])].of = f /\ stack[t][Len(stack[t])].at = at
    BY DEF Reads, Top
  <1>3. f \in Property /\ made[f] \in 0..1
    <2>1. stack[t][Len(stack[t])] \in Frame
      BY <1>1, ElementOfSeq
    <2> QED
      BY <1>2, <2>1 DEF AppInv, Frame, Counts
  <1>4. at \in {"check", "make"} => Inside(t)
    BY <1>1, <1>2 DEF Inside
  <1> QED
    BY <1>1, <1>2, <1>3, <1>4 DEF AppInv, Exclusive

(* A read that ends without making anything.                               *)
LEMMA ReturnStep ==
  ASSUME AppInv, NEW t \in Thread, NEW f, NEW at \in {"look", "check"}, Reads(t, f, at),
         made[f] > 0, Return(t), UNCHANGED <<phase, made>>
  PROVE  AppInv'
  <1> DEFINE s == Front(stack[t])
  <1>1. /\ stack[t] \in Seq(Frame) /\ stack[t] # << >> /\ Len(stack[t]) \in 1..Len(stack[t])
        /\ stack[t][Len(stack[t])].of = f /\ f \in Property /\ Sound(stack[t], made)
    BY Reading
  <1>2. made \in Counts /\ NeedsThere /\ stack \in [Thread -> Seq(Frame)]
    BY DEF AppInv
  <1>3. /\ s \in Seq(Frame) /\ Sound(s, made)
        /\ s # << >> => s[1].of = stack[t][1].of
        /\ s = << >> => stack[t][1] = stack[t][Len(stack[t])]
    BY <1>1, <1>2, PopSound
  <1>4. (\E i \in DOMAIN s : s[i].at \in {"check", "make"}) =>
          \A u \in Thread \ {t} : ~Inside(u)
    <2>1. DOMAIN s = 1..(Len(stack[t]) - 1) /\ \A i \in DOMAIN s : s[i] = stack[t][i]
      BY <1>1, <1>3, FrontFacts
    <2>2. (\E i \in DOMAIN s : s[i].at \in {"check", "make"}) => Inside(t)
      BY <1>1, <2>1 DEF Inside
    <2> QED
      BY <2>2 DEF AppInv, Exclusive
  <1>5. t = Main /\ phase' = "mcp" => MainHas(s, made')
    BY <1>1, <1>3 DEF AppInv, MainHas
  <1>6. stack' = [stack EXCEPT ![t] = s]
    BY DEF Return, Frames
  <1>7. NeedsThere' /\ made["mcp"] \in 0..1
    BY <1>2 DEF NeedsThere, Counts, Property
  <1> HIDE DEF s
  <1>8. made' = made /\ phase' \in {phase, "crashed"} /\ made'["mcp"] >= made["mcp"]
    BY <1>7
  <1>9. Sound(s, made') /\ \A u \in Thread \ {t} : Sound(stack[u], made')
    BY <1>3, <1>8 DEF AppInv
  <1> QED
    BY <1>2, <1>3, <1>4, <1>5, <1>6, <1>7, <1>8, <1>9, ThreadStep

(* A read that moves on to the lock, or into it.                           *)
LEMMA GotoStep ==
  ASSUME AppInv, NEW t \in Thread, NEW f, NEW from, Reads(t, f, from),
         NEW at \in {"lock", "check", "make"}, Goto(t, at), UNCHANGED <<phase, made>>,
         at = "make" => made[f] = 0 /\ f \notin DOMAIN Needs,
         \A u \in Thread \ {t} : Inside(u) => at = "lock"
  PROVE  AppInv'
  <1> DEFINE s == [stack[t] EXCEPT ![Len(stack[t])].at = at]
  <1>1. /\ stack[t] \in Seq(Frame) /\ stack[t] # << >> /\ Len(stack[t]) \in 1..Len(stack[t])
        /\ stack[t][Len(stack[t])].of = f /\ f \in Property /\ Sound(stack[t], made)
    BY Reading
  <1>2. made \in Counts /\ NeedsThere /\ stack \in [Thread -> Seq(Frame)]
    BY DEF AppInv
  <1>3. /\ s \in Seq(Frame) /\ Len(s) = Len(stack[t]) /\ Sound(s, made)
        /\ s[1].of = stack[t][1].of
    BY <1>1, <1>2, GotoSound
  <1>4. (\E i \in DOMAIN s : s[i].at \in {"check", "make"}) =>
          \A u \in Thread \ {t} : ~Inside(u)
    <2>1. CASE at = "lock"
      <3>1. \A i \in DOMAIN s : s[i].at \in {"check", "make"} => s[i] = stack[t][i]
        BY <2>1, <1>1, <1>3
      <3>2. (\E i \in DOMAIN s : s[i].at \in {"check", "make"}) => Inside(t)
        BY <3>1, <1>1, <1>3 DEF Inside
      <3> QED
        BY <3>2 DEF AppInv, Exclusive
    <2>2. CASE at # "lock"
      BY <2>2
    <2> QED
      BY <2>1, <2>2
  <1>5. t = Main /\ phase' = "mcp" => MainHas(s, made')
    BY <1>1, <1>3 DEF AppInv, MainHas
  <1>6. stack' = [stack EXCEPT ![t] = s]
    BY DEF Goto, Frames
  <1>7. NeedsThere' /\ made["mcp"] \in 0..1
    BY <1>2 DEF NeedsThere, Counts, Property
  <1> HIDE DEF s
  <1>8. made' = made /\ phase' \in {phase, "crashed"} /\ made'["mcp"] >= made["mcp"]
    BY <1>7
  <1>9. Sound(s, made') /\ \A u \in Thread \ {t} : Sound(stack[u], made')
    BY <1>3, <1>8 DEF AppInv
  <1> QED
    BY <1>2, <1>3, <1>4, <1>5, <1>6, <1>7, <1>8, <1>9, ThreadStep

LEMMA LookApp ==
  ASSUME AppInv, NEW t \in Thread, NEW f \in Property, Look(t, f) PROVE AppInv'
  <1>1. CASE made[f] > 0
    BY <1>1, ReturnStep DEF Look
  <1>2. CASE ~(made[f] > 0)
    BY <1>2, GotoStep DEF Look
  <1> QED
    BY <1>1, <1>2

LEMMA LockApp ==
  ASSUME AppInv, NEW t \in Thread, NEW f \in Property, Lock(t, f) PROVE AppInv'
  BY GotoStep DEF Lock, FreeFor

LEMMA CheckApp ==
  ASSUME AppInv, NEW t \in Thread, NEW f \in Property, Check(t, f) PROVE AppInv'
  <1>1. CASE made[f] > 0
    BY <1>1, ReturnStep DEF Check, MadeMeanwhile
  <1>2. CASE ~(made[f] > 0) /\ f \notin DOMAIN Needs
    <2>1. Goto(t, "make") /\ Reads(t, f, "check") /\ UNCHANGED <<phase, made>>
      BY <1>2 DEF Check, MadeMeanwhile, Goto
    <2>2. made[f] = 0 /\ \A u \in Thread \ {t} : ~Inside(u)
      BY <1>2, <2>1, Reading
    <2> QED
      BY <1>2, <2>1, <2>2, GotoStep
  <1>3. CASE ~(made[f] > 0) /\ f \in DOMAIN Needs
    <2> DEFINE s == Append([stack[t] EXCEPT ![Len(stack[t])].at = "make"],
                           [of |-> Needs[f], at |-> "look"])
    <2>1. stack' = [stack EXCEPT ![t] = s] /\ Reads(t, f, "check") /\ UNCHANGED <<phase, made>>
      BY <1>3 DEF Check, MadeMeanwhile, Frames
    <2>2. /\ stack[t] \in Seq(Frame) /\ stack[t] # << >> /\ Len(stack[t]) \in 1..Len(stack[t])
          /\ stack[t][Len(stack[t])].of = f /\ Sound(stack[t], made)
          /\ made[f] = 0 /\ \A u \in Thread \ {t} : ~Inside(u)
      BY <1>3, <2>1, Reading
    <2>3. made \in Counts /\ NeedsThere
      BY DEF AppInv
    <2>4. s \in Seq(Frame) /\ s # << >> /\ Sound(s, made) /\ s[1].of = stack[t][1].of
      BY <1>3, <2>2, <2>3, PushSound
    <2>5. t = Main /\ phase' = "mcp" => MainHas(s, made')
      BY <2>1, <2>2, <2>4 DEF AppInv, MainHas
    <2>6. NeedsThere' /\ made["mcp"] \in 0..1
      BY <2>1, <2>3 DEF NeedsThere, Counts, Property
    <2> HIDE DEF s
    <2>7. made' = made /\ phase' \in {phase, "crashed"} /\ made'["mcp"] >= made["mcp"]
      BY <2>1, <2>6
    <2>8. Sound(s, made') /\ \A u \in Thread \ {t} : Sound(stack[u], made')
      BY <2>4, <2>7 DEF AppInv
    <2> QED
      BY <2>1, <2>2, <2>3, <2>4, <2>5, <2>6, <2>7, <2>8, ThreadStep
  <1> QED
    BY <1>1, <1>2, <1>3

LEMMA MakeApp ==
  ASSUME AppInv, NEW t \in Thread, NEW f \in Property, Make(t, f) PROVE AppInv'
  <1> DEFINE s == Front(stack[t])
  <1>1. /\ Reads(t, f, "make") /\ made' = [made EXCEPT ![f] = @ + 1] /\ phase' = phase
        /\ stack' = [stack EXCEPT ![t] = s]
    BY DEF Make, Return, Frames
  <1>2. /\ stack[t] \in Seq(Frame) /\ stack[t] # << >> /\ Len(stack[t]) \in 1..Len(stack[t])
        /\ stack[t][Len(stack[t])].of = f /\ stack[t][Len(stack[t])].at = "make"
        /\ Sound(stack[t], made) /\ Inside(t) /\ \A u \in Thread \ {t} : ~Inside(u)
    BY <1>1, Reading
  <1>3. made \in Counts /\ NeedsThere /\ made[f] = 0
    BY <1>2 DEF AppInv, Sound
  <1>4. /\ made' \in Counts /\ made'[f] = 1
        /\ \A g \in Property : g # f => made'[g] = made[g]
    BY <1>1, <1>3 DEF Counts
  <1>5. /\ s \in Seq(Frame) /\ Sound(s, made')
        /\ s # << >> => s[1].of = stack[t][1].of
        /\ s = << >> => stack[t][1] = stack[t][Len(stack[t])]
    BY <1>2, <1>3, <1>4, PopSound
  <1>6. \A u \in Thread \ {t} : Sound(stack[u], made')
    BY <1>2, <1>4, OthersIdle
  <1>7. NeedsThere'
    <2> SUFFICES ASSUME NEW g \in DOMAIN Needs, made'[g] > 0 PROVE made'[Needs[g]] > 0
      BY DEF NeedsThere
    <2>1. g \in Property /\ Needs[g] \in Property /\ Needs[g] # g
      BY Ranks
    <2>2. CASE g = f
      BY <2>1, <2>2, <1>2, <1>4 DEF Sound
    <2>3. CASE g # f
      <3>1. made[Needs[g]] > 0
        BY <2>1, <2>3, <1>3, <1>4 DEF NeedsThere
      <3> QED
        BY <3>1, <2>1, <1>4
    <2> QED
      BY <2>2, <2>3
  <1>8. made'["mcp"] >= made["mcp"]
    BY <1>3, <1>4 DEF Counts, Property
  <1>9. t = Main /\ phase' = "mcp" => MainHas(s, made')
    <2> SUFFICES ASSUME t = Main, phase = "mcp" PROVE MainHas(s, made')
      BY <1>1
    <2>1. stack[t][1].of = "mcp"
      BY <1>2 DEF AppInv, MainHas
    <2> QED
      BY <2>1, <1>2, <1>4, <1>5 DEF MainHas
  <1> HIDE DEF s
  <1> QED
    BY <1>1, <1>2, <1>4, <1>5, <1>6, <1>7, <1>8, <1>9, ThreadStep

LEMMA RaisesApp ==
  ASSUME AppInv, NEW t \in Thread, NEW f \in Property, MakeRaises(t, f) PROVE AppInv'
  <1>1. /\ stack' = [stack EXCEPT ![t] = << >>] /\ made' = made
        /\ phase' = IF t = Main THEN "crashed" ELSE phase
    BY DEF MakeRaises, Frames
  <1>2. << >> \in Seq(Frame) /\ Sound(<< >>, made')
    BY DEF Sound, Nested
  <1>3. /\ made' \in Counts /\ NeedsThere' /\ made'["mcp"] >= made["mcp"]
        /\ \A u \in Thread \ {t} : Sound(stack[u], made')
    BY <1>1 DEF AppInv, NeedsThere, Counts, Property
  <1>4. ~ \E i \in DOMAIN << >> : << >>[i].at \in {"check", "make"}
    OBVIOUS
  <1>5. phase' \in {phase, "crashed"} /\ ~(t = Main /\ phase' = "mcp")
    BY <1>1
  <1> QED
    BY <1>1, <1>2, <1>3, <1>4, <1>5, ThreadStep

(* A read of another thread, and the first one of the main thread, begins. *)
LEMMA BeginSound ==
  ASSUME NEW f \in Property, NEW m
  PROVE  LET s == <<[of |-> f, at |-> "look"]>> IN
         s \in Seq(Frame) /\ Sound(s, m) /\ s # << >> /\ s[1].of = f
                           /\ \A i \in DOMAIN s : s[i].at = "look"
  <1> DEFINE g == [of |-> f, at |-> "look"]
  <1>1. g \in Frame
    BY DEF Frame
  <1>2. g.of = f /\ g.at = "look"
    OBVIOUS
  <1> HIDE DEF g
  <1>3. <<g>> \in Seq(Frame) /\ Len(<<g>>) = 1 /\ <<g>>[1] = g /\ DOMAIN <<g>> = 1..1
    BY <1>1
  <1>4. Sound(<<g>>, m)
    BY <1>2, <1>3 DEF Sound, Nested
  <1> QED
    BY <1>2, <1>3, <1>4 DEF g

LEMMA AccessApp ==
  ASSUME AppInv, NEW t \in Thread, NEW f \in Property, Access(t, f) PROVE AppInv'
  <1> DEFINE s == <<[of |-> f, at |-> "look"]>>
  <1>1. s \in Seq(Frame) /\ Sound(s, made) /\ \A i \in DOMAIN s : s[i].at = "look"
    BY BeginSound
  <1>2. stack' = [stack EXCEPT ![t] = s] /\ made' = made /\ phase' = phase /\ t # Main
    BY DEF Access, Frames
  <1> HIDE DEF s
  <1>3. /\ made' \in Counts /\ NeedsThere' /\ made'["mcp"] >= made["mcp"]
        /\ \A u \in Thread \ {t} : Sound(stack[u], made')
    BY <1>2 DEF AppInv, NeedsThere, Counts, Property
  <1>4. Sound(s, made') /\ ~ \E i \in DOMAIN s : s[i].at \in {"check", "make"}
    BY <1>1, <1>2
  <1> QED
    BY <1>1, <1>2, <1>3, <1>4, ThreadStep

LEMMA LoadApp == ASSUME AppInv, Load PROVE AppInv'
  <1> DEFINE s == <<[of |-> "mcp", at |-> "look"]>>
  <1>0. made' = made /\ phase = "load" /\ phase' \in {"mcp", "refused"}
    BY DEF Load, Moves
  <1>1. /\ made \in Counts /\ NeedsThere' /\ stack \in [Thread -> Seq(Frame)]
        /\ \A u \in Thread : Sound(stack[u], made')
    BY <1>0 DEF AppInv, NeedsThere
  <1>2. CASE ~Valid(config)
    <2>1. stack' = stack /\ phase' = "refused"
      BY <1>2 DEF Load, Moves
    <2>2. Exclusive'
      BY <2>1 DEF AppInv, Exclusive, Inside
    <2> QED
      BY <1>0, <1>1, <2>1, <2>2 DEF AppInv, Serving
  <1>3. CASE Valid(config)
    <2>1. stack' = [stack EXCEPT ![Main] = s]
      BY <1>3 DEF Load
    <2>2. /\ s \in Seq(Frame) /\ Sound(s, made) /\ s # << >> /\ s[1].of = "mcp"
          /\ \A i \in DOMAIN s : s[i].at = "look"
      BY BeginSound DEF Property
    <2> HIDE DEF s
    <2>3. /\ stack' \in [Thread -> Seq(Frame)] /\ stack'[Main] = s
          /\ \A u \in Thread \ {Main} : stack'[u] = stack[u]
      BY <1>1, <2>1, <2>2, ApplicationAssumption
    <2>4. \A u \in Thread : Sound(stack'[u], made')
      BY <1>0, <1>1, <2>2, <2>3
    <2>5. ~Inside(Main)' /\ \A u \in Thread \ {Main} : Inside(u)' <=> Inside(u)
      BY <2>2, <2>3 DEF Inside
    <2>6. Exclusive'
      BY <2>5 DEF AppInv, Exclusive
    <2>7. MainHas(stack'[Main], made')
      BY <2>2, <2>3 DEF MainHas
    <2> QED
      BY <1>0, <1>1, <2>3, <2>4, <2>6, <2>7 DEF AppInv, Serving
  <1> QED
    BY <1>2, <1>3

(* The steps that leave the properties and the threads alone.              *)
LEMMA OtherApp ==
  ASSUME AppInv, stack' = stack, made' = made,
         \/ phase' \in {phase, "stopped"}
         \/ HasServer /\ phase' \in {"stdio", "http", "refused"}
  PROVE  AppInv'
  <1>1. Exclusive' /\ NeedsThere'
    BY DEF AppInv, Exclusive, Inside, NeedsThere
  <1>2. Serving' => made["mcp"] > 0
    BY DEF AppInv, Serving, HasServer, MainHas
  <1>3. phase' = "mcp" => MainHas(stack[Main], made)
    BY DEF AppInv
  <1> QED
    BY <1>1, <1>2, <1>3 DEF AppInv

LEMMA NextApp == ASSUME AppInv, [Next]_allVars PROVE AppInv'
  <1>1. CASE Load
    BY <1>1, LoadApp
  <1>2. CASE RunStdio \/ RunHttp
    BY <1>2, OtherApp DEF RunStdio, RunHttp
  <1>3. ASSUME NEW t \in Thread, ReadStep(t) PROVE AppInv'
    <2>1. PICK f \in Property : Look(t, f) \/ Lock(t, f) \/ Check(t, f) \/ Make(t, f)
                               \/ MakeRaises(t, f)
      BY <1>3, Zenon DEF ReadStep
    <2> QED
      BY <2>1, LookApp, LockApp, CheckApp, MakeApp, RaisesApp, Zenon
  <1>4. ASSUME NEW t \in Thread, NEW f \in Property, Access(t, f) PROVE AppInv'
    BY <1>4, AccessApp, Zenon
  <1>5. CASE UNCHANGED appVars
    <2>1. phase' = phase /\ stack' = stack /\ made' = made
      BY <1>5, Zenon DEF appVars
    <2> QED
      BY <2>1, OtherApp
  <1>6. CASE Stopped
    BY <1>6, OtherApp DEF Stopped, Moves
  <1>7. AppStep \/ UNCHANGED appVars \/ Stopped
    <2>1. UNCHANGED allVars \/ JobsEnd => UNCHANGED appVars
      BY DEF allVars, JobsEnd
    <2>2. Stdio(StdioNext) => UNCHANGED appVars
      BY DEF Stdio
    <2> QED
      BY <2>1, <2>2, Zenon DEF Next
  <1>8. CASE AppStep
    <2>1. Load \/ (RunStdio \/ RunHttp) \/ \E t \in Thread : ReadStep(t) \/ \E f \in Property : Access(t, f)
      BY <1>8, Zenon DEF AppStep
    <2> QED
      BY <1>1, <1>2, <1>3, <1>4, <2>1, Zenon
  <1> QED
    BY <1>5, <1>6, <1>7, <1>8

(* OneOfEach holds for any number of threads, wherever making something    *)
(* raises: the lock has one thread inside, what is being made is not there *)
(* yet, and a read returns only what is (server.py:59-89).                 *)
THEOREM MadeOnce == Spec => []OneOfEach
  <1>1. AppInv => OneOfEach
    BY DEF AppInv, OneOfEach, NeedsThere, Counts
  <1> QED
    BY <1>1, InitApp, NextApp, PTL DEF Spec

(* What the next step of a read waits for: nothing, unless it is the lock. *)
CanStep(t) ==
  /\ Top(t) \in Frame
  /\ Top(t).at = "lock" => FreeFor(t)

NobodyStuck ==
  (\E t \in Thread : stack[t] # << >>) =>
     \E t \in Thread : stack[t] # << >> /\ CanStep(t)

LEMMA InsideReads ==
  ASSUME AppInv, NEW t \in Thread, Inside(t)
  PROVE  stack[t] # << >> /\ FreeFor(t)
  <1>1. stack[t] # << >>
    BY DEF Inside
  <1>2. FreeFor(t)
    BY DEF AppInv, Exclusive, FreeFor
  <1> QED
    BY <1>1, <1>2

(* The threads that read properties of App never all wait: the lock is     *)
(* held by at most one, which is reading and gets the lock again when the  *)
(* property it makes needs another; if nobody holds it, whoever waits may  *)
(* take it (server.py:57, 62-88).                                          *)
THEOREM NeverAllWait == Spec => []NobodyStuck
  <1>1. ASSUME AppInv PROVE NobodyStuck
    <2> SUFFICES ASSUME NEW t \in Thread, stack[t] # << >>
                 PROVE  \E u \in Thread : stack[u] # << >> /\ CanStep(u)
      BY DEF NobodyStuck
    <2>1. ASSUME NEW u \in Thread, stack[u] # << >> PROVE Top(u) \in Frame
      <3>1. stack[u] \in Seq(Frame)
        BY <1>1 DEF AppInv
      <3>2. Len(stack[u]) \in 1..Len(stack[u])
        BY <2>1, <3>1
      <3> QED
        BY <3>1, <3>2, ElementOfSeq DEF Top
    <2>2. CASE \E u \in Thread : Inside(u)
      <3>1. PICK u \in Thread : Inside(u)
        BY <2>2
      <3>2. stack[u] # << >> /\ FreeFor(u)
        BY <1>1, <3>1, InsideReads
      <3> QED
        BY <2>1, <3>2 DEF CanStep
    <2>3. CASE \A u \in Thread : ~Inside(u)
      BY <2>1, <2>3 DEF CanStep, FreeFor
    <2> QED
      BY <2>2, <2>3
  <1> QED
    BY <1>1, InitApp, NextApp, PTL DEF Spec
-----------------------------------------------------------------------------
(* The replies.  The client has read the first of them, the pipe holds the *)
(* next, stdout_writer at most one more.                                   *)

Count(n) == [i \in 1..n |-> i]

Held == IF writer \in {"write", "crashed"} THEN 1 ELSE 0

WriterInv ==
  /\ client \in {"open", "closed", "failed", "gone"} /\ group \in {"open", "left", "crashed"}
  /\ writer \in {"idle", "write", "ended", "crashed"}
  /\ group = "left" => writer = "ended"

RepliesInv ==
  /\ WriterInv
  /\ sent \in 0..MaxReplies /\ outbox \in Seq(Nat) /\ pipe \in Seq(Nat)
  /\ Len(outbox) + Len(pipe) + Held = sent
  /\ \A i \in 1..Len(outbox) : outbox[i] = i
  /\ \A i \in 1..Len(pipe) : pipe[i] = Len(outbox) + i

LEMMA CountIs ==
  ASSUME NEW s \in Seq(Nat), \A i \in 1..Len(s) : s[i] = i
  PROVE  s = Count(Len(s))
  <1>1. s = [i \in 1..Len(s) |-> s[i]]
    BY LenProperties
  <1> QED
    BY <1>1, Zenon DEF Count

LEMMA CountAppend ==
  ASSUME NEW n \in Nat
  PROVE  Append(Count(n), n + 1) = Count(n + 1)
  <1>1. Count(n) \in Seq(Nat) /\ Len(Count(n)) = n
    BY DEF Count
  <1>2. /\ Append(Count(n), n + 1) \in Seq(Nat) /\ Len(Append(Count(n), n + 1)) = n + 1
        /\ \A i \in 1..n : Append(Count(n), n + 1)[i] = Count(n)[i]
        /\ Append(Count(n), n + 1)[n + 1] = n + 1
    BY <1>1, AppendFacts
  <1>3. \A i \in 1..(n + 1) : Append(Count(n), n + 1)[i] = i
    BY <1>2 DEF Count
  <1> QED
    BY <1>2, <1>3, CountIs

LEMMA InitReplies == Init => RepliesInv /\ Outbound!Init
  <1> SUFFICES ASSUME Init PROVE RepliesInv /\ Outbound!Init
    OBVIOUS
  <1>1. RepliesInv
    BY StdioAssumption DEF Init, StdioInit, RepliesInv, WriterInv, Held
  <1>2. Count(sent) = << >>
    BY DEF Init, StdioInit, Count
  <1> QED
    BY <1>1, <1>2 DEF Outbound!Init, OutboundState, Init, StdioInit, Count

(* A message is in the hands of stdout_writer before it is in the pipe.    *)
LEMMA SendsReplies ==
  ASSUME RepliesInv, SessionSends PROVE RepliesInv' /\ Outbound!Send
  <1>1. sent \in Nat /\ sent' = sent + 1 /\ sent + 1 \in 1..MaxReplies
    BY StdioAssumption DEF RepliesInv, SessionSends
  <1>2. WriterInv' /\ Held = 0 /\ Held' = 1
    BY DEF RepliesInv, WriterInv, SessionSends, Held
  <1>3. UNCHANGED <<outbox, pipe, client, group>> /\ group = "open"
    BY DEF SessionSends, Loop
  <1>4. RepliesInv'
    <2>1. Len(outbox) \in Nat /\ Len(pipe) \in Nat /\ Len(outbox) + Len(pipe) = sent
      BY <1>2, LenProperties DEF RepliesInv
    <2>2. Len(outbox') + Len(pipe') + Held' = sent'
      BY <1>1, <1>2, <1>3, <2>1
    <2> QED
      BY <1>1, <1>2, <1>3, <2>2 DEF RepliesInv
  <1>5. Count(sent') = Append(Count(sent), sent + 1)
    BY <1>1, CountAppend
  <1> QED
    BY <1>1, <1>3, <1>4, <1>5 DEF Outbound!Send, OutboundState, Count

LEMMA WriteReplies ==
  ASSUME RepliesInv, Write
  PROVE  RepliesInv' /\ UNCHANGED <<sent, outbox, OutboundState>>
  <1>1. UNCHANGED <<sent, outbox, client, group>> /\ group = "open" /\ writer = "write"
    BY DEF Write
  <1>2. CASE writer' = "crashed" /\ UNCHANGED pipe
    BY <1>1, <1>2 DEF Write, RepliesInv, WriterInv, Held, OutboundState
  <1>3. CASE pipe' = Append(pipe, sent) /\ writer' = "idle"
    <2>1. pipe' = Append(pipe, sent) /\ writer' = "idle" /\ sent \in Nat
      BY <1>3 DEF RepliesInv
    <2>2. /\ pipe' \in Seq(Nat) /\ Len(pipe') = Len(pipe) + 1
          /\ \A i \in 1..Len(pipe) : pipe'[i] = pipe[i]
          /\ pipe'[Len(pipe) + 1] = sent
      BY <2>1, AppendFacts DEF RepliesInv
    <2>3. Held = 1 /\ Held' = 0 /\ WriterInv'
      BY <1>1, <2>1 DEF Held, RepliesInv, WriterInv
    <2>4. Len(outbox) \in Nat /\ Len(pipe) \in Nat /\ Len(outbox) + Len(pipe) + 1 = sent
      BY <2>3 DEF RepliesInv
    <2>5. \A i \in 1..Len(pipe') : pipe'[i] = Len(outbox') + i
      <3>1. Len(outbox') = Len(outbox)
        BY <1>1
      <3>2. \A i \in 1..Len(pipe) : pipe'[i] = Len(outbox) + i
        BY <2>2 DEF RepliesInv
      <3>3. 1..Len(pipe') = (1..Len(pipe)) \cup {Len(pipe) + 1}
        BY <2>2, <2>4
      <3>4. pipe'[Len(pipe) + 1] = Len(outbox) + (Len(pipe) + 1)
        BY <2>2, <2>4
      <3> QED
        BY <3>1, <3>2, <3>3, <3>4
    <2>6. RepliesInv'
      BY <1>1, <2>2, <2>3, <2>4, <2>5 DEF RepliesInv
    <2> QED
      BY <1>1, <2>6 DEF OutboundState
  <1> QED
    BY <1>2, <1>3 DEF Write

(* The client reads the oldest reply.  It meets the end of the pipe when   *)
(* the group has been left and the pipe is empty.                          *)
LEMMA ReadReplies ==
  ASSUME RepliesInv, Read PROVE RepliesInv' /\ Outbound!Deliver
  <1> DEFINE n == Len(outbox)
  <1>1. /\ UNCHANGED <<sent, client, group, writer>> /\ client # "gone" /\ pipe # << >>
        /\ outbox' = Append(outbox, Head(pipe)) /\ pipe' = Tail(pipe)
    BY DEF Read
  <1>2. /\ Len(pipe) \in Nat \ {0} /\ Head(pipe) = pipe[1] /\ pipe' \in Seq(Nat)
        /\ Len(pipe') = Len(pipe) - 1 /\ \A i \in 1..Len(pipe') : pipe'[i] = pipe[i + 1]
    BY <1>1 DEF RepliesInv
  <1>3. n \in Nat /\ sent \in Nat /\ Held \in 0..1 /\ n + Len(pipe) + Held = sent /\ Head(pipe) = n + 1
    BY <1>2 DEF RepliesInv, Held
  <1>4. /\ outbox' \in Seq(Nat) /\ Len(outbox') = n + 1
        /\ \A i \in 1..n : outbox'[i] = outbox[i]
        /\ outbox'[n + 1] = n + 1
    BY <1>1, <1>3, AppendFacts DEF RepliesInv
  <1>5. Held' = Held /\ WriterInv'
    BY <1>1 DEF Held, RepliesInv, WriterInv
  <1>6. \A i \in 1..Len(outbox') : outbox'[i] = i
    BY <1>3, <1>4 DEF RepliesInv
  <1>7. \A i \in 1..Len(pipe') : pipe'[i] = Len(outbox') + i
    BY <1>2, <1>3, <1>4 DEF RepliesInv
  <1>8. RepliesInv'
    <2>1. Len(outbox') + Len(pipe') + Held' = sent'
      <3>1. \A a, b, h \in Int : (a + 1) + (b - 1) + h = a + b + h
        OBVIOUS
      <3>2. n + Len(pipe) + Held = sent' /\ {n, Len(pipe), Held} \subseteq Int
        BY <1>1, <1>2, <1>3
      <3>3. Len(outbox') = n + 1 /\ Len(pipe') = Len(pipe) - 1 /\ Held' = Held
        BY <1>2, <1>4, <1>5
      <3> QED
        BY <3>1, <3>2, <3>3
    <2> QED
      BY <1>1, <1>2, <1>4, <1>5, <1>6, <1>7, <2>1 DEF RepliesInv
  <1>9. n < Len(Count(sent)) /\ Count(sent)[n + 1] = n + 1 /\ Len(Count(sent)) = sent
    BY <1>2, <1>3 DEF Count
  <1>10. OutboundState' \in {OutboundState, IF outbox' = Count(sent) THEN "ended" ELSE OutboundState}
    <2>1. CASE group = "left" /\ pipe' = << >>
      <3>1. Held = 0 /\ Len(pipe') = 0
        BY <2>1 DEF RepliesInv, WriterInv, Held
      <3>2. Len(pipe) = 1
        BY <1>2, <3>1
      <3>3. Len(outbox') = sent
        BY <1>3, <1>4, <3>1, <3>2
      <3>4. outbox' = Count(sent)
        BY <1>4, <1>6, <3>3, CountIs
      <3> QED
        BY <1>1, <2>1, <3>4 DEF OutboundState
    <2>2. CASE ~ (group = "left" /\ pipe' = << >>)
      BY <1>1, <2>2 DEF OutboundState
    <2> QED
      BY <2>1, <2>2
  <1> QED
    BY <1>1, <1>3, <1>8, <1>9, <1>10 DEF Outbound!Deliver, Count

(* The client goes away: what it has not read is lost.                     *)
LEMMA LeavesReplies ==
  ASSUME RepliesInv, Leaves
  PROVE  /\ RepliesInv'
         /\ Outbound!Break \/ UNCHANGED <<sent, outbox, OutboundState>>
  <1>1. /\ UNCHANGED <<sent, outbox, pipe, writer, group>> /\ client = "open" /\ group = "open"
        /\ client' \in {"closed", "failed", "gone"}
    BY DEF Leaves, stdoutVars
  <1>2. RepliesInv'
    BY <1>1 DEF RepliesInv, WriterInv, Held
  <1> QED
    BY <1>1, <1>2 DEF Outbound!Break, OutboundState

(* The task group is left.  With a client that is there and an empty pipe  *)
(* this is the end, and everything has been read.                          *)
LEMMA LeaveReplies ==
  ASSUME RepliesInv, Leave
  PROVE  /\ RepliesInv'
         /\ Outbound!Break \/ Outbound!End \/ UNCHANGED <<sent, outbox, OutboundState>>
  <1>1. /\ UNCHANGED <<sent, outbox, pipe, writer, client>> /\ group = "open"
        /\ \/ group' = "crashed"
           \/ group' = "left" /\ writer = "ended"
    BY DEF Leave, Loop, stdoutVars
  <1>2. RepliesInv'
    BY <1>1 DEF RepliesInv, WriterInv, Held
  <1>3. CASE client = "gone" \/ (group' = "left" /\ pipe # << >>)
    BY <1>1, <1>2, <1>3 DEF OutboundState
  <1>4. CASE client # "gone" /\ group' = "crashed"
    BY <1>1, <1>2, <1>4 DEF Outbound!Break, OutboundState
  <1>5. CASE client # "gone" /\ group' = "left" /\ pipe = << >>
    <2>1. Held = 0 /\ Len(pipe) = 0 /\ writer = "ended"
      BY <1>1, <1>5 DEF Held
    <2>2. Len(outbox) = sent
      BY <2>1 DEF RepliesInv
    <2>3. outbox = Count(sent)
      BY <2>2, CountIs DEF RepliesInv
    <2> QED
      BY <1>1, <1>2, <1>5, <2>3 DEF Outbound!End, OutboundState, Count
  <1> QED
    BY <1>1, <1>3, <1>4, <1>5

(* All other steps leave stdout alone.                                     *)
LEMMA QuietReplies ==
  ASSUME RepliesInv, UNCHANGED <<sent, outbox, pipe, client, group>>,
         \/ writer' = writer
         \/ writer = "idle" /\ writer' = "ended"
  PROVE  RepliesInv' /\ UNCHANGED <<sent, outbox, OutboundState>>
  <1>1. Held' = Held /\ WriterInv'
    BY DEF RepliesInv, WriterInv, Held
  <1> QED
    BY <1>1 DEF RepliesInv, OutboundState

LEMMA NextReplies ==
  ASSUME RepliesInv, [Next]_allVars
  PROVE  /\ RepliesInv'
         /\ \/ Outbound!Send \/ Outbound!Deliver \/ Outbound!End \/ Outbound!Break
            \/ UNCHANGED <<sent, outbox, OutboundState>>
  <1>1. CASE UNCHANGED stdioVars
    <2>1. UNCHANGED <<sent, outbox, pipe, client, group, writer>>
      BY <1>1 DEF stdioVars, stdoutVars
    <2> QED
      BY <2>1, QuietReplies
  <1>2. CASE Type \/ Readline \/ Handle \/ WriterEnds
             \/ SessionEnds("returned") \/ SessionEnds("raised")
    <2>1. UNCHANGED <<sent, outbox, pipe, client, group>>
          /\ (writer' = writer \/ (writer = "idle" /\ writer' = "ended"))
      BY <1>2 DEF Type, Readline, Handle, WriterEnds, SessionEnds, stdoutVars
    <2> QED
      BY <2>1, QuietReplies
  <1>3. CASE StdioNext
    BY <1>2, <1>3, SendsReplies, WriteReplies, ReadReplies, LeavesReplies, LeaveReplies, Zenon
       DEF StdioNext
  <1>4. UNCHANGED stdioVars \/ StdioNext
    <2>1. UNCHANGED allVars => UNCHANGED stdioVars
      BY Zenon DEF allVars
    <2>2. Stopped \/ JobsEnd => UNCHANGED stdioVars
      BY Zenon DEF Stopped, JobsEnd
    <2>3. Stdio(StdioNext) => StdioNext
      BY Zenon DEF Stdio
    <2> QED
      BY <2>1, <2>2, <2>3, Zenon DEF Next
  <1> QED
    BY <1>1, <1>3, <1>4, Zenon

(* The outbound half of Delivery, for pipes of any size and any number of  *)
(* messages: stdout_writer and the task group implement LineChannel        *)
(* (stdio_transport.py:74-87).                                             *)
THEOREM RepliesDelivered == Spec => Outbound!Spec
  <1>1. ASSUME RepliesInv, [Next]_allVars
        PROVE  [Outbound!Send \/ Outbound!Deliver \/ Outbound!End \/ Outbound!Break]_<<Count(sent), outbox, OutboundState>>
    BY <1>1, NextReplies DEF Count
  <1> QED
    BY <1>1, InitReplies, NextReplies, PTL DEF Spec, Outbound!Spec, Count
-----------------------------------------------------------------------------
(* The type invariant.  The transport needs its sequences.                 *)

InputType ==
  /\ source \in {Source(s, p) : s \in Standalone, p \in Pyproject}
  /\ option \in Option

AppType ==
  /\ InputType
  /\ phase \in {"load", "refused", "mcp", "crashed", "stdio", "http", "stopped"}
  /\ guard \in {"unset", "clients", "token", "none", "exit"}
  /\ fails \in 0..MaxFails

BusyType == busy \in BOOLEAN

StdioType ==
  /\ client \in {"open", "closed", "failed", "gone"}
  /\ lines \in Seq({"text", "blank"}) /\ Len(lines) <= MaxLines /\ taken \in 0..Len(lines)
  /\ line \in {"none", "text", "blank", "end", "error"}
  /\ reader \in {"run", "ended", "crashed"} /\ writer \in {"idle", "write", "ended", "crashed"}
  /\ session \in {"running", "returned", "raised"} /\ group \in {"open", "left", "crashed"}
  /\ sent \in 0..MaxReplies
  /\ pipe \in Seq(Nat) /\ Len(pipe) <= PipeSize

LEMMA InitType == Init => AppType /\ StdioType
  <1> SUFFICES ASSUME AppInit, StdioInit PROVE AppType /\ StdioType
    BY DEF Init
  <1>1. MaxFails \in Nat
    BY ApplicationAssumption
  <1>2. AppType
    BY <1>1 DEF AppInit, AppType, InputType
  <1>3. /\ lines \in Seq({"text", "blank"}) /\ Len(lines) = 0
        /\ pipe \in Seq(Nat) /\ Len(pipe) = 0
    BY DEF StdioInit
  <1>4. StdioType
    BY <1>3, StdioAssumption DEF StdioInit, StdioType
  <1> QED
    BY <1>2, <1>4

LEMMA NextAppType == AppType /\ [Next]_allVars => AppType'
  <1> SUFFICES ASSUME AppType, [Next]_allVars PROVE AppType'
    OBVIOUS
  <1>0. UNCHANGED inputs => InputType'
    BY DEF AppType, InputType, inputs
  <1>1. ASSUME NEW t \in Thread, NEW f \in Property, MakeRaises(t, f) PROVE AppType'
    <2>1. fails' \in 0..MaxFails
      <3>1. MaxFails \in Nat
        BY ApplicationAssumption
      <3>2. fails \in 0..MaxFails
        BY Zenon DEF AppType
      <3>3. fails < MaxFails /\ fails' = fails + 1
        BY <1>1, Zenon DEF MakeRaises
      <3> QED
        BY <3>1, <3>2, <3>3
    <2>2. UNCHANGED inputs /\ guard' = guard /\ phase' \in {phase, "crashed"}
      BY <1>1 DEF MakeRaises
    <2> QED
      BY <1>0, <2>1, <2>2 DEF AppType
  <1>2. ASSUME NEW t \in Thread, NEW f \in Property,
               Look(t, f) \/ Lock(t, f) \/ Check(t, f) \/ Make(t, f) \/ Access(t, f)
        PROVE  AppType'
    BY <1>0, <1>2 DEF Look, Lock, Check, Make, Access, AppType
  <1>3. CASE Load
    BY <1>0, <1>3 DEF Load, Moves, AppType
  <1>4. CASE RunStdio \/ Stopped
    BY <1>0, <1>4 DEF RunStdio, Stopped, Moves, AppType
  <1>5. CASE RunHttp
    <2>1. guard' \in {"clients", "token", "exit", "none"}
      BY <1>5 DEF RunHttp, Guard
    <2> QED
      BY <1>0, <1>5, <2>1 DEF RunHttp, AppType
  <1>6. CASE UNCHANGED appVars
    BY <1>0, <1>6 DEF appVars, AppType
  <1> QED
    BY <1>1, <1>2, <1>3, <1>4, <1>5, <1>6 DEF Next, AppStep, ReadStep, Stdio, JobsEnd, allVars

LEMMA NextBusy == BusyType /\ [Next]_allVars => BusyType'
  BY DEF BusyType, Next, Stdio, JobsEnd, Stopped, allVars

LEMMA NextStdioType == StdioType /\ [Next]_allVars => StdioType'
  <1> SUFFICES ASSUME StdioType, [Next]_allVars PROVE StdioType'
    OBVIOUS
  <1> USE StdioAssumption
  <1>1. CASE Type
    <2>1. PICK kind \in {"text", "blank"} : lines' = Append(lines, kind)
      BY <1>1 DEF Type
    <2>2. /\ lines' \in Seq({"text", "blank"}) /\ Len(lines') = Len(lines) + 1
          /\ Len(lines) \in Nat
      BY <2>1 DEF StdioType
    <2>3. Len(lines') <= MaxLines /\ taken \in 0..Len(lines')
      BY <1>1, <2>2 DEF Type, StdioType
    <2> QED
      BY <1>1, <2>2, <2>3 DEF Type, StdioType, stdoutVars
  <1>2. CASE Leaves
    BY <1>2 DEF Leaves, StdioType, stdinVars, stdoutVars
  <1>3. CASE Read
    <2>1. pipe' \in Seq(Nat) /\ Len(pipe') <= PipeSize
      BY <1>3 DEF Read, StdioType
    <2> QED
      BY <1>3, <2>1 DEF Read, StdioType, stdinVars
  <1>4. CASE Readline
    <2>1. Len(lines) \in Nat /\ \A i \in 1..Len(lines) : lines[i] \in {"text", "blank"}
      BY DEF StdioType
    <2>2. taken' \in 0..Len(lines) /\ line' \in {"text", "blank", "end", "error"}
      BY <1>4, <2>1 DEF Readline, StdioType
    <2> QED
      BY <1>4, <2>2 DEF Readline, StdioType, stdoutVars
  <1>5. CASE Handle
    BY <1>5 DEF Handle, StdioType, stdoutVars
  <1>6. CASE SessionSends
    BY <1>6 DEF SessionSends, StdioType, stdinVars
  <1>7. CASE SessionEnds("returned") \/ SessionEnds("raised")
    BY <1>7 DEF SessionEnds, StdioType, stdinVars, stdoutVars
  <1>8. CASE Write
    <2>1. pipe' \in Seq(Nat) /\ Len(pipe') <= PipeSize
      BY <1>8 DEF Write, StdioType
    <2> QED
      BY <1>8, <2>1 DEF Write, StdioType, stdinVars
  <1>9. CASE WriterEnds \/ Leave
    BY <1>9 DEF WriterEnds, Leave, StdioType, stdinVars, stdoutVars
  <1>10. CASE UNCHANGED stdioVars
    BY <1>10 DEF stdioVars, stdinVars, stdoutVars, StdioType
  <1> QED
    BY <1>1, <1>2, <1>3, <1>4, <1>5, <1>6, <1>7, <1>8, <1>9, <1>10
       DEF Next, Stdio, StdioNext, JobsEnd, Stopped, allVars

(* Ranks decrease along a stack, so that it is never deeper than the       *)
(* properties are many.                                                    *)
LEMMA Shallow == ASSUME NEW s \in Seq(Frame), Nested(s) PROVE Len(s) <= 3
  <1> SUFFICES ASSUME Len(s) > 3 PROVE FALSE
    OBVIOUS
  <1>1. {1, 2, 3, 4} \subseteq 1..Len(s)
    OBVIOUS
  <1>2. \A i \in {1, 2, 3, 4} : s[i].of \in Property /\ Rank[s[i].of] \in 1..3
    <2>1. \A i \in {1, 2, 3, 4} : s[i] \in Frame
      BY <1>1, ElementOfSeq
    <2>2. \A f \in Frame : f.of \in Property
      BY DEF Frame
    <2> QED
      BY <2>1, <2>2, Ranks
  <1>3. \A i \in {1, 2, 3} : Rank[s[i + 1].of] < Rank[s[i].of]
    BY <1>1 DEF Nested
  <1>4. /\ Rank[s[2].of] < Rank[s[1].of] /\ Rank[s[3].of] < Rank[s[2].of]
        /\ Rank[s[4].of] < Rank[s[3].of]
    BY <1>3
  <1> QED
    BY <1>2, <1>4

(* App, its threads and both ends of the transport keep their types, and a *)
(* thread is never inside more than the three properties (server.py:59-89).*)
THEOREM TypeCorrect == Spec => []TypeOK
  <1>1. Init => BusyType
    <2>1. Init => busy = FALSE
      BY DEF Init, AppInit
    <2> QED
      BY <2>1, Zenon DEF BusyType
  <1>2. AppInv /\ AppType /\ BusyType /\ StdioType => TypeOK
    <2> SUFFICES ASSUME AppInv, AppType, BusyType, StdioType PROVE TypeOK
      OBVIOUS
    <2>1. ASSUME NEW t \in Thread
          PROVE  Len(stack[t]) <= 3 /\ \A i \in DOMAIN stack[t] : stack[t][i] \in Frame
      <3>1. stack[t] \in Seq(Frame) /\ Nested(stack[t])
        BY DEF AppInv, Sound
      <3> QED
        BY <3>1, Shallow
    <2>2. made \in [Property -> Nat]
      BY DEF AppInv, Counts
    <2> QED
      BY <2>1, <2>2 DEF TypeOK, AppType, BusyType, InputType, StdioType
  <1> QED
    BY <1>1, <1>2, InitType, InitApp, NextApp, NextAppType, NextBusy, NextStdioType, PTL DEF Spec
-----------------------------------------------------------------------------
(* The inbound half of Delivery.  Texts is a recursive function; it is     *)
(* what it says it is, by NaturalsRecursion.                               *)

Line == {"text", "blank"}
IsText(ls, n) == n <= Len(ls) /\ ls[n] = "text"

LEMMA TextsEquation ==
  ASSUME NEW ls
  PROVE  Texts(ls) = [n \in Nat |->
           IF n = 0 THEN << >>
           ELSE IF IsText(ls, n) THEN Append(Texts(ls)[n - 1], n) ELSE Texts(ls)[n - 1]]
  <1> DEFINE g == [x \in Nat \X Seq(Nat) |->
                     IF IsText(ls, x[1] + 1) THEN Append(x[2], x[1] + 1) ELSE x[2]]
  <1>1. \A i \in Nat, s \in Seq(Nat) :
          g[<<i, s>>] = IF IsText(ls, i + 1) THEN Append(s, i + 1) ELSE s
    OBVIOUS
  <1>2. g \in [Nat \X Seq(Nat) -> Seq(Nat)] /\ << >> \in Seq(Nat)
    OBVIOUS
  <1> HIDE DEF g
  <1>3. PICK f \in [Nat -> Seq(Nat)] : Recurses(f, << >>, g)
    BY <1>2, PrimitiveRecursion
  <1>4. ASSUME NEW n \in Nat, n # 0
        PROVE  g[<<n - 1, f[n - 1]>>] = IF IsText(ls, n) THEN Append(f[n - 1], n) ELSE f[n - 1]
    <2>1. n - 1 \in Nat /\ (n - 1) + 1 = n
      BY <1>4
    <2> QED
      BY <1>1, <2>1
  <1>5. f = [n \in Nat |-> IF n = 0 THEN << >>
                           ELSE IF IsText(ls, n) THEN Append(f[n - 1], n) ELSE f[n - 1]]
    BY <1>3, <1>4 DEF Recurses
  <1> QED
    BY <1>5, Zenon DEF Texts, IsText

LEMMA TextsFacts ==
  ASSUME NEW ls
  PROVE  /\ Texts(ls)[0] = << >>
         /\ \A n \in Nat :
              Texts(ls)[n + 1] = IF IsText(ls, n + 1) THEN Append(Texts(ls)[n], n + 1)
                                 ELSE Texts(ls)[n]
  <1>1. Texts(ls)[0] = << >>
    BY TextsEquation
  <1>2. ASSUME NEW n \in Nat
        PROVE  Texts(ls)[n + 1] = IF IsText(ls, n + 1) THEN Append(Texts(ls)[n], n + 1)
                                  ELSE Texts(ls)[n]
    <2>1. n + 1 \in Nat /\ n + 1 # 0 /\ (n + 1) - 1 = n
      OBVIOUS
    <2> QED
      BY <2>1, TextsEquation
  <1> QED
    BY <1>1, <1>2

LEMMA TextsType == ASSUME NEW ls, NEW n \in Nat PROVE Texts(ls)[n] \in Seq(Nat)
  <1> DEFINE T == {k \in Nat : Texts(ls)[k] \in Seq(Nat)}
  <1>1. 0 \in T
    <2>1. Texts(ls)[0] = << >> /\ << >> \in Seq(Nat)
      BY TextsFacts
    <2> QED
      BY <2>1
  <1>2. ASSUME NEW k \in T PROVE k + 1 \in T
    <2>1. Texts(ls)[k + 1] \in {Append(Texts(ls)[k], k + 1), Texts(ls)[k]}
      BY TextsFacts
    <2>2. Texts(ls)[k] \in Seq(Nat) /\ k + 1 \in Nat
      OBVIOUS
    <2>3. Append(Texts(ls)[k], k + 1) \in Seq(Nat)
      BY <2>2
    <2> QED
      BY <2>1, <2>2, <2>3
  <1>3. T = Nat
    <2>1. T \in SUBSET Nat
      OBVIOUS
    <2> HIDE DEF T
    <2> QED
      BY <1>1, <1>2, <2>1, Induction
  <1> QED
    BY <1>3

(* A line that is written later changes nothing up to there.               *)
LEMMA TextsStable ==
  ASSUME NEW ls \in Seq(Line), NEW kind \in Line, NEW n \in Nat, n <= Len(ls)
  PROVE  Texts(Append(ls, kind))[n] = Texts(ls)[n]
  <1> DEFINE more == Append(ls, kind)
             T == {k \in Nat : k <= Len(ls) => Texts(more)[k] = Texts(ls)[k]}
  <1>1. /\ Len(ls) \in Nat /\ Len(more) = Len(ls) + 1
        /\ \A i \in 1..Len(ls) : more[i] = ls[i]
    OBVIOUS
  <1> HIDE DEF more
  <1>2. 0 \in T
    BY TextsFacts
  <1>3. ASSUME NEW k \in T PROVE k + 1 \in T
    <2> SUFFICES ASSUME k + 1 <= Len(ls) PROVE Texts(more)[k + 1] = Texts(ls)[k + 1]
      OBVIOUS
    <2>1. k \in Nat /\ Texts(more)[k] = Texts(ls)[k]
      BY <1>1
    <2>2. IsText(more, k + 1) <=> IsText(ls, k + 1)
      BY <1>1, <2>1 DEF IsText
    <2>3. /\ Texts(ls)[k + 1] = IF IsText(ls, k + 1) THEN Append(Texts(ls)[k], k + 1) ELSE Texts(ls)[k]
          /\ Texts(more)[k + 1] = IF IsText(more, k + 1) THEN Append(Texts(more)[k], k + 1) ELSE Texts(more)[k]
      BY <2>1, TextsFacts
    <2> QED
      BY <2>1, <2>2, <2>3
  <1>4. T = Nat
    <2>1. T \in SUBSET Nat
      OBVIOUS
    <2> HIDE DEF T
    <2> QED
      BY <1>2, <1>3, <2>1, Induction
  <1> QED
    BY <1>4 DEF more

(* What is there up to some line is the beginning of what is there up to a *)
(* later one.                                                              *)
Begins(s, t) == Len(s) <= Len(t) /\ \A i \in 1..Len(s) : t[i] = s[i]

LEMMA TextsGrow ==
  ASSUME NEW ls, NEW m \in Nat, NEW n \in Nat, m <= n
  PROVE  Begins(Texts(ls)[m], Texts(ls)[n])
  <1> DEFINE T == {k \in Nat : m <= k => Begins(Texts(ls)[m], Texts(ls)[k])}
  <1>t. \A k \in Nat : Texts(ls)[k] \in Seq(Nat) /\ Len(Texts(ls)[k]) \in Nat
    BY TextsType, LenProperties
  <1>0. Begins(Texts(ls)[m], Texts(ls)[m])
    BY <1>t DEF Begins
  <1>1. 0 \in T
    <2> SUFFICES ASSUME m <= 0 PROVE Begins(Texts(ls)[m], Texts(ls)[0])
      OBVIOUS
    <2>1. m = 0
      OBVIOUS
    <2> QED
      BY <1>0, <2>1
  <1>2. ASSUME NEW k \in T PROVE k + 1 \in T
    <2> SUFFICES ASSUME m <= k + 1 PROVE Begins(Texts(ls)[m], Texts(ls)[k + 1])
      OBVIOUS
    <2>1. CASE m = k + 1
      BY <1>0, <2>1
    <2>2. CASE m <= k
      <3>1. Begins(Texts(ls)[m], Texts(ls)[k])
        BY <2>2
      <3>2. Begins(Texts(ls)[k], Texts(ls)[k + 1])
        <4>1. CASE IsText(ls, k + 1)
          <5> DEFINE s == Texts(ls)[k]
          <5>1. s \in Seq(Nat) /\ Texts(ls)[k + 1] = Append(s, k + 1)
            BY <1>t, <4>1, TextsFacts
          <5> HIDE DEF s
          <5>2. Len(s) <= Len(Append(s, k + 1)) /\ \A i \in 1..Len(s) : Append(s, k + 1)[i] = s[i]
            BY <5>1
          <5> QED
            BY <5>1, <5>2 DEF Begins, s
        <4>2. CASE ~IsText(ls, k + 1)
          <5>1. Texts(ls)[k + 1] = Texts(ls)[k]
            BY <4>2, TextsFacts
          <5> QED
            BY <1>t, <5>1 DEF Begins
        <4> QED
          BY <4>1, <4>2
      <3>3. /\ Len(Texts(ls)[m]) \in Nat /\ Len(Texts(ls)[k]) \in Nat
            /\ Len(Texts(ls)[k + 1]) \in Nat
        BY <1>t
      <3> QED
        BY <3>1, <3>2, <3>3 DEF Begins
    <2> QED
      BY <2>1, <2>2
  <1>3. T = Nat
    <2>1. T \in SUBSET Nat
      OBVIOUS
    <2> HIDE DEF T
    <2> QED
      BY <1>1, <1>2, <2>1, Induction
  <1> QED
    BY <1>3
-----------------------------------------------------------------------------
(* What stdin_reader has passed on: the lines up to the one that it holds. *)
LinesInv ==
  /\ line = "text" => taken > 0 /\ lines[taken] = "text"
  /\ inbox = Texts(lines)[IF line = "text" THEN taken - 1 ELSE taken]
  /\ line = "end" => taken = Len(lines) /\ client \in {"closed", "gone"}
  /\ reader = "ended" => line \in {"end", "error"}

InboundStutters == UNCHANGED <<Text, inbox, InboundState>>

LEMMA TypeLines ==
  ASSUME StdioType, LinesInv, Type
  PROVE  LinesInv' /\ (Inbound!Send \/ InboundStutters)
  <1>1. PICK kind \in Line : lines' = Append(lines, kind)
    BY DEF Type, Line
  <1>2. /\ UNCHANGED <<client, taken, line, reader, inbox, group>> /\ client = "open"
        /\ Len(lines) < MaxLines
    BY DEF Type
  <1>3. /\ lines \in Seq(Line) /\ Len(lines) \in Nat /\ taken \in 0..Len(lines)
        /\ Len(lines') = Len(lines) + 1 /\ \A i \in 1..Len(lines) : lines'[i] = lines[i]
    BY <1>1 DEF StdioType, Line
  <1>4. \A n \in 0..Len(lines) : Texts(lines')[n] = Texts(lines)[n]
    BY <1>1, <1>3, TextsStable
  <1>5. LinesInv'
    <2>1. line = "text" => taken \in 1..Len(lines) /\ taken - 1 \in 0..Len(lines)
      BY <1>3 DEF LinesInv
    <2> QED
      BY <1>2, <1>3, <1>4, <2>1 DEF LinesInv
  <1>6. InboundState' = InboundState /\ InboundState # "ended"
    BY <1>2 DEF InboundState, LinesInv
  <1>7. Text' \in {Append(Text, Len(lines) + 1), Text}
    <2>1. Text' = Texts(lines')[Len(lines) + 1]
      BY <1>3 DEF Text
    <2>2. Texts(lines')[Len(lines) + 1] \in
            {Append(Texts(lines')[Len(lines)], Len(lines) + 1), Texts(lines')[Len(lines)]}
      BY <1>3, TextsFacts
    <2>3. Texts(lines')[Len(lines)] = Text
      BY <1>3, <1>4 DEF Text
    <2> QED
      BY <2>1, <2>2, <2>3
  <1>8. Len(lines) + 1 \in 1..MaxLines
    BY <1>2, <1>3, StdioAssumption
  <1> QED
    BY <1>2, <1>5, <1>6, <1>7, <1>8 DEF Inbound!Send, InboundStutters

LEMMA ReadlineLines ==
  ASSUME StdioType, LinesInv, Readline
  PROVE  LinesInv' /\ InboundStutters
  <1>1. UNCHANGED <<client, lines, reader, inbox, group>> /\ reader = "run" /\ line = "none"
    BY DEF Readline
  <1>2. InboundStutters
    BY <1>1 DEF InboundStutters, InboundState, Text
  <1>3. taken \in Nat /\ Len(lines) \in Nat /\ inbox = Texts(lines)[taken]
    BY <1>1 DEF StdioType, LinesInv
  <1>4. CASE taken < Len(lines) /\ taken' = taken + 1 /\ line' = lines[taken']
    <2>1. taken' \in 1..Len(lines) /\ taken' - 1 = taken
      BY <1>3, <1>4
    <2>2. lines[taken'] \in {"text", "blank"}
      BY <2>1 DEF StdioType
    <2>3. CASE line' = "text"
      <3>1. inbox' = Texts(lines)[taken' - 1] /\ taken' > 0 /\ lines[taken'] = "text"
        BY <1>1, <1>3, <1>4, <2>1, <2>3
      <3> QED
        BY <1>1, <1>2, <2>3, <3>1 DEF LinesInv
    <2>4. CASE line' = "blank"
      <3>1. Texts(lines)[taken + 1] = Texts(lines)[taken]
        BY <1>3, <1>4, <2>4, TextsFacts DEF IsText
      <3>2. inbox' = Texts(lines)[taken']
        BY <1>1, <1>3, <1>4, <3>1
      <3> QED
        BY <1>1, <1>2, <2>4, <3>2 DEF LinesInv
    <2> QED
      BY <1>2, <1>4, <2>2, <2>3, <2>4
  <1>5. CASE taken = Len(lines) /\ client \in {"closed", "gone"} /\ line' = "end" /\ taken' = taken
    <2>1. LinesInv'
      BY <1>1, <1>3, <1>5 DEF LinesInv
    <2> QED
      BY <1>2, <2>1
  <1>6. CASE line' = "error" /\ taken' = taken
    <2>1. LinesInv'
      BY <1>1, <1>3, <1>6 DEF LinesInv
    <2> QED
      BY <1>2, <2>1
  <1> QED
    BY <1>4, <1>5, <1>6 DEF Readline

(* Sending a line on; it is the next one of those that are not blank.      *)
LEMMA PassLine ==
  ASSUME StdioType, LinesInv, line = "text"
  PROVE  /\ Append(inbox, taken) = Texts(lines)[taken]
         /\ Len(inbox) < Len(Text) /\ taken = Text[Len(inbox) + 1]
  <1>1. taken \in 1..Len(lines) /\ Len(lines) \in Nat /\ lines[taken] = "text"
    BY DEF StdioType, LinesInv
  <1>2. taken - 1 \in Nat /\ (taken - 1) + 1 = taken /\ taken \in Nat /\ taken <= Len(lines)
    BY <1>1
  <1>3. inbox = Texts(lines)[taken - 1] /\ inbox \in Seq(Nat)
    BY <1>2, TextsType DEF LinesInv
  <1>4. Texts(lines)[taken] = Append(inbox, taken)
    BY <1>1, <1>2, <1>3, TextsFacts DEF IsText
  <1>5. Begins(Append(inbox, taken), Text)
    BY <1>1, <1>2, <1>4, TextsGrow DEF Text
  <1>6. /\ Len(inbox) \in Nat /\ Len(Append(inbox, taken)) = Len(inbox) + 1
        /\ Append(inbox, taken)[Len(inbox) + 1] = taken
    BY <1>2, <1>3
  <1>7. Len(Text) \in Nat
    BY <1>1, TextsType, LenProperties DEF Text
  <1> QED
    BY <1>4, <1>5, <1>6, <1>7 DEF Begins

LEMMA HandleLines ==
  ASSUME StdioType, LinesInv, Handle
  PROVE  /\ LinesInv'
         /\ Inbound!Deliver \/ Inbound!End \/ Inbound!Break \/ InboundStutters
  <1>1. /\ UNCHANGED <<client, lines, taken, group>> /\ group = "open" /\ reader = "run"
        /\ line \in {"text", "blank", "end", "error"}
    BY DEF Handle, Loop, StdioType
  <1>2. Text' = Text /\ InboundState = "open"
    BY <1>1 DEF Text, InboundState
  <1>3. CASE line = "end"
    <2>1. reader' = "ended" /\ UNCHANGED <<line, inbox>>
      BY <1>3 DEF Handle, Done
    <2>2. inbox = Text /\ InboundState' = "ended"
      BY <1>3, <2>1 DEF LinesInv, Text, InboundState
    <2>3. LinesInv'
      BY <1>1, <1>3, <2>1 DEF LinesInv
    <2> QED
      BY <1>2, <2>1, <2>2, <2>3 DEF Inbound!End
  <1>4. CASE line = "blank"
    <2>1. line' = "none" /\ UNCHANGED <<reader, inbox>>
      BY <1>4 DEF Handle, Done
    <2>2. LinesInv'
      BY <1>1, <1>4, <2>1 DEF LinesInv
    <2> QED
      BY <1>1, <1>2, <2>1, <2>2 DEF InboundStutters, InboundState
  <1>5. CASE line \in {"text", "error"} /\ session # "running"
    <2>1. reader' = "crashed" /\ UNCHANGED <<line, inbox>>
      BY <1>5 DEF Handle, Done
    <2>2. LinesInv'
      BY <1>1, <2>1 DEF LinesInv
    <2> QED
      BY <1>2, <2>1, <2>2 DEF Inbound!Break, InboundState
  <1>6. CASE line = "error" /\ session = "running"
    <2>1. reader' = "ended" /\ UNCHANGED <<line, inbox>>
      BY <1>6 DEF Handle, Done
    <2>2. LinesInv'
      BY <1>1, <1>6, <2>1 DEF LinesInv
    <2> QED
      BY <1>2, <1>6, <2>1, <2>2 DEF Inbound!Break, InboundState
  <1>7. CASE line = "text" /\ session = "running"
    <2>1. inbox' = Append(inbox, taken) /\ line' = "none" /\ reader' = reader
      BY <1>7 DEF Handle, Done
    <2>2. LinesInv'
      BY <1>1, <1>7, <2>1, PassLine DEF LinesInv
    <2>3. InboundState' = InboundState
      BY <1>1, <2>1 DEF InboundState
    <2> QED
      BY <1>2, <1>7, <2>1, <2>2, <2>3, PassLine DEF Inbound!Deliver
  <1> QED
    BY <1>1, <1>3, <1>4, <1>5, <1>6, <1>7

LEMMA LeaveLines ==
  ASSUME LinesInv, Leave
  PROVE  LinesInv' /\ (Inbound!Break \/ InboundStutters)
  <1>1. UNCHANGED <<client, stdinVars>> /\ group = "open"
    BY DEF Leave, Loop
  <1>2. LinesInv' /\ UNCHANGED <<Text, inbox, reader, line>>
    BY <1>1 DEF LinesInv, stdinVars, Text
  <1>3. \/ group' = "crashed"
        \/ group' = "left" /\ reader = "ended"
    BY DEF Leave
  <1> QED
    BY <1>1, <1>2, <1>3 DEF Inbound!Break, InboundStutters, InboundState

(* All other steps leave stdin alone, but for the client that goes away.   *)
LEMMA QuietLines ==
  ASSUME LinesInv, UNCHANGED <<stdinVars, group>>,
         \/ client' = client
         \/ client = "open"
  PROVE  LinesInv' /\ InboundStutters
  <1>1. UNCHANGED <<lines, taken, line, reader, inbox, group>>
    BY DEF stdinVars
  <1>2. LinesInv'
    BY <1>1 DEF LinesInv
  <1> QED
    BY <1>1, <1>2 DEF InboundStutters, InboundState, Text

LEMMA NextLines ==
  ASSUME StdioType, LinesInv, [Next]_allVars
  PROVE  /\ LinesInv'
         /\ \/ Inbound!Send \/ Inbound!Deliver \/ Inbound!End \/ Inbound!Break
            \/ InboundStutters
  <1>1. CASE UNCHANGED stdioVars
    <2>1. UNCHANGED <<stdinVars, group, client>>
      BY <1>1 DEF stdioVars
    <2> QED
      BY <2>1, QuietLines
  <1>2. CASE \/ Leaves \/ Read \/ SessionSends \/ Write \/ WriterEnds
             \/ SessionEnds("returned") \/ SessionEnds("raised")
    <2>1. UNCHANGED <<stdinVars, group>> /\ (client' = client \/ client = "open")
      BY <1>2 DEF Leaves, Read, SessionSends, Write, WriterEnds, SessionEnds
    <2> QED
      BY <2>1, QuietLines
  <1>3. CASE StdioNext
    BY <1>2, <1>3, TypeLines, ReadlineLines, HandleLines, LeaveLines, Zenon DEF StdioNext
  <1>4. UNCHANGED stdioVars \/ StdioNext
    BY Zenon DEF Next, Stdio, JobsEnd, Stopped, allVars
  <1> QED
    BY <1>1, <1>3, <1>4, Zenon

(* Both halves: lines reach the session and replies the client, once and   *)
(* in order, and neither end is told of an end before it has everything,   *)
(* for any number of lines, replies and bytes in the pipe, whatever the    *)
(* session, the pipe or the client do meanwhile (stdio_transport.py:52-87).*)
THEOREM Delivered == Spec => Delivery
  <1>1. Init => StdioType /\ LinesInv /\ Inbound!Init
    <2> SUFFICES ASSUME Init PROVE StdioType /\ LinesInv /\ Inbound!Init
      OBVIOUS
    <2>1. Text = << >> /\ Texts(lines)[0] = << >>
      BY TextsFacts DEF Init, StdioInit, Text
    <2>2. LinesInv
      BY <2>1 DEF Init, StdioInit, LinesInv
    <2>3. Inbound!Init
      BY <2>1 DEF Init, StdioInit, Inbound!Init, InboundState
    <2> QED
      BY <2>2, <2>3, InitType
  <1>2. ASSUME StdioType, LinesInv, [Next]_allVars
        PROVE  [Inbound!Send \/ Inbound!Deliver \/ Inbound!End \/ Inbound!Break]_<<Text, inbox, InboundState>>
    BY <1>2, NextLines DEF InboundStutters
  <1>3. Spec => Inbound!Spec
    BY <1>1, <1>2, NextLines, NextStdioType, PTL DEF Spec, Inbound!Spec
  <1> QED
    BY <1>3, RepliesDelivered, PTL DEF Delivery
-----------------------------------------------------------------------------
(* The configuration: what _validate lets pass is what the builders rely   *)
(* on.                                                                     *)

LEMMA MinIs ==
  ASSUME NEW S, S \subseteq Int, NEW m \in S, \A y \in S : m <= y
  PROVE  Min(S) = m
  <1>1. Min(S) \in S /\ \A y \in S : Min(S) <= y
    BY Zenon DEF Min
  <1>2. Min(S) <= m /\ m <= Min(S) /\ Min(S) \in Int /\ m \in Int
    BY <1>1, Zenon
  <1> QED
    BY <1>2

LEMMA MaxIs ==
  ASSUME NEW S, S \subseteq Int, NEW m \in S, \A y \in S : m >= y
  PROVE  Max(S) = m
  <1>1. Max(S) \in S /\ \A y \in S : Max(S) >= y
    BY Zenon DEF Max
  <1>2. Max(S) >= m /\ m >= Max(S) /\ Max(S) \in Int /\ m \in Int
    BY <1>1, Zenon
  <1> QED
    BY <1>2

LEMMA MinOfTwo ==
  ASSUME NEW a \in Int, NEW b \in Int
  PROVE  Min({a, b}) = IF a <= b THEN a ELSE b
  <1>1. CASE a <= b
    <2>1. {a, b} \subseteq Int /\ a \in {a, b} /\ \A y \in {a, b} : a <= y
      BY <1>1
    <2> QED
      BY <1>1, <2>1, MinIs
  <1>2. CASE ~(a <= b)
    <2>1. {a, b} \subseteq Int /\ b \in {a, b} /\ \A y \in {a, b} : b <= y
      BY <1>2
    <2> QED
      BY <1>2, <2>1, MinIs
  <1> QED
    BY <1>1, <1>2

LEMMA MaxOfTwo ==
  ASSUME NEW a \in Int, NEW b \in Int
  PROVE  Max({a, b}) = IF a >= b THEN a ELSE b
  <1>1. CASE a >= b
    <2>1. {a, b} \subseteq Int /\ a \in {a, b} /\ \A y \in {a, b} : a >= y
      BY <1>1
    <2> QED
      BY <1>1, <2>1, MaxIs
  <1>2. CASE ~(a >= b)
    <2>1. {a, b} \subseteq Int /\ b \in {a, b} /\ \A y \in {a, b} : b >= y
      BY <1>2
    <2> QED
      BY <1>2, <2>1, MaxIs
  <1> QED
    BY <1>1, <1>2

(* KernelPool.__init__ makes a pool that can hold what it makes.           *)
LEMMA PoolSizes ==
  ASSUME NEW kc, kc.pool_size \in Int, kc.pool_min_idle \in Int
  PROVE  PoolSize(kc) \in Nat \ {0} /\ MinIdle(kc) \in 1..PoolSize(kc)
  <1> DEFINE cpus == IF CpuCount = 0 THEN 2 ELSE CpuCount
             size == PoolSize(kc)
             least == Min({kc.pool_min_idle, size})
  <1>1. cpus \in Nat \ {0} /\ Min({cpus, 4}) = IF cpus <= 4 THEN cpus ELSE 4
    <2>0. CpuCount \in Nat
      BY ConfigAssumption, Zenon
    <2>1. cpus \in Nat \ {0} /\ cpus \in Int /\ 4 \in Int
      BY <2>0
    <2> HIDE DEF cpus
    <2> QED
      BY <2>1, MinOfTwo
  <1>2. size \in Nat \ {0}
    <2>1. size = IF kc.pool_size > 0 THEN kc.pool_size ELSE Min({cpus, 4})
      BY DEF PoolSize
    <2> HIDE DEF cpus, size
    <2> QED
      BY <1>1, <2>1
  <1>3. MinIdle(kc) = Max({1, least})
    BY DEF MinIdle
  <1> HIDE DEF size
  <1>4. least \in Int /\ least <= size
    <2>1. least = IF kc.pool_min_idle <= size THEN kc.pool_min_idle ELSE size
      BY <1>2, MinOfTwo
    <2> QED
      BY <1>2, <2>1
  <1> HIDE DEF least
  <1>5. MinIdle(kc) = IF 1 >= least THEN 1 ELSE least
    BY <1>3, <1>4, MaxOfTwo
  <1>6. MinIdle(kc) \in 1..size
    BY <1>2, <1>4, <1>5
  <1> QED
    BY <1>2, <1>6 DEF size

LEMMA InFront ==
  ASSUME NEW S, NEW h \in S, NEW s \in Seq(S)
  PROVE  <<h>> \o s \in Seq(S) /\ Len(<<h>> \o s) \in Nat \ {0} /\ (<<h>> \o s)[1] = h
  OBVIOUS

(* find_kernel looks at the configured path first.                         *)
LEMMA HintFirst == ASSUME NEW hint \in Kernel PROVE KernelPath(hint) = hint
  <1> DEFINE tried == <<hint>> \o Candidates
             found == {i \in DOMAIN tried : tried[i] \in Kernel}
  <1>1. hint \in STRING /\ Candidates \in Seq(STRING)
    BY ConfigAssumption
  <1>2. tried \in Seq(STRING) /\ Len(tried) \in Nat \ {0} /\ tried[1] = hint
    BY <1>1, InFront
  <1>3. DOMAIN tried = 1..Len(tried)
    BY <1>2
  <1> HIDE DEF tried
  <1>4. found \subseteq Int /\ 1 \in found /\ \A y \in found : 1 <= y
    BY <1>2, <1>3
  <1>5. KernelPath(hint) = IF found = {} THEN "" ELSE tried[Min(found)]
    BY DEF KernelPath, tried
  <1>6. Min(found) = 1
    <2> HIDE DEF found
    <2> QED
      BY <1>4, MinIs
  <1> QED
    BY <1>2, <1>4, <1>5, <1>6

(* Without authentication there are neither roles nor clients.             *)
LEMMA NoRoles ==
  ASSUME ~config.auth.enabled
  PROVE  DOMAIN config.auth.roles = {} /\ DOMAIN config.auth.clients = {}
  <1> DEFINE sec == Section(source, "auth")
  <1>1. config.auth = AuthOf(sec)
    BY DEF config, Loaded
  <1>2. AuthOf(sec).enabled = Get(sec, "enabled", FALSE)
    BY DEF AuthOf
  <1>3. ~Get(sec, "enabled", FALSE)
    BY <1>1, <1>2
  <1>4. \A defaults : DOMAIN NamedTables(Empty, defaults) = {}
    BY DEF NamedTables, Tables, Empty
  <1>5. /\ AuthOf(sec).roles = NamedTables(Empty, RoleDefaults)
        /\ AuthOf(sec).clients = NamedTables(Empty, ClientDefaults)
    BY <1>3 DEF AuthOf
  <1> QED
    BY <1>1, <1>4, <1>5

LEMMA Parameters == ASSUME Numeric(config), Valid(config) PROVE ParametersReady
  <1> DEFINE kc == config.kernel
             roles == config.auth.roles
  <1>1. \A k \in KernelNumbers : kc[k] \in Int /\ kc[k] >= 0
    BY DEF Numeric, Valid, KernelValid, NotNegative
  <1>2. /\ kc.pool_size \in Int /\ kc.pool_min_idle \in Int
        /\ kc.hard_timeout \in Nat /\ kc.max_result_size \in Nat
    BY <1>1 DEF KernelNumbers
  <1>3. PoolSize(kc) \in Nat \ {0} /\ MinIdle(kc) \in 1..PoolSize(kc)
    BY <1>2, PoolSizes
  <1>4. kc.mathkernel \in {"", KernelPath(kc.mathkernel)}
    <2>1. kc.mathkernel # "" => kc.mathkernel \in Kernel
      BY DEF Valid, KernelValid
    <2> QED
      BY <2>1, HintFirst
  <1>5. ASSUME NEW r \in DOMAIN roles
        PROVE  roles[r].hard_timeout \in Nat /\ roles[r].max_result_size \in Nat
    <2>1. \A k \in RoleNumbers : roles[r][k] \in Int /\ roles[r][k] >= 0
      <3>1. CASE config.auth.enabled
        BY <3>1 DEF Numeric, Valid, AuthValid, RoleValid, NotNegative
      <3>2. CASE ~config.auth.enabled
        BY <3>2, NoRoles
      <3> QED
        BY <3>1, <3>2
    <2> QED
      BY <2>1 DEF RoleNumbers
  <1>6. \A r \in DOMAIN Runtimes(config) :
          /\ Runtimes(config)[r].hard = roles[r].hard_timeout
          /\ Runtimes(config)[r].size = roles[r].max_result_size
          /\ r \in DOMAIN roles
    BY DEF Runtimes
  <1> QED
    BY <1>2, <1>3, <1>4, <1>5, <1>6 DEF ParametersReady

LEMMA Roles == ASSUME Valid(config) PROVE RolesReady
  <1> DEFINE roles == config.auth.roles
             clients == config.auth.clients
             tools == {Runtimes(config)[r].tools : r \in DOMAIN roles}
  <1>1. DOMAIN Runtimes(config) = DOMAIN roles
    BY DEF Runtimes
  <1>2. ASSUME NEW c \in DOMAIN clients PROVE clients[c].role \in DOMAIN roles
    <2>1. CASE config.auth.enabled
      BY <2>1 DEF Valid, AuthValid, ClientValid
    <2>2. CASE ~config.auth.enabled
      BY <2>2, NoRoles
    <2> QED
      BY <2>1, <2>2
  <1>3. ASSUME NEW r \in DOMAIN roles PROVE Runtimes(config)[r].tools \cap Tool \subseteq Bound(config)
    <2>1. Enabled(config) = UNION tools
      BY DEF Enabled
    <2>2. Runtimes(config)[r].tools \in tools
      OBVIOUS
    <2>3. Runtimes(config)[r].tools \subseteq Enabled(config)
      BY <2>1, <2>2, Zenon
    <2> QED
      BY <2>3, Zenon DEF Bound
  <1> QED
    BY <1>1, <1>2, <1>3 DEF RolesReady

(* What setup_http_auth puts in front is what the sections of the file say.*)
LEMMA GuardedBy ==
  ASSUME phase = "http" => \E token \in BOOLEAN : guard = Guard(token) /\ guard # "exit"
  PROVE  Guarded
  <1>1. config.auth.enabled = Get(Section(source, "auth"), "enabled", FALSE)
    BY DEF config, Loaded, AuthOf
  <1>2. config.server.auth_token_env = Get(Section(source, "server"), "auth_token_env", "")
    BY DEF config, Loaded, Filled, ServerDefaults
  <1> QED
    BY <1>1, <1>2 DEF Guarded, Guard

LEMMA ResolveMonotone ==
  ASSUME NEW groups, NEW A, NEW B, A \subseteq B
  PROVE  Resolve(groups, A) \subseteq Resolve(groups, B)
  BY DEF Resolve

(* What a single name needs to pass: its short name is looked up.          *)
LEMMA PassesOne ==
  ASSUME NEW filter, NEW s
  PROVE  Passes(filter, {s}) <=> IF filter.mode = "blacklist" THEN Short[s] \notin filter.policy
                                                              ELSE Short[s] \in filter.policy
  <1>1. Symbols({s}) = {Short[s]}
    BY DEF Symbols
  <1> QED
    BY <1>1 DEF Passes

(* A filter keeps what the policy forbids that it is built from.  The mode *)
(* and the lists are given one by one, since a role is no [security]       *)
(* section, but has the same lists.                                        *)
LEMMA BuiltKeeps ==
  ASSUME NEW sec, NEW mode, NEW policy, sec.mode = mode,
         sec.deny_groups = policy.deny_groups, sec.allow_groups = policy.allow_groups,
         sec.extra_blocked = policy.extra_blocked, sec.extra_allowed = policy.extra_allowed
  PROVE  Keeps(BuildFilter(Groups, sec, Dangerous, Safe), mode, policy)
  <1> DEFINE filter == BuildFilter(Groups, sec, Dangerous, Safe)
             denied == OrDefault(policy.deny_groups, Dangerous)
             allowed == Resolve(Groups, OrDefault(policy.allow_groups, Safe)) \cup policy.extra_allowed
             blocked == Resolve(Groups, Dangerous) \cup policy.extra_blocked
  <1>1. CASE mode = "blacklist"
    <2>1. filter.mode = "blacklist" /\ filter.policy = Resolve(Groups, denied) \cup policy.extra_blocked
      BY <1>1 DEF BuildFilter, BlacklistFilter, Filter
    <2> HIDE DEF filter
    <2>2. ASSUME NEW s \in DOMAIN Short, Passes(filter, {s})
          PROVE  Short[s] \notin Resolve(Groups, denied) /\ Short[s] \notin policy.extra_blocked
      BY <2>1, <2>2, PassesOne
    <2>3. policy.deny_groups = {} \/ Dangerous \subseteq policy.deny_groups =>
            Resolve(Groups, Dangerous) \subseteq Resolve(Groups, denied)
      <3>1. policy.deny_groups = {} \/ Dangerous \subseteq policy.deny_groups => Dangerous \subseteq denied
        BY DEF OrDefault
      <3> QED
        BY <3>1, ResolveMonotone
    <2> HIDE DEF denied
    <2>4. Keeps(filter, mode, policy)
      BY <1>1, <2>2, <2>3 DEF Keeps
    <2> QED
      BY <2>4 DEF filter
  <1>2. CASE mode # "blacklist"
    <2>1. filter.mode = "whitelist" /\ filter.policy = allowed \ blocked
      BY <1>2 DEF BuildFilter, WhitelistFilter, Filter
    <2> HIDE DEF filter
    <2>2. ASSUME NEW s \in DOMAIN Short, Passes(filter, {s})
          PROVE  Short[s] \in allowed /\ Short[s] \notin blocked
      BY <2>1, <2>2, PassesOne
    <2>3. Keeps(filter, mode, policy)
      BY <2>2 DEF Keeps
    <2> QED
      BY <2>3 DEF filter
  <1> QED
    BY <1>1, <1>2

LEMMA Filtered == FilteredAsAsked
  <1> DEFINE roles == config.auth.roles
  <1>1. Keeps(ContextFilter(config), config.security.mode, config.security)
    BY BuiltKeeps DEF ContextFilter
  <1>2. ASSUME NEW r \in DOMAIN roles
        PROVE  /\ roles[r].security = "" =>
                    Keeps(Runtimes(config)[r].filter, config.security.mode, config.security)
               /\ roles[r].security \notin {"", "none"} =>
                    Keeps(Runtimes(config)[r].filter, roles[r].security, roles[r])
    <2> DEFINE role == roles[r]
               sec  == RolePolicy(role)
    <2>1. Runtimes(config)[r].filter = RoleFilter(config, role)
      BY DEF Runtimes
    <2>2. role.security = "" => RoleFilter(config, role) = ContextFilter(config)
      BY DEF RoleFilter
    <2>3. role.security \notin {"", "none"} =>
            RoleFilter(config, role) = BuildFilter(Groups, sec, Dangerous, Safe)
      BY DEF RoleFilter
    <2>4. /\ sec.mode = role.security
          /\ sec.deny_groups = role.deny_groups /\ sec.allow_groups = role.allow_groups
          /\ sec.extra_blocked = role.extra_blocked /\ sec.extra_allowed = role.extra_allowed
      BY DEF RolePolicy
    <2> HIDE DEF role, sec
    <2>5. Keeps(BuildFilter(Groups, sec, Dangerous, Safe), role.security, role)
      BY <2>4, BuiltKeeps
    <2>6. /\ role.security = "" =>
               Keeps(Runtimes(config)[r].filter, config.security.mode, config.security)
          /\ role.security \notin {"", "none"} =>
               Keeps(Runtimes(config)[r].filter, role.security, role)
      BY <1>1, <2>1, <2>2, <2>3, <2>5
    <2> QED
      BY <2>6 DEF role
  <1> QED
    BY <1>1, <1>2, Zenon DEF FilteredAsAsked

LEMMA SectionsOfFive ==
  ASSUME NEW a, NEW b, NEW c, NEW d, NEW e,
         NEW file, file = [kernel |-> a, server |-> b, tls |-> c, security |-> d, tools |-> e]
  PROVE  /\ Section(file, "kernel") = a /\ Section(file, "server") = b
         /\ Section(file, "tls") = c /\ Section(file, "security") = d
         /\ Section(file, "tools") = e /\ Section(file, "auth") = Empty
  <1>1. DOMAIN file = {"kernel", "server", "tls", "security", "tools"}
    OBVIOUS
  <1> QED
    BY <1>1 DEF Section, Get

(* `mma-mcp init` writes what holds without a file.                        *)
LEMMA GeneratedAsDefault == GeneratedMeansDefaults
  <1> SUFFICES ASSUME source = Generated
               PROVE  [config EXCEPT !.tools = ToolsDefaults] = Loaded(Empty)
    BY DEF GeneratedMeansDefaults
  <1>1. ASSUME NEW name PROVE Section(Empty, name) = Empty
    BY DEF Section, Get, Empty
  <1>2. ASSUME NEW d PROVE Filled(Empty, d) = [k \in DOMAIN d |-> d[k]]
    BY DEF Filled, Get, Empty
  <1> DEFINE SecurityPart == [mode |-> "blacklist", deny_groups |-> Dangerous]
  <1>g. Generated = [kernel |-> GeneratedKernel, server |-> GeneratedServer, tls |-> TlsDefaults,
                     security |-> SecurityPart, tools |-> [enabled |-> {"evaluate"}]]
    BY Zenon DEF Generated, TlsDefaults
  <1>3. Filled(Section(Generated, "kernel"), KernelDefaults) = [k \in DOMAIN KernelDefaults |-> KernelDefaults[k]]
    <2>1. Section(Generated, "kernel") = GeneratedKernel
      BY <1>g, SectionsOfFive
    <2>2. GeneratedKernel = KernelDefaults
      BY DEF GeneratedKernel, KernelDefaults
    <2>3. \A d : Filled(d, d) = [k \in DOMAIN d |-> d[k]]
      BY DEF Filled, Get
    <2> QED
      BY <2>1, <2>2, <2>3
  <1>4. Filled(Section(Generated, "server"), ServerDefaults) = [k \in DOMAIN ServerDefaults |-> ServerDefaults[k]]
    <2>1. Section(Generated, "server") = GeneratedServer
      BY <1>g, SectionsOfFive
    <2>2. DOMAIN GeneratedServer = {"transport", "port"}
      BY DEF GeneratedServer
    <2>3. \A k \in DOMAIN GeneratedServer : GeneratedServer[k] = ServerDefaults[k]
      <3>1. /\ GeneratedServer["transport"] = ServerDefaults["transport"]
            /\ GeneratedServer["port"] = ServerDefaults["port"]
        BY DEF GeneratedServer, ServerDefaults
      <3> QED
        BY <2>2, <3>1, Zenon
    <2> QED
      BY <2>1, <2>3 DEF Filled, Get
  <1>5. Filled(Section(Generated, "tls"), TlsDefaults) = [k \in DOMAIN TlsDefaults |-> TlsDefaults[k]]
    <2>1. Section(Generated, "tls") = TlsDefaults
      BY <1>g, SectionsOfFive
    <2> QED
      BY <2>1 DEF Filled, Get
  <1>6. Filled(Section(Generated, "security"), SecurityDefaults) = [k \in DOMAIN SecurityDefaults |-> SecurityDefaults[k]]
    <2>1. Section(Generated, "security") = SecurityPart
      BY <1>g, SectionsOfFive
    <2>2. DOMAIN SecurityPart = {"mode", "deny_groups"}
      OBVIOUS
    <2>3. \A k \in DOMAIN SecurityPart : SecurityPart[k] = SecurityDefaults[k]
      BY <2>2 DEF SecurityDefaults
    <2> HIDE DEF SecurityPart
    <2> QED
      BY <2>1, <2>3 DEF Filled, Get
  <1>7. Section(Generated, "auth") = Empty
    BY <1>g, SectionsOfFive
  <1>8. [k \in DOMAIN ToolsDefaults |-> ToolsDefaults[k]] = ToolsDefaults
    BY DEF ToolsDefaults
  <1>9. Loaded(Generated) =
          [Loaded(Empty) EXCEPT !.tools = Filled(Section(Generated, "tools"), ToolsDefaults)]
    BY <1>1, <1>2, <1>3, <1>4, <1>5, <1>6, <1>7 DEF Loaded
  <1>10. Loaded(Empty).tools = ToolsDefaults
    BY <1>1, <1>2, <1>8 DEF Loaded
  <1>11. Loaded(Empty) = [Loaded(Empty) EXCEPT !.tools = Loaded(Empty).tools]
    BY DEF Loaded
  <1> QED
    BY <1>9, <1>10, <1>11 DEF config, Loaded

-----------------------------------------------------------------------------
(* The server that serves was configured by a file that _validate passed.  *)
Numbers == Numeric(Loaded(source))

ConfInv ==
  /\ Numbers
  /\ phase \in {"mcp", "stdio", "http", "stopped"} => Valid(config)
  /\ phase = "http" => \E token \in BOOLEAN : guard = Guard(token) /\ guard # "exit"

LEMMA DefaultsNumeric == Numeric(Loaded(Empty))
  <1>1. Loaded(Empty).kernel = [k \in DOMAIN KernelDefaults |-> KernelDefaults[k]]
    BY DEF Loaded, Filled, Section, Get, Empty
  <1>2. \A k \in KernelNumbers : Loaded(Empty).kernel[k] \in Int
    <2>1. \A k \in KernelNumbers : k \in DOMAIN KernelDefaults /\ KernelDefaults[k] \in Int
      <3>1. DOMAIN KernelDefaults = KernelNumbers \cup {"mathkernel", "default_format"}
        BY DEF KernelDefaults, KernelNumbers
      <3>2. /\ KernelDefaults["timeout"] \in Int /\ KernelDefaults["hard_timeout"] \in Int
            /\ KernelDefaults["max_result_size"] \in Int
        BY DEF KernelDefaults
      <3>3. /\ KernelDefaults["pool_size"] \in Int /\ KernelDefaults["pool_min_idle"] \in Int
            /\ KernelDefaults["max_requests_per_worker"] \in Int
            /\ KernelDefaults["idle_timeout"] \in Int
        BY DEF KernelDefaults
      <3> QED
        BY <3>1, <3>2, <3>3, Zenon DEF KernelNumbers
    <2> QED
      BY <1>1, <2>1
  <1>3. DOMAIN Loaded(Empty).auth.roles = {}
    BY DEF Loaded, AuthOf, Section, Get, Empty, NamedTables, Tables
  <1> QED
    BY <1>2, <1>3 DEF Numeric

LEMMA InitConf == Init => ConfInv
  <1> SUFFICES ASSUME AppInit PROVE ConfInv
    BY DEF Init
  <1>1. PICK s \in Standalone, p \in Pyproject : source = Source(s, p)
    BY DEF AppInit
  <1>2. source = Empty \/ source \in (Standalone \cup Pyproject) \ {Absent, Broken}
    BY <1>1 DEF Source
  <1>3. Numbers
    BY <1>2, NumbersAssumption, DefaultsNumeric DEF Numbers
  <1> QED
    BY <1>3 DEF AppInit, ConfInv

LEMMA NextConf == ConfInv /\ [Next]_allVars => ConfInv'
  <1> SUFFICES ASSUME ConfInv, [Next]_allVars PROVE ConfInv'
    OBVIOUS
  <1>0. UNCHANGED inputs
    BY DEF Next, AppStep, ReadStep, Look, Lock, Check, Make, MakeRaises, Access, Load, RunStdio,
           RunHttp, JobsEnd, Stopped, Stdio, allVars, appVars
  <1>1. /\ source' = source /\ config' = config /\ Numbers'
        /\ \A token : Guard(token)' = Guard(token)
    BY <1>0 DEF inputs, config, Guard, Numbers, ConfInv
  <1>2. CASE UNCHANGED <<phase, guard>>
    BY <1>1, <1>2 DEF ConfInv
  <1>3. CASE Load
    BY <1>1, <1>3 DEF Load, Moves, ConfInv
  <1>4. CASE RunStdio \/ Stopped
    BY <1>1, <1>4 DEF RunStdio, Stopped, Moves, HasServer, ConfInv
  <1>5. CASE RunHttp
    <2>1. PICK token \in BOOLEAN : guard' = Guard(token)
      BY <1>5 DEF RunHttp
    <2>2. /\ phase = "mcp" /\ phase' \in {"refused", "http"}
          /\ phase' = "http" => guard' # "exit"
      BY <1>5 DEF RunHttp, HasServer
    <2> QED
      BY <1>1, <2>1, <2>2 DEF ConfInv
  <1>6. ASSUME NEW t \in Thread, NEW f \in Property, MakeRaises(t, f) PROVE ConfInv'
    <2>1. phase' \in {phase, "crashed"} /\ guard' = guard
      BY <1>6 DEF MakeRaises
    <2> QED
      BY <1>1, <2>1 DEF ConfInv
  <1>7. ASSUME NEW t \in Thread, NEW f \in Property,
               Look(t, f) \/ Lock(t, f) \/ Check(t, f) \/ Make(t, f) \/ Access(t, f)
        PROVE  UNCHANGED <<phase, guard>>
    BY <1>7 DEF Look, Lock, Check, Make, Access
  <1>8. UNCHANGED appVars => UNCHANGED <<phase, guard>>
    BY DEF appVars
  <1> QED
    BY <1>2, <1>3, <1>4, <1>5, <1>6, <1>7, <1>8 DEF Next, AppStep, ReadStep, Stdio, JobsEnd, allVars

(* A server that runs has what the pool, the tools and the guard of the    *)
(* transport rely on, and its filters let nothing pass, in whatever context*)
(* it is written, that the policies of its file forbid: whatever the file  *)
(* leaves out, leaves empty or says in two places (config.py:183-383,      *)
(* server.py:94-218, pool.py:57-58, registry.py:107-150).                  *)
THEOREM Configured == Spec => []AsConfigured
  <1>1. ConfInv => AsConfigured
    <2> SUFFICES ASSUME ConfInv, Serving
                 PROVE  /\ ParametersReady /\ RolesReady /\ Guarded
                        /\ FilteredAsAsked /\ GeneratedMeansDefaults
      BY Zenon DEF AsConfigured
    <2>1. Valid(config) /\ Numeric(config)
      BY DEF ConfInv, Numbers, Serving, config
    <2>2. Guarded
      BY GuardedBy DEF ConfInv
    <2> QED
      BY <2>1, <2>2, Parameters, Roles, Filtered, GeneratedAsDefault, Zenon
  <1> QED
    BY <1>1, InitConf, NextConf, PTL DEF Spec
=============================================================================
