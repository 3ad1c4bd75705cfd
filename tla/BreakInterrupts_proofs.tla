----------------------- MODULE BreakInterrupts_proofs -----------------------
(***************************************************************************)
(* Proofs about BreakInterrupts, for every set of slots, watches, accesses *)
(* and requests.                                                           *)
(***************************************************************************)
EXTENDS BreakInterrupts, TLAPS

Pcs1 == {"entry", "hit", "step", "compare", "count", "notify", "halt",
         "epilogue", "ret", "popm", "lpsw"}
Pcs2 == {"entry", "read", "serve", "timer", "leave", "lpsw"}
Pcs == {"user", "main", "lost"} \cup Pcs1 \cup Pcs2

FrameType == [pc : Pcs, lvl : {0, 1, 2}, on : SUBSET {1, 2},
              slot : Slots \cup {NoHit}]

\* The base of the stack is the program, the main loop or a lost one; above
\* it are handlers.
BasePcs == {"user", "main", "lost"}
PcsOf(l) == IF l = 1 THEN Pcs1 ELSE Pcs2
StackType ==
  /\ frames \in Seq(FrameType) /\ frames # <<>>
  /\ frames[1].lvl = 0 /\ frames[1].pc \in BasePcs
  /\ \A i \in 2..Len(frames) : frames[i].lvl \in {1, 2}
                               /\ frames[i].pc \in PcsOf(frames[i].lvl)

TableType ==
  /\ watch \in [Slots -> Watches] /\ ena \in [Slots -> BOOLEAN]
  /\ count \in [Slots -> Nat]
  /\ \A s \in Slots : count[s] <= watch[s].count
  /\ \A s \in Slots : ena[s] => watch[s].kinds # {}

HardwareType ==
  /\ lastHit \in Slots \cup {NoHit} /\ stepLeft \in 0..3 /\ cell \in Vals
  /\ cause \in 0..2 /\ pend \subseteq {1, 2} /\ owed \subseteq Slots

MonitorType ==
  /\ opsw \in [{1, 2} -> Nat] /\ busy \in {0, 1}
  /\ req \in {"none", "dead"} \cup Requests /\ arm \in BOOLEAN
  /\ instr \in 0..MaxInstr /\ due \in [Slots -> Nat]

TypeInv == TableType /\ HardwareType /\ MonitorType /\ StackType

-----------------------------------------------------------------------------
(* The comparators.                                                        *)

\* A set of slot numbers has a first one.
LEMMA FirstSlot ==
  ASSUME NEW M, M \subseteq 0..3, M # {}
  PROVE  \E s \in M : \A t \in M : s <= t
<1>1. CASE 0 \in M BY <1>1
<1>2. CASE 0 \notin M /\ 1 \in M BY <1>2
<1>3. CASE 0 \notin M /\ 1 \notin M /\ 2 \in M BY <1>3
<1>4. CASE 0 \notin M /\ 1 \notin M /\ 2 \notin M
  <2>1. \A t \in M : t = 3 BY <1>4
  <2>2. 3 \in M BY <2>1
  <2> QED BY <2>1, <2>2
<1> QED BY <1>1, <1>2, <1>3, <1>4

\* probe(): a slot that matches, if there is one.
LEMMA SlotForFacts ==
  ASSUME NEW kind
  PROVE  \/ SlotFor(kind) = NoHit /\ \A s \in Slots : kind \notin watch[s].kinds
         \/ SlotFor(kind) \in Slots /\ kind \in watch[SlotFor(kind)].kinds
<1> DEFINE M == {s \in Slots : kind \in watch[s].kinds}
<1>1. CASE M = {} BY <1>1 DEF SlotFor
<1>2. CASE M # {}
  <2>1. M \subseteq 0..3 BY BreakAssumption
  <2>2. \E s \in M : \A t \in M : s <= t BY <2>1, <1>2, FirstSlot
  <2>3. SlotFor(kind) = CHOOSE s \in M : \A t \in M : s <= t
    BY <1>2 DEF SlotFor
  <2>4. SlotFor(kind) \in M BY <2>2, <2>3
  <2> QED BY <2>4
<1> QED BY <1>1, <1>2

\* The last of the accesses that hit.
LEMMA LastHit ==
  ASSUME NEW a \in Accesses, NEW H, H \subseteq DOMAIN a, H # {}
  PROVE  Max(H) \in H
<1>1. a \in Seq({"RD", "WR"}) /\ Len(a) <= 2 BY BreakAssumption
<1>2. H \subseteq 1..2 BY <1>1
<1>3. \E x \in H : \A y \in H : x >= y
  <2>1. CASE 2 \in H BY <1>2, <2>1
  <2>2. CASE 2 \notin H BY <1>2, <2>2
  <2> QED BY <2>1, <2>2
<1> QED BY <1>3 DEF Max

\* Fetches only: no comparator has a say.
LEMMA BusFetch ==
  ASSUME TypeInv, NEW f \in {0, 1}, Bus(<<>>, cell, f)
  PROVE  /\ stepLeft' \in 0..3 /\ stepLeft' <= stepLeft
         /\ cause' \in 0..2 /\ pend' \subseteq {1, 2}
         /\ UNCHANGED <<lastHit, cell, owed>>
         /\ stepLeft = 0 => UNCHANGED <<stepLeft, cause, pend>>
<1> DEFINE H == {i \in DOMAIN <<>> : SlotFor(<<>>[i]) # NoHit}
<1>1. H = {} OBVIOUS
<1>2. /\ lastHit' = lastHit /\ cell' = cell
      /\ owed' = owed \cup {SlotFor(<<>>[i]) : i \in H}
      /\ cause' = IF stepLeft \in 1..f THEN 1 ELSE cause
      /\ pend' = pend \cup (IF stepLeft \in 1..f THEN {1} ELSE {})
      /\ stepLeft' = IF stepLeft > f THEN stepLeft - f ELSE 0
  BY <1>1 DEF Bus
<1>3. owed' = owed BY <1>1, <1>2
<1>4. stepLeft \in 0..3 /\ cause \in 0..2 /\ pend \subseteq {1, 2}
  BY DEF TypeInv, HardwareType
<1>5. stepLeft' \in 0..3 /\ stepLeft' <= stepLeft /\ cause' \in 0..2
      /\ pend' \subseteq {1, 2}
  BY <1>2, <1>4
<1>6. ASSUME stepLeft = 0 PROVE UNCHANGED <<stepLeft, cause, pend>>
  BY <1>2, <1>6
<1> QED BY <1>2, <1>3, <1>5, <1>6

\* One read of the monitor.
LEMMA BusRead ==
  ASSUME TypeInv, Bus(<<"RD">>, cell, 0)
  PROVE  /\ stepLeft' = stepLeft /\ cause' \in {0, cause}
         /\ pend' \subseteq {1, 2} /\ cell' = cell
         /\ lastHit' \in Slots \cup {NoHit} /\ owed' \subseteq Slots
         /\ WritesOnly => UNCHANGED hwVars
<1> DEFINE a == <<"RD">>
           H == {i \in DOMAIN a : SlotFor(a[i]) # NoHit}
           r == SlotFor("RD")
<1>1. DOMAIN a = {1} /\ a[1] = "RD" OBVIOUS
<1>2. r = NoHit => H = {} BY <1>1
<1>3. r # NoHit => H = {1} BY <1>1
<1>4. r # NoHit => Max(H) = 1
  BY <1>3 DEF Max
<1>5. stepLeft \in 0..3 /\ cause \in 0..2 /\ pend \subseteq {1, 2}
      /\ lastHit \in Slots \cup {NoHit} /\ owed \subseteq Slots
  BY DEF TypeInv, HardwareType
<1>6. /\ lastHit' = (IF H = {} THEN lastHit ELSE SlotFor(a[Max(H)]))
      /\ cell' = cell
      /\ owed' = owed \cup {SlotFor(a[i]) : i \in H}
      /\ cause' = (IF H # {} THEN 0 ELSE IF stepLeft \in 1..0 THEN 1 ELSE cause)
      /\ pend' = pend \cup (IF H # {} \/ stepLeft \in 1..0 THEN {1} ELSE {})
      /\ stepLeft' = IF stepLeft > 0 THEN stepLeft - 0 ELSE 0
  BY DEF Bus
<1>7. stepLeft \notin 1..0 BY <1>5
<1>8. CASE r = NoHit
  <2>1. /\ lastHit' = lastHit /\ cause' = cause /\ pend' = pend
        /\ owed' = owed /\ stepLeft' = stepLeft /\ cell' = cell
    BY <1>2, <1>5, <1>6, <1>7, <1>8
  <2> QED BY <1>5, <2>1 DEF hwVars
<1>9. CASE r # NoHit
  <2>1. r \in Slots /\ "RD" \in watch[r].kinds BY <1>9, SlotForFacts
  <2>2. ~WritesOnly BY <2>1 DEF WritesOnly
  <2>3. /\ lastHit' = r /\ cause' = 0 /\ pend' = pend \cup {1}
        /\ owed' = owed \cup {r} /\ stepLeft' = stepLeft /\ cell' = cell
    <3>1. lastHit' = r /\ cause' = 0 /\ pend' = pend \cup {1} /\ cell' = cell
      BY <1>1, <1>3, <1>4, <1>6, <1>9
    <3>2. {SlotFor(a[i]) : i \in H} = {r} BY <1>1, <1>3, <1>9
    <3>3. owed' = owed \cup {r} BY <3>2, <1>6
    <3>4. stepLeft' = stepLeft BY <1>5, <1>6
    <3> QED BY <3>1, <3>3, <3>4
  <2> QED BY <1>5, <2>1, <2>2, <2>3
<1> QED BY <1>8, <1>9

\* The accesses of an instruction of the program.
LEMMA BusUser ==
  ASSUME TypeInv, NEW a \in Accesses, NEW v \in Vals, Bus(a, v, 1)
  PROVE  /\ stepLeft' \in 0..3 /\ cause' \in 0..2 /\ pend' \subseteq {1, 2}
         /\ cell' = v
         /\ lastHit' \in Slots \cup {NoHit} /\ owed' \subseteq Slots
         /\ stepLeft = 0 =>
              /\ stepLeft' = 0 /\ cause' \in {0, cause}
              /\ \/ /\ UNCHANGED <<lastHit, pend, owed>>
                    /\ \A i \in DOMAIN a : SlotFor(a[i]) = NoHit
                 \/ /\ pend' = pend \cup {1}
                    /\ \E i \in DOMAIN a : SlotFor(a[i]) \in Slots
                                           /\ lastHit' = SlotFor(a[i])
                    /\ owed' = owed \cup ({SlotFor(a[i]) : i \in DOMAIN a} \ {NoHit})
<1> DEFINE H == {i \in DOMAIN a : SlotFor(a[i]) # NoHit}
           W == {SlotFor(a[i]) : i \in H}
<1>5. stepLeft \in 0..3 /\ cause \in 0..2 /\ pend \subseteq {1, 2}
      /\ lastHit \in Slots \cup {NoHit} /\ owed \subseteq Slots
  BY DEF TypeInv, HardwareType
<1>6. /\ lastHit' = (IF H = {} THEN lastHit ELSE SlotFor(a[Max(H)]))
      /\ cell' = v
      /\ owed' = owed \cup W
      /\ cause' = (IF H # {} THEN 0 ELSE IF stepLeft \in 1..1 THEN 1 ELSE cause)
      /\ pend' = pend \cup (IF H # {} \/ stepLeft \in 1..1 THEN {1} ELSE {})
      /\ stepLeft' = IF stepLeft > 1 THEN stepLeft - 1 ELSE 0
  BY DEF Bus
<1>7. stepLeft' \in 0..3 /\ cause' \in 0..2 BY <1>5, <1>6
<1>8. pend' \subseteq {1, 2} BY <1>5, <1>6
<1>9. H # {} => Max(H) \in H
  <2>1. H \subseteq DOMAIN a OBVIOUS
  <2> HIDE DEF H
  <2> QED BY <2>1, LastHit
<1>10. \A i \in H : SlotFor(a[i]) \in Slots BY SlotForFacts
<1>11. W \subseteq Slots BY <1>10
<1>12. W = {SlotFor(a[i]) : i \in DOMAIN a} \ {NoHit} OBVIOUS
<1>13. H # {} => SlotFor(a[Max(H)]) \in Slots BY <1>9, <1>10
<1>14. lastHit' \in Slots \cup {NoHit} BY <1>5, <1>6, <1>13
<1>15. owed' \subseteq Slots BY <1>5, <1>6, <1>11
<1>16. ASSUME stepLeft = 0
       PROVE  /\ stepLeft' = 0 /\ cause' \in {0, cause}
              /\ \/ /\ UNCHANGED <<lastHit, pend, owed>>
                    /\ \A i \in DOMAIN a : SlotFor(a[i]) = NoHit
                 \/ /\ pend' = pend \cup {1}
                    /\ \E i \in DOMAIN a : SlotFor(a[i]) \in Slots
                                           /\ lastHit' = SlotFor(a[i])
                    /\ owed' = owed \cup ({SlotFor(a[i]) : i \in DOMAIN a} \ {NoHit})
  <2>1. stepLeft \notin 1..1 BY <1>16
  <2>2. CASE H = {}
    <3>1. W = {} BY <2>2
    <3>2. \A i \in DOMAIN a : SlotFor(a[i]) = NoHit BY <2>2
    <3>3. lastHit' = lastHit /\ cause' = cause /\ stepLeft' = 0
      BY <1>6, <1>16, <2>1, <2>2
    <3>4. pend' = pend BY <1>6, <2>1, <2>2
    <3>5. owed' = owed BY <1>6, <3>1
    <3> QED BY <3>2, <3>3, <3>4, <3>5
  <2>3. CASE H # {}
    <3>1. lastHit' = SlotFor(a[Max(H)]) /\ cause' = 0 /\ stepLeft' = 0
      BY <1>6, <1>16, <2>3
    <3>2. pend' = pend \cup {1} BY <1>6, <2>3
    <3>3. owed' = owed \cup ({SlotFor(a[i]) : i \in DOMAIN a} \ {NoHit})
      BY <1>6, <1>12
    <3>4. Max(H) \in DOMAIN a BY <1>9, <2>3
    <3>5. \E i \in DOMAIN a : SlotFor(a[i]) \in Slots /\ lastHit' = SlotFor(a[i])
      BY <3>1, <3>4, <1>13, <2>3
    <3> QED BY <3>1, <3>2, <3>3, <3>5
  <2> QED BY <2>2, <2>3
<1> HIDE DEF H, W
<1> QED BY <1>6, <1>7, <1>8, <1>14, <1>15, <1>16

-----------------------------------------------------------------------------
(* The stack of contexts.                                                  *)

\* A new frame is well-formed.
LEMMA FrameIs ==
  ASSUME NEW pc \in Pcs, NEW lvl \in {0, 1, 2}, NEW on \in SUBSET {1, 2}
  PROVE  /\ Frame(pc, lvl, on) \in FrameType
         /\ Frame(pc, lvl, on).pc = pc /\ Frame(pc, lvl, on).lvl = lvl
         /\ Frame(pc, lvl, on).on = on /\ Frame(pc, lvl, on).slot = NoHit
BY DEF Frame, FrameType

\* The frame that runs.
LEMMA TopFacts ==
  ASSUME StackType
  PROVE  /\ Len(frames) \in Nat /\ Len(frames) >= 1
         /\ DOMAIN frames = 1..Len(frames)
         /\ Top = frames[Len(frames)] /\ Top \in FrameType
         /\ \A i \in 1..Len(frames) : frames[i] \in FrameType
         /\ Top.lvl # 0 => Len(frames) > 1
         /\ Top.lvl = 0 \/ Top.pc \in BasePcs => Len(frames) = 1
<1>1. frames \in Seq(FrameType) /\ frames # <<>> BY DEF StackType
<1>2. Len(frames) \in Nat /\ Len(frames) >= 1 /\ DOMAIN frames = 1..Len(frames)
  BY <1>1
<1>3. \A i \in 1..Len(frames) : frames[i] \in FrameType BY <1>1, <1>2
<1>4. Top = frames[Len(frames)] /\ Top \in FrameType BY <1>2, <1>3 DEF Top
<1>5. Top.lvl # 0 => Len(frames) > 1 BY <1>2, <1>4 DEF StackType
<1>6. Top.lvl = 0 \/ Top.pc \in BasePcs => Len(frames) = 1
  <2>1. \A l : PcsOf(l) \cap BasePcs = {} BY DEF PcsOf, Pcs1, Pcs2, BasePcs
  <2>2. Len(frames) # 1 => Top.lvl \in {1, 2} /\ Top.pc \in PcsOf(Top.lvl)
    BY <1>2, <1>4 DEF StackType
  <2> QED BY <2>1, <2>2
<1> QED BY <1>2, <1>3, <1>4, <1>5, <1>6

\* What moves the frame that runs to pc and slot, and nothing else.
Moved(pc, slot) ==
  /\ frames' \in Seq(FrameType) /\ Len(frames') = Len(frames)
  /\ frames'[Len(frames)].pc = pc /\ frames'[Len(frames)].slot = slot
  /\ frames'[Len(frames)].lvl = Top.lvl /\ frames'[Len(frames)].on = Top.on
  /\ \A i \in 1 .. Len(frames) - 1 : frames'[i] = frames[i]

LEMMA MovedStack ==
  ASSUME StackType, Top.lvl # 0, NEW pc, NEW slot, pc \in PcsOf(Top.lvl),
         Moved(pc, slot)
  PROVE  StackType' /\ frames'[1] = frames[1]
<1>1. Len(frames) > 1 /\ Len(frames) \in Nat BY TopFacts
<1>2. frames'[1] = frames[1] BY <1>1 DEF Moved
<1>3. \A i \in 2..Len(frames') : frames'[i].lvl \in {1, 2} /\ frames'[i].pc \in PcsOf(frames'[i].lvl)
  <2> SUFFICES ASSUME NEW i \in 2..Len(frames)
               PROVE  frames'[i].lvl \in {1, 2} /\ frames'[i].pc \in PcsOf(frames'[i].lvl)
    BY DEF Moved
  <2>1. CASE i = Len(frames)
    <3>1. Top.lvl \in {1, 2} BY <1>1, <2>1 DEF StackType, Top
    <3> QED BY <2>1, <3>1 DEF Moved
  <2>2. CASE i # Len(frames)
    <3>1. frames'[i] = frames[i] BY <2>2, <1>1 DEF Moved
    <3> QED BY <3>1 DEF StackType
  <2> QED BY <2>1, <2>2
<1> QED BY <1>1, <1>2, <1>3 DEF StackType, Moved

\* One element of a sequence replaced.
LEMMA SeqExcept ==
  ASSUME NEW S, NEW f \in Seq(S), NEW n \in 1..Len(f), NEW x \in S
  PROVE  /\ [f EXCEPT ![n] = x] \in Seq(S)
         /\ Len([f EXCEPT ![n] = x]) = Len(f)
         /\ [f EXCEPT ![n] = x][n] = x
         /\ \A i \in 1..Len(f) : i # n => [f EXCEPT ![n] = x][i] = f[i]
OBVIOUS

LEMMA GotoMoves ==
  ASSUME StackType, NEW pc \in Pcs, Goto(pc)
  PROVE  Moved(pc, Top.slot)
<1>1. frames[Len(frames)] \in FrameType /\ Len(frames) \in Nat /\ Len(frames) >= 1
  BY TopFacts
<1>2. frames' = [frames EXCEPT ![Len(frames)] = [@ EXCEPT !.pc = pc]]
  BY DEF Goto
<1>3. [frames[Len(frames)] EXCEPT !.pc = pc] \in FrameType
  BY <1>1 DEF FrameType
<1>4. frames' \in Seq(FrameType) /\ Len(frames') = Len(frames)
  BY <1>1, <1>2, <1>3 DEF StackType
<1>5. frames'[Len(frames)] = [frames[Len(frames)] EXCEPT !.pc = pc]
  BY <1>1, <1>2 DEF StackType
<1>6. \A i \in 1 .. Len(frames) - 1 : frames'[i] = frames[i]
  BY <1>1, <1>2 DEF StackType
<1>7. /\ frames'[Len(frames)].pc = pc
      /\ frames'[Len(frames)].slot = Top.slot
      /\ frames'[Len(frames)].lvl = Top.lvl
      /\ frames'[Len(frames)].on = Top.on
  BY <1>1, <1>5 DEF FrameType, Top
<1> QED BY <1>4, <1>6, <1>7 DEF Moved

LEMMA SlotMoves ==
  ASSUME StackType, NEW pc \in Pcs, NEW slot \in Slots \cup {NoHit},
         frames' = [frames EXCEPT ![Len(frames)].pc = pc,
                                  ![Len(frames)].slot = slot]
  PROVE  Moved(pc, slot)
<1> DEFINE t == [[frames[Len(frames)] EXCEPT !.pc = pc] EXCEPT !.slot = slot]
<1>1. frames[Len(frames)] \in FrameType /\ Len(frames) \in Nat /\ Len(frames) >= 1
  BY TopFacts
<1>2. frames' = [frames EXCEPT ![Len(frames)] = t]
  BY <1>1 DEF StackType
<1>3. t \in FrameType /\ t.pc = pc /\ t.slot = slot
      /\ t.lvl = Top.lvl /\ t.on = Top.on
  BY <1>1 DEF FrameType, Top
<1> HIDE DEF t
<1>4. /\ frames' \in Seq(FrameType) /\ Len(frames') = Len(frames)
      /\ frames'[Len(frames)] = t
      /\ \A i \in 1..Len(frames) : i # Len(frames) => frames'[i] = frames[i]
  <2>1. frames \in Seq(FrameType) /\ Len(frames) \in 1..Len(frames)
    BY <1>1 DEF StackType
  <2> DEFINE g == [frames EXCEPT ![Len(frames)] = t]
  <2>2. /\ g \in Seq(FrameType) /\ Len(g) = Len(frames)
        /\ g[Len(frames)] = t
        /\ \A i \in 1..Len(frames) : i # Len(frames) => g[i] = frames[i]
    BY <1>3, <2>1, SeqExcept
  <2> HIDE DEF g
  <2>3. frames' = g BY <1>2 DEF g
  <2> QED BY <2>2, <2>3
<1>5. frames'[Len(frames)] = t BY <1>4
<1>6. \A i \in 1 .. Len(frames) - 1 : frames'[i] = frames[i]
  BY <1>1, <1>4
<1> QED BY <1>3, <1>4, <1>5, <1>6 DEF Moved

\* An interrupt puts a frame on top, LPSW takes one off.
LEMMA Pushed ==
  ASSUME StackType, NEW l \in {1, 2},
         frames' = Append(frames, Frame("entry", l, {3 - l}))
  PROVE  /\ StackType' /\ Len(frames') = Len(frames) + 1
         /\ \A i \in 1..Len(frames) : frames'[i] = frames[i]
         /\ frames'[Len(frames) + 1].lvl = l
         /\ frames'[Len(frames) + 1].pc = "entry"
         /\ frames'[Len(frames) + 1].on = {3 - l}
<1> DEFINE t == Frame("entry", l, {3 - l})
<1>1. {3 - l} \in SUBSET {1, 2} OBVIOUS
<1>2. t \in FrameType /\ t.pc = "entry" /\ t.lvl = l /\ t.on = {3 - l}
  BY <1>1, FrameIs DEF Pcs, Pcs1
<1> HIDE DEF t
<1>3. Len(frames) \in Nat /\ Len(frames) >= 1 BY TopFacts
<1>4. frames' = Append(frames, t) BY DEF t
<1>5. /\ frames' \in Seq(FrameType) /\ Len(frames') = Len(frames) + 1
      /\ \A i \in 1..Len(frames) : frames'[i] = frames[i]
      /\ frames'[Len(frames) + 1] = t
  BY <1>2, <1>3, <1>4 DEF StackType
<1>6. \A i \in 2..Len(frames') : frames'[i].lvl \in {1, 2} /\ frames'[i].pc \in PcsOf(frames'[i].lvl)
  <2>1. "entry" \in PcsOf(l) BY DEF PcsOf, Pcs1, Pcs2
  <2>2. \A i \in 2..Len(frames) : frames'[i] = frames[i] BY <1>3, <1>5
  <2>3. \A i \in 2..Len(frames') : i \in 2..Len(frames) \/ i = Len(frames) + 1
    BY <1>3, <1>5
  <2> QED BY <1>2, <1>5, <2>1, <2>2, <2>3 DEF StackType
<1>7. frames'[1] = frames[1] /\ frames' # <<>> BY <1>3, <1>5
<1> QED BY <1>2, <1>3, <1>5, <1>6, <1>7 DEF StackType

LEMMA Popped ==
  ASSUME StackType, Len(frames) > 1,
         frames' = SubSeq(frames, 1, Len(frames) - 1)
  PROVE  /\ StackType' /\ Len(frames') = Len(frames) - 1
         /\ \A i \in 1 .. Len(frames) - 1 : frames'[i] = frames[i]
<1>1. Len(frames) \in Nat BY TopFacts
<1>2. /\ frames' \in Seq(FrameType) /\ Len(frames') = Len(frames) - 1
      /\ \A i \in 1 .. Len(frames) - 1 : frames'[i] = frames[i]
  BY <1>1 DEF StackType
<1>3. frames'[1] = frames[1] BY <1>1, <1>2
<1>5. Len(frames') >= 1 BY <1>1, <1>2
<1>6. frames' # <<>>
  <2>1. \A f : Len(f) >= 1 => f # <<>> OBVIOUS
  <2> QED BY <1>5, <2>1, Zenon
<1>4. \A i \in 2..Len(frames') : frames'[i] = frames[i] BY <1>1, <1>2
<1> QED BY <1>1, <1>2, <1>3, <1>4, <1>6 DEF StackType

LEMMA Replaced ==
  ASSUME NEW pc \in BasePcs, NEW on \in SUBSET {1, 2},
         frames' = <<Frame(pc, 0, on)>>
  PROVE  /\ StackType' /\ Len(frames') = 1
         /\ frames'[1].pc = pc /\ frames'[1].on = on
<1> DEFINE t == Frame(pc, 0, on)
<1>1. t \in FrameType /\ t.pc = pc /\ t.lvl = 0 /\ t.on = on
  BY FrameIs DEF BasePcs, Pcs
<1>2. frames' = <<t>> OBVIOUS
<1> HIDE DEF t
<1>3. frames' \in Seq(FrameType) /\ Len(frames') = 1 /\ frames'[1] = t
  BY <1>1, <1>2
<1>4. frames' # <<>> BY <1>3
<1> QED BY <1>1, <1>3, <1>4 DEF StackType, BasePcs

-----------------------------------------------------------------------------
(* Types.                                                                  *)

LEMMA TypeInit == Init => TypeInv
<1> SUFFICES ASSUME Init PROVE TypeInv OBVIOUS
<1>1. TableType
  <2>1. watch \in [Slots -> Watches] BY DEF Init
  <2>2. \A s \in Slots : watch[s].count \in Nat BY <2>1, BreakAssumption
  <2>3. ena \in [Slots -> BOOLEAN] /\ count \in [Slots -> Nat]
    BY <2>2 DEF Init
  <2>4. \A s \in Slots : count[s] = watch[s].count BY DEF Init
  <2>5. \A s \in Slots : count[s] <= watch[s].count BY <2>2, <2>4
  <2>6. \A s \in Slots : ena[s] => watch[s].kinds # {} BY DEF Init
  <2> QED BY <2>1, <2>3, <2>5, <2>6, Zenon DEF TableType
<1>2. HardwareType BY DEF Init, HardwareType, Vals
<1>3. MonitorType
  <2>1. MaxInstr \in Nat BY BreakAssumption
  <2>2. 0 \in 0..MaxInstr BY <2>1
  <2> QED BY <2>2 DEF Init, MonitorType
<1>4. StackType
  <2> DEFINE t == Frame("user", 0, {1, 2})
  <2>1. t \in FrameType /\ t.pc = "user" /\ t.lvl = 0
    BY FrameIs DEF Pcs
  <2>2. frames = <<t>> BY DEF Init
  <2> HIDE DEF t
  <2>3. frames \in Seq(FrameType) /\ Len(frames) = 1 /\ frames[1] = t
    BY <2>1, <2>2
  <2>4. frames # <<>> BY <2>3
  <2> QED BY <2>1, <2>3, <2>4 DEF StackType, BasePcs
<1> QED BY <1>1, <1>2, <1>3, <1>4 DEF TypeInv

LEMMA TypeStep == TypeInv /\ [Next]_vars => TypeInv'
<1> SUFFICES ASSUME TypeInv, [Next]_vars PROVE TypeInv' OBVIOUS
<1>1. CASE \E l \in {1, 2} : Accept(l)
  <2>1. TableType' BY <1>1 DEF Accept, TypeInv, TableType, tableVars
  <2>2. HardwareType' BY <1>1 DEF Accept, TypeInv, HardwareType, hwVars
  <2>3. MonitorType'
    <3>1. Len(frames) \in Nat BY TopFacts DEF TypeInv
    <3> QED BY <1>1, <3>1 DEF Accept, TypeInv, MonitorType
  <2>4. StackType'
    BY <1>1, Pushed DEF Accept, TypeInv
  <2> QED BY <2>1, <2>2, <2>3, <2>4 DEF TypeInv
<1>2. CASE \E l \in {1, 2} : Return(l)
  <2>1. TableType' BY <1>2 DEF Return, TypeInv, TableType, tableVars
  <2>2. HardwareType'
    <3>1. \E f \in {0, 1} : Bus(<<>>, cell, f) BY <1>2 DEF Return
    <3> QED BY <3>1, BusFetch DEF TypeInv, HardwareType
  <2>3. MonitorType' BY <1>2 DEF Return, TypeInv, MonitorType
  <2>4. StackType'
    <3>1. PICK l \in {1, 2} : Return(l) BY <1>2
    <3>2. Len(frames) > 1 BY <3>1, TopFacts DEF Return, At, TypeInv
    <3>3. CASE opsw[l] = Len(frames) - 1
      BY <3>1, <3>2, <3>3, Popped DEF Return, TypeInv
    <3>4. CASE opsw[l] # Len(frames) - 1
      <4>1. frames' = <<Frame("lost", 0, {})>> BY <3>1, <3>4 DEF Return
      <4>2. "lost" \in BasePcs /\ {} \in SUBSET {1, 2} BY DEF BasePcs
      <4> QED BY <4>1, <4>2, Replaced
    <3> QED BY <3>3, <3>4
  <2> QED BY <2>1, <2>2, <2>3, <2>4 DEF TypeInv
<1>3. CASE UserStep
  <2>1. TableType' BY <1>3 DEF UserStep, TypeInv, TableType, tableVars
  <2>2. HardwareType'
    <3>1. PICK a \in Accesses, v \in Vals : Bus(a, v, 1) BY <1>3 DEF UserStep
    <3> QED BY <3>1, BusUser DEF TypeInv, HardwareType
  <2>3. MonitorType'
    <3>1. due' \in [Slots -> Nat] BY <1>3 DEF UserStep, TypeInv, MonitorType
    <3>2. MaxInstr \in Nat BY BreakAssumption
    <3>3. instr' \in 0..MaxInstr BY <1>3, <3>2 DEF UserStep, TypeInv, MonitorType
    <3> QED BY <1>3, <3>1, <3>3 DEF UserStep, TypeInv, MonitorType
  <2>4. StackType' BY <1>3 DEF UserStep, TypeInv, StackType
  <2> QED BY <2>1, <2>2, <2>3, <2>4 DEF TypeInv
<1>4. CASE HandlerFetch
  <2>1. TableType' BY <1>4 DEF HandlerFetch, TypeInv, TableType, tableVars
  <2>2. HardwareType'
    <3>1. \E f \in {0, 1} : Bus(<<>>, cell, f) BY <1>4 DEF HandlerFetch
    <3> QED BY <3>1, BusFetch DEF TypeInv, HardwareType
  <2>3. MonitorType' BY <1>4 DEF HandlerFetch, TypeInv, MonitorType
  <2>4. StackType' BY <1>4 DEF HandlerFetch, TypeInv, StackType
  <2> QED BY <2>1, <2>2, <2>3, <2>4 DEF TypeInv
<1>5. CASE Int1Cause
  <2>1. TableType' BY <1>5 DEF Int1Cause, TypeInv, TableType, tableVars
  <2>2. HardwareType' BY <1>5 DEF Int1Cause, TypeInv, HardwareType, hwVars
  <2>3. MonitorType' BY <1>5 DEF Int1Cause, TypeInv, MonitorType
  <2>4. StackType'
    <3>1. Top.lvl = 1 BY <1>5 DEF Int1Cause, At
    <3>2. PICK p \in {"hit", "step"} : Goto(p) BY <1>5 DEF Int1Cause
    <3>3. p \in Pcs /\ p \in PcsOf(1) BY <3>2 DEF Pcs, Pcs1, Pcs2, PcsOf
    <3> QED BY <3>1, <3>2, <3>3, GotoMoves, MovedStack DEF TypeInv
  <2> QED BY <2>1, <2>2, <2>3, <2>4 DEF TypeInv
<1>6. CASE Int1ReadHit
  <2>1. TableType' BY <1>6 DEF Int1ReadHit, TypeInv, TableType, tableVars
  <2>2. HardwareType' BY <1>6 DEF Int1ReadHit, TypeInv, HardwareType, hwVars
  <2>3. MonitorType' BY <1>6 DEF Int1ReadHit, TypeInv, MonitorType
  <2>4. StackType'
    <3>1. Top.lvl = 1 BY <1>6 DEF Int1ReadHit, At
    <3>2. PICK p \in {"epilogue", "count", "compare"} :
            frames' = [frames EXCEPT ![Len(frames)].pc = p,
                                     ![Len(frames)].slot = lastHit]
      BY <1>6 DEF Int1ReadHit
    <3>3. p \in Pcs /\ p \in PcsOf(1) BY <3>2 DEF Pcs, Pcs1, Pcs2, PcsOf
    <3>4. lastHit \in Slots \cup {NoHit} BY DEF TypeInv, HardwareType
    <3>5. Moved(p, lastHit) BY <3>2, <3>3, <3>4, SlotMoves DEF TypeInv
    <3> QED BY <3>1, <3>3, <3>5, MovedStack DEF TypeInv
  <2> QED BY <2>1, <2>2, <2>3, <2>4 DEF TypeInv
<1>7. CASE Int1Compare
  <2>1. TableType' BY <1>7 DEF Int1Compare, TypeInv, TableType, tableVars
  <2>2. HardwareType'
    <3>1. Bus(<<"RD">>, cell, 0) BY <1>7 DEF Int1Compare
    <3> QED BY <3>1, BusRead DEF TypeInv, HardwareType
  <2>3. MonitorType' BY <1>7 DEF Int1Compare, TypeInv, MonitorType
  <2>4. StackType'
    <3>1. Top.lvl = 1 BY <1>7 DEF Int1Compare, At
    <3>2. PICK p \in {"count", "epilogue"} : Goto(p) BY <1>7 DEF Int1Compare
    <3>3. p \in Pcs /\ p \in PcsOf(1) BY <3>2 DEF Pcs, Pcs1, Pcs2, PcsOf
    <3> QED BY <3>1, <3>2, <3>3, GotoMoves, MovedStack DEF TypeInv
  <2> QED BY <2>1, <2>2, <2>3, <2>4 DEF TypeInv
<1>8. CASE Int1Count
  <2>1. TableType'
    <3>0. /\ \A s \in Slots : count[s] <= watch[s].count
          /\ watch \in [Slots -> Watches] /\ ena \in [Slots -> BOOLEAN]
          /\ \A s \in Slots : ena[s] => watch[s].kinds # {}
      BY Zenon DEF TypeInv, TableType
    <3> DEFINE t == Top.slot
               c == count[t]
               n == IF c = 0 THEN 0 ELSE c - 1
    <3>1. count' = [count EXCEPT ![t] = n] /\ watch' = watch /\ ena' = ena
      BY <1>8 DEF Int1Count
    <3>2. CASE t \in Slots
      <4>1. c \in Nat /\ n \in Nat /\ n <= c BY <3>2 DEF TypeInv, TableType
      <4>2. \A s \in Slots : watch[s].count \in Nat
        BY BreakAssumption DEF TypeInv, TableType
      <4> HIDE DEF t, n
      <4>3. c = count[t] OBVIOUS
      <4> HIDE DEF c
      <4>4. count' \in [Slots -> Nat] BY <3>1, <4>1 DEF TypeInv, TableType
      <4>5. \A s \in Slots : count'[s] <= count[s] BY <3>1, <3>2, <4>1, <4>3 DEF TypeInv, TableType
      <4>6. \A s \in Slots : count'[s] <= watch[s].count
        <5> SUFFICES ASSUME NEW s \in Slots PROVE count'[s] <= watch[s].count
          OBVIOUS
        <5>1. count'[s] \in Nat /\ count[s] \in Nat BY <4>4 DEF TypeInv, TableType
        <5>2. count[s] <= watch[s].count BY <3>0
        <5> QED BY <4>2, <4>5, <5>1, <5>2
      <4> QED BY <3>0, <3>1, <4>4, <4>6 DEF TableType
    <3>3. CASE t \notin Slots
      <4> HIDE DEF t, c, n
      <4>1. count' = count BY <3>1, <3>3 DEF TypeInv, TableType
      <4> QED BY <3>1, <4>1 DEF TypeInv, TableType
    <3> QED BY <3>2, <3>3
  <2>2. HardwareType' BY <1>8 DEF Int1Count, TypeInv, HardwareType, hwVars
  <2>3. MonitorType' BY <1>8 DEF Int1Count, TypeInv, MonitorType
  <2>4. StackType'
    <3>1. Top.lvl = 1 BY <1>8 DEF Int1Count, At
    <3>2. PICK p \in {"notify", "epilogue"} : Goto(p) BY <1>8 DEF Int1Count
    <3>3. p \in Pcs /\ p \in PcsOf(1) BY <3>2 DEF Pcs, Pcs1, Pcs2, PcsOf
    <3> QED BY <3>1, <3>2, <3>3, GotoMoves, MovedStack DEF TypeInv
  <2> QED BY <2>1, <2>2, <2>3, <2>4 DEF TypeInv
<1>9. CASE Int1NotifyBreak
  <2>1. TableType' BY <1>9 DEF Int1NotifyBreak, TypeInv, TableType, tableVars
  <2>2. HardwareType' BY <1>9 DEF Int1NotifyBreak, TypeInv, HardwareType, hwVars
  <2>3. MonitorType' BY <1>9 DEF Int1NotifyBreak, TypeInv, MonitorType
  <2>4. StackType'
    <3>1. Top.lvl = 1 BY <1>9 DEF Int1NotifyBreak, At
    <3>2. PICK p \in {"halt"} : Goto(p) BY <1>9 DEF Int1NotifyBreak
    <3>3. p \in Pcs /\ p \in PcsOf(1) BY <3>2 DEF Pcs, Pcs1, Pcs2, PcsOf
    <3> QED BY <3>1, <3>2, <3>3, GotoMoves, MovedStack DEF TypeInv
  <2> QED BY <2>1, <2>2, <2>3, <2>4 DEF TypeInv
<1>10. CASE Int1NotifyStep
  <2>1. TableType' BY <1>10 DEF Int1NotifyStep, TypeInv, TableType, tableVars
  <2>2. HardwareType' BY <1>10 DEF Int1NotifyStep, TypeInv, HardwareType, hwVars
  <2>3. MonitorType' BY <1>10 DEF Int1NotifyStep, TypeInv, MonitorType
  <2>4. StackType'
    <3>1. Top.lvl = 1 BY <1>10 DEF Int1NotifyStep, At
    <3>2. PICK p \in {"halt"} : Goto(p) BY <1>10 DEF Int1NotifyStep
    <3>3. p \in Pcs /\ p \in PcsOf(1) BY <3>2 DEF Pcs, Pcs1, Pcs2, PcsOf
    <3> QED BY <3>1, <3>2, <3>3, GotoMoves, MovedStack DEF TypeInv
  <2> QED BY <2>1, <2>2, <2>3, <2>4 DEF TypeInv
<1>11. CASE Int1Stop
  <2>1. TableType' BY <1>11 DEF Int1Stop, TypeInv, TableType, tableVars
  <2>2. HardwareType' BY <1>11 DEF Int1Stop, TypeInv, HardwareType, hwVars
  <2>3. MonitorType' BY <1>11 DEF Int1Stop, TypeInv, MonitorType
  <2>4. StackType'
    <3>1. Top.on \in SUBSET {1, 2} BY TopFacts DEF TypeInv, FrameType
    <3>2. frames' = <<Frame("main", 0, Top.on)>> /\ "main" \in BasePcs
      BY <1>11 DEF Int1Stop, BasePcs
    <3> QED BY <3>1, <3>2, Replaced
  <2> QED BY <2>1, <2>2, <2>3, <2>4 DEF TypeInv
<1>12. CASE Int1Epilogue
  <2>1. TableType' BY <1>12 DEF Int1Epilogue, TypeInv, TableType, tableVars
  <2>2. HardwareType' BY <1>12 DEF Int1Epilogue, TypeInv, HardwareType, hwVars
  <2>3. MonitorType' BY <1>12 DEF Int1Epilogue, TypeInv, MonitorType
  <2>4. StackType'
    <3>1. Top.lvl = 1 BY <1>12 DEF Int1Epilogue, At
    <3>2. PICK p \in {"ret", "lpsw"} : Goto(p) BY <1>12 DEF Int1Epilogue
    <3>3. p \in Pcs /\ p \in PcsOf(1) BY <3>2 DEF Pcs, Pcs1, Pcs2, PcsOf
    <3> QED BY <3>1, <3>2, <3>3, GotoMoves, MovedStack DEF TypeInv
  <2> QED BY <2>1, <2>2, <2>3, <2>4 DEF TypeInv
<1>13. CASE Int1Restore
  <2>1. TableType' BY <1>13 DEF Int1Restore, TypeInv, TableType, tableVars
  <2>2. HardwareType'
    <3>1. \E f \in {0, 1} : Bus(<<>>, cell, f) BY <1>13 DEF Int1Restore
    <3> QED BY <3>1, BusFetch DEF TypeInv, HardwareType
  <2>3. MonitorType' BY <1>13 DEF Int1Restore, TypeInv, MonitorType
  <2>4. StackType'
    <3>1. Top.lvl = 1 BY <1>13 DEF Int1Restore, At
    <3>2. PICK p \in {"popm", "lpsw"} : Goto(p) BY <1>13 DEF Int1Restore
    <3>3. p \in Pcs /\ p \in PcsOf(1) BY <3>2 DEF Pcs, Pcs1, Pcs2, PcsOf
    <3> QED BY <3>1, <3>2, <3>3, GotoMoves, MovedStack DEF TypeInv
  <2> QED BY <2>1, <2>2, <2>3, <2>4 DEF TypeInv
<1>14. CASE Int2SetBusy
  <2>1. TableType' BY <1>14 DEF Int2SetBusy, TypeInv, TableType, tableVars
  <2>2. HardwareType' BY <1>14 DEF Int2SetBusy, TypeInv, HardwareType, hwVars
  <2>3. MonitorType' BY <1>14 DEF Int2SetBusy, TypeInv, MonitorType
  <2>4. StackType'
    <3>1. Top.lvl = 2 BY <1>14 DEF Int2SetBusy, At
    <3>2. PICK p \in {"read"} : Goto(p) BY <1>14 DEF Int2SetBusy
    <3>3. p \in Pcs /\ p \in PcsOf(2) BY <3>2 DEF Pcs, Pcs1, Pcs2, PcsOf
    <3> QED BY <3>1, <3>2, <3>3, GotoMoves, MovedStack DEF TypeInv
  <2> QED BY <2>1, <2>2, <2>3, <2>4 DEF TypeInv
<1>15. CASE Int2Cause
  <2>1. TableType' BY <1>15 DEF Int2Cause, TypeInv, TableType, tableVars
  <2>2. HardwareType' BY <1>15 DEF Int2Cause, TypeInv, HardwareType, hwVars
  <2>3. MonitorType' BY <1>15 DEF Int2Cause, TypeInv, MonitorType
  <2>4. StackType'
    <3>1. Top.lvl = 2 BY <1>15 DEF Int2Cause, At
    <3>2. PICK p \in {"serve", "timer"} : Goto(p) BY <1>15 DEF Int2Cause
    <3>3. p \in Pcs /\ p \in PcsOf(2) BY <3>2 DEF Pcs, Pcs1, Pcs2, PcsOf
    <3> QED BY <3>1, <3>2, <3>3, GotoMoves, MovedStack DEF TypeInv
  <2> QED BY <2>1, <2>2, <2>3, <2>4 DEF TypeInv
<1>16. CASE Int2Nothing
  <2>1. TableType' BY <1>16 DEF Int2Nothing, TypeInv, TableType, tableVars
  <2>2. HardwareType' BY <1>16 DEF Int2Nothing, TypeInv, HardwareType, hwVars
  <2>3. MonitorType' BY <1>16 DEF Int2Nothing, TypeInv, MonitorType
  <2>4. StackType'
    <3>1. Top.lvl = 2 BY <1>16 DEF Int2Nothing, At
    <3>2. PICK p \in {"leave"} : Goto(p) BY <1>16 DEF Int2Nothing
    <3>3. p \in Pcs /\ p \in PcsOf(2) BY <3>2 DEF Pcs, Pcs1, Pcs2, PcsOf
    <3> QED BY <3>1, <3>2, <3>3, GotoMoves, MovedStack DEF TypeInv
  <2> QED BY <2>1, <2>2, <2>3, <2>4 DEF TypeInv
<1>17. CASE Int2Read
  <2>1. TableType' BY <1>17 DEF Int2Read, TypeInv, TableType, tableVars
  <2>2. HardwareType'
    <3>1. Bus(<<"RD">>, cell, 0) BY <1>17 DEF Int2Read
    <3> QED BY <3>1, BusRead DEF TypeInv, HardwareType
  <2>3. MonitorType' BY <1>17 DEF Int2Read, TypeInv, MonitorType
  <2>4. StackType'
    <3>1. Top.lvl = 2 BY <1>17 DEF Int2Read, At
    <3>2. PICK p \in {"leave"} : Goto(p) BY <1>17 DEF Int2Read
    <3>3. p \in Pcs /\ p \in PcsOf(2) BY <3>2 DEF Pcs, Pcs1, Pcs2, PcsOf
    <3> QED BY <3>1, <3>2, <3>3, GotoMoves, MovedStack DEF TypeInv
  <2> QED BY <2>1, <2>2, <2>3, <2>4 DEF TypeInv
<1>18. CASE Int2Clear
  <2>1. TableType'
    <3>1. PICK t \in Slots : /\ ena' = [ena EXCEPT ![t] = FALSE]
                            /\ count' = [count EXCEPT ![t] = 0]
      BY <1>18 DEF Int2Clear
    <3>2. watch' = watch BY <1>18 DEF Int2Clear
    <3>3. \A s \in Slots : watch[s].count \in Nat
      BY BreakAssumption DEF TypeInv, TableType
    <3> QED BY <3>1, <3>2, <3>3 DEF TypeInv, TableType
  <2>2. HardwareType' BY <1>18 DEF Int2Clear, TypeInv, HardwareType, hwVars
  <2>3. MonitorType' BY <1>18 DEF Int2Clear, TypeInv, MonitorType
  <2>4. StackType'
    <3>1. Top.lvl = 2 BY <1>18 DEF Int2Clear, At
    <3>2. PICK p \in {"leave"} : Goto(p) BY <1>18 DEF Int2Clear
    <3>3. p \in Pcs /\ p \in PcsOf(2) BY <3>2 DEF Pcs, Pcs1, Pcs2, PcsOf
    <3> QED BY <3>1, <3>2, <3>3, GotoMoves, MovedStack DEF TypeInv
  <2> QED BY <2>1, <2>2, <2>3, <2>4 DEF TypeInv
<1>19. CASE Int2Resume
  <2>1. TableType' BY <1>19 DEF Int2Resume, TypeInv, TableType, tableVars
  <2>2. HardwareType' BY <1>19 DEF Int2Resume, TypeInv, HardwareType, hwVars
  <2>3. MonitorType' BY <1>19 DEF Int2Resume, TypeInv, MonitorType
  <2>4. StackType'
    <3>1. Top.lvl = 2 BY <1>19 DEF Int2Resume, At
    <3>2. PICK p \in {"leave"} : Goto(p) BY <1>19 DEF Int2Resume
    <3>3. p \in Pcs /\ p \in PcsOf(2) BY <3>2 DEF Pcs, Pcs1, Pcs2, PcsOf
    <3> QED BY <3>1, <3>2, <3>3, GotoMoves, MovedStack DEF TypeInv
  <2> QED BY <2>1, <2>2, <2>3, <2>4 DEF TypeInv
<1>20. CASE Int2Leave
  <2>1. TableType' BY <1>20 DEF Int2Leave, TypeInv, TableType, tableVars
  <2>2. HardwareType' BY <1>20 DEF Int2Leave, TypeInv, HardwareType, hwVars
  <2>3. MonitorType' BY <1>20 DEF Int2Leave, TypeInv, MonitorType
  <2>4. StackType'
    <3>1. Top.lvl = 2 BY <1>20 DEF Int2Leave, At
    <3>2. PICK p \in {"lpsw"} : Goto(p) BY <1>20 DEF Int2Leave
    <3>3. p \in Pcs /\ p \in PcsOf(2) BY <3>2 DEF Pcs, Pcs1, Pcs2, PcsOf
    <3> QED BY <3>1, <3>2, <3>3, GotoMoves, MovedStack DEF TypeInv
  <2> QED BY <2>1, <2>2, <2>3, <2>4 DEF TypeInv
<1>21. CASE \E k \in Requests : IoRequest(k)
  <2>1. TableType' BY <1>21 DEF IoRequest, TypeInv, TableType, tableVars
  <2>2. HardwareType' BY <1>21 DEF IoRequest, TypeInv, HardwareType, hwVars
  <2>3. MonitorType' BY <1>21 DEF IoRequest, TypeInv, MonitorType
  <2>4. StackType' BY <1>21 DEF IoRequest, TypeInv, StackType
  <2> QED BY <2>1, <2>2, <2>3, <2>4 DEF TypeInv
<1>22. CASE IoTimeout
  <2>1. TableType' BY <1>22 DEF IoTimeout, TypeInv, TableType, tableVars
  <2>2. HardwareType' BY <1>22 DEF IoTimeout, TypeInv, HardwareType, hwVars
  <2>3. MonitorType' BY <1>22 DEF IoTimeout, TypeInv, MonitorType
  <2>4. StackType' BY <1>22 DEF IoTimeout, TypeInv, StackType
  <2> QED BY <2>1, <2>2, <2>3, <2>4 DEF TypeInv
<1>23. CASE TimerIrq
  <2>1. TableType' BY <1>23 DEF TimerIrq, TypeInv, TableType, tableVars
  <2>2. HardwareType' BY <1>23 DEF TimerIrq, TypeInv, HardwareType, hwVars
  <2>3. MonitorType' BY <1>23 DEF TimerIrq, TypeInv, MonitorType
  <2>4. StackType' BY <1>23 DEF TimerIrq, TypeInv, StackType
  <2> QED BY <2>1, <2>2, <2>3, <2>4 DEF TypeInv
<1>24. CASE Exec
  <2>1. TableType' BY <1>24 DEF Exec, TypeInv, TableType, tableVars
  <2>2. HardwareType' BY <1>24 DEF Exec, TypeInv, HardwareType, hwVars
  <2>3. MonitorType' BY <1>24 DEF Exec, TypeInv, MonitorType
  <2>4. StackType'
    <3>1. Top.on \in SUBSET {1, 2} BY TopFacts DEF TypeInv, FrameType
    <3>2. frames' = <<Frame("user", 0, Top.on)>> /\ "user" \in BasePcs
      BY <1>24 DEF Exec, BasePcs
    <3> QED BY <3>1, <3>2, Replaced
  <2> QED BY <2>1, <2>2, <2>3, <2>4 DEF TypeInv
<1>25. CASE UNCHANGED vars
  <2>1. TableType' BY <1>25 DEF vars, TypeInv, TableType, tableVars
  <2>2. HardwareType' BY <1>25 DEF vars, TypeInv, HardwareType, hwVars
  <2>3. MonitorType' BY <1>25 DEF vars, TypeInv, MonitorType
  <2>4. StackType' BY <1>25 DEF vars, TypeInv, StackType
  <2> QED BY <2>1, <2>2, <2>3, <2>4 DEF TypeInv
<1> QED BY <1>1, <1>2, <1>3, <1>4, <1>5, <1>6, <1>7, <1>8, <1>9, <1>10, <1>11, <1>12, <1>13, <1>14, <1>15, <1>16, <1>17, <1>18, <1>19, <1>20, <1>21, <1>22, <1>23, <1>24, <1>25
     DEF Next, CpuNext

\* Types and ranges of the comparators, the interrupt registers and the
\* monitor's data; the stack of contexts always starts with the program, the
\* main loop or, after a wrong return, a lost one (interrupt.asm, mn1613.ts).
THEOREM TypeCorrect == Spec => []TypeOK
<1>1. TypeInv => TypeOK
  <2> SUFFICES ASSUME TypeInv PROVE TypeOK OBVIOUS
  <2>1. /\ watch \in [Slots -> Watches] /\ ena \in [Slots -> BOOLEAN]
        /\ count \in [Slots -> Nat]
        /\ \A s \in Slots : count[s] <= watch[s].count
    BY Zenon DEF TypeInv, TableType
  <2>2. /\ frames # <<>> /\ frames[1].pc \in {"user", "main", "lost"}
        /\ \A i \in 2..Len(frames) : frames[i].lvl \in {1, 2}
    BY DEF TypeInv, StackType, BasePcs
  <2>3. HardwareType /\ MonitorType BY DEF TypeInv
  <2> QED BY <2>1, <2>2, <2>3, Zenon DEF TypeOK, HardwareType, MonitorType
<1> QED BY <1>1, TypeInit, TypeStep, PTL DEF Spec

-----------------------------------------------------------------------------
(* The contexts.  The program runs once and nobody asks for a step; only   *)
(* writes are watched.  Without the first two, an INT1 may come while INT2 *)
(* interrupts another INT1.                                                *)

OneRun == "step" \notin Requests /\ MaxExecs = 0

\* The one-shot is never armed.
QuietInv == arm = FALSE /\ stepLeft = 0 /\ cause \in {0, 2} /\ execs = 0

\* At most the program, INT1 and INT2, in this order; IRQ1 is not pending
\* while a handler runs.
Shape ==
  /\ Len(frames) <= 3
  /\ frames[1].pc # "lost"
  /\ frames[1].pc = "user" => frames[1].on = {1, 2}
  /\ frames[1].pc = "main" => /\ frames[1].on = {2} /\ 1 \notin pend
                              /\ Len(frames) > 1 => frames[2].lvl = 2
  /\ Len(frames) > 1 => 1 \notin pend
  /\ Len(frames) = 3 => frames[2].lvl = 1 /\ frames[3].lvl = 2
  /\ \A i \in 2..Len(frames) : /\ frames[i].on = {3 - frames[i].lvl}
                                /\ opsw[frames[i].lvl] = i - 1

LEMMA QuietStep ==
  ASSUME OneRun, TypeInv, QuietInv, [Next]_vars
  PROVE  QuietInv'
<1>1. ASSUME NEW f \in {0, 1}, Bus(<<>>, cell, f)
      PROVE  stepLeft' = 0 /\ cause' \in {0, 2}
  BY <1>1, BusFetch DEF QuietInv
<1>2. ASSUME Bus(<<"RD">>, cell, 0)
      PROVE  stepLeft' = 0 /\ cause' \in {0, 2}
  BY <1>2, BusRead DEF QuietInv
<1>3. CASE UserStep
  <2>1. PICK a \in Accesses, v \in Vals : Bus(a, v, 1) BY <1>3 DEF UserStep
  <2>2. stepLeft' = 0 /\ cause' \in {0, cause} BY <2>1, BusUser DEF QuietInv
  <2> QED BY <1>3, <2>2 DEF UserStep, QuietInv, boundVars
<1>4. CASE \E l \in {1, 2} : Accept(l)
  BY <1>4 DEF Accept, QuietInv, boundVars
<1>5. CASE \E l \in {1, 2} : Return(l)
  BY <1>1, <1>5 DEF Return, QuietInv, boundVars
<1>6. CASE HandlerFetch BY <1>6 DEF HandlerFetch, QuietInv
<1>7. CASE Int1Cause \/ Int1NotifyBreak \/ Int1NotifyStep \/ Int1Stop
  BY <1>7 DEF Int1Cause, Int1NotifyBreak, Int1NotifyStep, Int1Stop, QuietInv,
              boundVars, hwVars
<1>8. CASE Int1ReadHit \/ Int1Count
  BY <1>8 DEF Int1ReadHit, Int1Count, QuietInv, boundVars, hwVars
<1>9. CASE Int1Compare BY <1>2, <1>9 DEF Int1Compare, QuietInv, boundVars
<1>10. CASE Int1Epilogue BY <1>10 DEF Int1Epilogue, QuietInv, boundVars
<1>11. CASE Int1Restore
  BY <1>1, <1>11 DEF Int1Restore, QuietInv, boundVars
<1>12. CASE Int2SetBusy \/ Int2Cause \/ Int2Nothing \/ Int2Clear \/ Int2Leave
  BY <1>12 DEF Int2SetBusy, Int2Cause, Int2Nothing, Int2Clear, Int2Leave,
               QuietInv, boundVars, hwVars
<1>13. CASE Int2Read BY <1>2, <1>13 DEF Int2Read, QuietInv, boundVars
<1>14. CASE Int2Resume
  <2>1. req # "step" BY DEF OneRun, TypeInv, MonitorType
  <2>2. arm' = FALSE BY <1>14, <2>1 DEF Int2Resume
  <2> QED BY <1>14, <2>2 DEF Int2Resume, QuietInv, boundVars, hwVars
<1>15. CASE \E k \in Requests : IoRequest(k) BY <1>15 DEF IoRequest, QuietInv
<1>16. CASE IoTimeout \/ TimerIrq
  BY <1>16 DEF IoTimeout, TimerIrq, QuietInv, hwVars, boundVars
<1>17. CASE Exec BY <1>17 DEF Exec, OneRun, QuietInv
<1>18. CASE UNCHANGED vars BY <1>18 DEF vars, hwVars, boundVars, QuietInv
<1> QED BY <1>3, <1>4, <1>5, <1>6, <1>7, <1>8, <1>9, <1>10, <1>11, <1>12,
           <1>13, <1>14, <1>15, <1>16, <1>17, <1>18 DEF Next, CpuNext

\* The slots are set before the program starts.
LEMMA WatchKept == [Next]_vars => watch' = watch
BY DEF Next, CpuNext, vars, tableVars, Accept, Return, UserStep, HandlerFetch,
       Int1Cause, Int1ReadHit, Int1Compare, Int1Count, Int1NotifyBreak,
       Int1NotifyStep, Int1Stop, Int1Epilogue, Int1Restore, Int2SetBusy,
       Int2Cause, Int2Nothing, Int2Read, Int2Clear, Int2Resume, Int2Leave,
       IoRequest, IoTimeout, TimerIrq, Exec

LEMMA MoveShape ==
  ASSUME StackType, Shape, Top.lvl # 0, NEW pc, NEW slot,
         Moved(pc, slot), opsw' = opsw, pend' = pend
  PROVE  Shape'
<1>1. Len(frames) > 1 /\ Len(frames) \in Nat /\ Top = frames[Len(frames)]
  BY TopFacts
<1>2. /\ Len(frames') = Len(frames) /\ frames'[1] = frames[1]
      /\ \A i \in 2..Len(frames) : /\ frames'[i].lvl = frames[i].lvl
                                    /\ frames'[i].on = frames[i].on
  BY <1>1 DEF Moved
<1>3. Len(frames) = 3 => frames'[2].lvl = frames[2].lvl /\ frames'[3].lvl = frames[3].lvl
  BY <1>2
<1>4. frames'[2].lvl = frames[2].lvl BY <1>1, <1>2
<1>5. \A i \in 2..Len(frames') : /\ frames'[i].on = {3 - frames'[i].lvl}
                                 /\ opsw'[frames'[i].lvl] = i - 1
  BY <1>2 DEF Shape
<1> QED BY <1>1, <1>2, <1>3, <1>4, <1>5 DEF Shape

LEMMA SmallLength ==
  ASSUME NEW n \in Nat, n >= 1, n <= 3
  PROVE  n = 1 \/ n = 2 \/ n = 3
OBVIOUS

LEMMA ShapeStep ==
  ASSUME OneRun, WritesOnly, TypeInv, QuietInv, Shape, [Next]_vars
  PROVE  Shape'
<1>1. CASE \E l \in {1, 2} : Accept(l)
  <2>1. PICK l \in {1, 2} : Accept(l) BY <1>1
  <2>2. /\ Len(frames) \in Nat /\ Len(frames) >= 1 /\ Top = frames[Len(frames)]
        /\ frames[1].pc \in BasePcs /\ frames[1].lvl = 0
    BY TopFacts DEF TypeInv, StackType
  <2>3. l \in pend /\ l \in Top.on /\ opsw' = [opsw EXCEPT ![l] = Len(frames)]
        /\ pend' = pend \ {l} /\ (1 \in pend /\ 1 \in Top.on => l = 1)
    BY <2>1 DEF Accept, Acceptable
  <2>4. /\ StackType' /\ Len(frames') = Len(frames) + 1
        /\ \A i \in 1..Len(frames) : frames'[i] = frames[i]
        /\ frames'[Len(frames) + 1].lvl = l
        /\ frames'[Len(frames) + 1].on = {3 - l}
    BY <2>1, Pushed DEF Accept, TypeInv
  <2>5. CASE Len(frames) = 1
    <3>1. /\ Len(frames') = 2 /\ frames'[1] = frames[1] /\ frames'[2].lvl = l
          /\ frames'[2].on = {3 - l} /\ opsw'[l] = 1
      BY <2>2, <2>3, <2>4, <2>5 DEF TypeInv, MonitorType
    <3>2. frames[1].pc = "user" => 1 \notin pend'
      BY <2>2, <2>3, <2>5 DEF Shape
    <3>3. frames[1].pc = "main" => l = 2 /\ 1 \notin pend'
      BY <2>2, <2>3, <2>5 DEF Shape
    <3>4. frames[1].pc \in {"user", "main"} BY <2>2 DEF Shape, BasePcs
    <3>5. \A i \in 2..Len(frames') : i = 2 BY <3>1
    <3> QED BY <3>1, <3>2, <3>3, <3>4, <3>5 DEF Shape
  <2>6. CASE Len(frames) = 2
    <3>1. frames[2].lvl = 1 /\ l = 2 /\ 1 \notin pend
      BY <2>2, <2>3, <2>6 DEF Shape, TypeInv, StackType
    <3>2. /\ Len(frames') = 3 /\ frames'[1] = frames[1] /\ frames'[2] = frames[2]
          /\ frames'[3].lvl = 2 /\ frames'[3].on = {1}
          /\ opsw'[2] = 2 /\ opsw'[1] = opsw[1] /\ 1 \notin pend'
      BY <2>2, <2>3, <2>4, <2>6, <3>1 DEF TypeInv, MonitorType
    <3>3. \A i \in 2..Len(frames') : i = 2 \/ i = 3 BY <3>2
    <3>4. frames[2].on = {2} /\ opsw[1] = 1 /\ frames[1].pc # "main"
      BY <2>6, <3>1 DEF Shape
    <3> QED BY <3>1, <3>2, <3>3, <3>4 DEF Shape
  <2>7. CASE Len(frames) = 3
    <3>1. frames[3].lvl = 2 /\ frames[3].on = {1} /\ 1 \notin pend
      BY <2>7 DEF Shape
    <3> QED BY <3>1, <2>2, <2>3, <2>7
  <2>8. Len(frames) <= 3 BY DEF Shape
  <2>9. Len(frames) = 1 \/ Len(frames) = 2 \/ Len(frames) = 3 BY <2>2, <2>8, SmallLength
  <2> QED BY <2>5, <2>6, <2>7, <2>9
<1>2. CASE \E l \in {1, 2} : Return(l)
  <2>1. PICK l \in {1, 2} : Return(l) BY <1>2
  <2>2. Len(frames) > 1 /\ Len(frames) \in Nat /\ frames[Len(frames)].lvl = l
    BY <2>1, TopFacts DEF Return, At, TypeInv
  <2>3. opsw[l] = Len(frames) - 1 BY <2>2 DEF Shape
  <2>4. frames' = SubSeq(frames, 1, Len(frames) - 1) /\ opsw' = opsw
    BY <2>1, <2>3 DEF Return
  <2>5. /\ Len(frames') = Len(frames) - 1
        /\ \A i \in 1 .. Len(frames) - 1 : frames'[i] = frames[i]
    BY <2>2, <2>4, Popped DEF TypeInv
  <2>6. pend' = pend
    <3>1. Bus(<<>>, cell, 1) BY <2>1 DEF Return
    <3> QED BY <3>1, BusFetch DEF QuietInv
  <2>7. frames'[1] = frames[1] BY <2>2, <2>5
  <2>8. CASE Len(frames) = 2
    <3>1. Len(frames') = 1 BY <2>5, <2>8
    <3>2. 1 \notin pend' BY <2>6, <2>8 DEF Shape
    <3> QED BY <2>7, <3>1, <3>2 DEF Shape
  <2>9. CASE Len(frames) = 3
    <3>1. Len(frames') = 2 /\ frames'[2] = frames[2] BY <2>5, <2>9
    <3>2. \A i \in 2..Len(frames') : i = 2 BY <3>1
    <3>3. 1 \notin pend' /\ frames[2].lvl = 1 /\ frames[2].on = {2}
          /\ opsw[1] = 1 /\ frames[1].pc # "main"
      BY <2>6, <2>9 DEF Shape
    <3>4. opsw' = opsw BY <2>4
    <3> QED BY <2>7, <3>1, <3>2, <3>3, <3>4 DEF Shape
  <2>10. Len(frames) <= 3 BY DEF Shape
  <2>11. Len(frames) = 2 \/ Len(frames) = 3
    <3>1. Len(frames) >= 1 /\ Len(frames) # 1 BY <2>2
    <3> QED BY <2>2, <2>10, <3>1, SmallLength
  <2> QED BY <2>8, <2>9, <2>11
<1>3. CASE UserStep
  <2>1. Len(frames) = 1 /\ frames[1].pc = "user" /\ frames' = frames
    BY <1>3, TopFacts DEF UserStep, TypeInv, BasePcs
  <2>2. 2..Len(frames') = {}
    <3>1. 2..1 = {} OBVIOUS
    <3> QED BY <2>1, <3>1, Zenon
  <2> QED BY <2>1, <2>2 DEF Shape
<1>4. CASE HandlerFetch
  <2>1. FALSE BY <1>4 DEF HandlerFetch, QuietInv
  <2> QED BY <2>1
<1>5. CASE Int1Cause
  <2>1. pend' = pend BY <1>5 DEF Int1Cause, hwVars
  <2>2. Top.lvl # 0 /\ opsw' = opsw BY <1>5 DEF Int1Cause, At
  <2>3. PICK p \in {"hit", "step"} : Goto(p) BY <1>5 DEF Int1Cause
  <2>4. p \in Pcs BY <2>3 DEF Pcs, Pcs1, Pcs2
  <2> QED BY <2>1, <2>2, <2>3, <2>4, GotoMoves, MoveShape DEF TypeInv
<1>6. CASE Int1ReadHit
  <2>1. pend' = pend /\ opsw' = opsw /\ Top.lvl # 0 BY <1>6 DEF Int1ReadHit, At
  <2>2. PICK p \in {"epilogue", "count", "compare"} :
          frames' = [frames EXCEPT ![Len(frames)].pc = p,
                                   ![Len(frames)].slot = lastHit]
    BY <1>6 DEF Int1ReadHit
  <2>3. p \in Pcs BY <2>2 DEF Pcs, Pcs1, Pcs2
  <2>4. lastHit \in Slots \cup {NoHit} BY DEF TypeInv, HardwareType
  <2> QED BY <2>1, <2>2, <2>3, <2>4, SlotMoves, MoveShape DEF TypeInv
<1>7. CASE Int1Compare
  <2>1. pend' = pend
    <3>1. Bus(<<"RD">>, cell, 0) BY <1>7 DEF Int1Compare
    <3> QED BY <3>1, BusRead DEF hwVars
  <2>2. Top.lvl # 0 /\ opsw' = opsw BY <1>7 DEF Int1Compare, At
  <2>3. PICK p \in {"count", "epilogue"} : Goto(p) BY <1>7 DEF Int1Compare
  <2>4. p \in Pcs BY <2>3 DEF Pcs, Pcs1, Pcs2
  <2> QED BY <2>1, <2>2, <2>3, <2>4, GotoMoves, MoveShape DEF TypeInv
<1>8. CASE Int1Count
  <2>1. pend' = pend BY <1>8 DEF Int1Count, hwVars
  <2>2. Top.lvl # 0 /\ opsw' = opsw BY <1>8 DEF Int1Count, At
  <2>3. PICK p \in {"notify", "epilogue"} : Goto(p) BY <1>8 DEF Int1Count
  <2>4. p \in Pcs BY <2>3 DEF Pcs, Pcs1, Pcs2
  <2> QED BY <2>1, <2>2, <2>3, <2>4, GotoMoves, MoveShape DEF TypeInv
<1>9. CASE Int1NotifyBreak
  <2>1. pend' = pend BY <1>9 DEF Int1NotifyBreak, hwVars
  <2>2. Top.lvl # 0 /\ opsw' = opsw BY <1>9 DEF Int1NotifyBreak, At
  <2>3. PICK p \in {"halt"} : Goto(p) BY <1>9 DEF Int1NotifyBreak
  <2>4. p \in Pcs BY <2>3 DEF Pcs, Pcs1, Pcs2
  <2> QED BY <2>1, <2>2, <2>3, <2>4, GotoMoves, MoveShape DEF TypeInv
<1>10. CASE Int1NotifyStep
  <2>1. pend' = pend BY <1>10 DEF Int1NotifyStep, hwVars
  <2>2. Top.lvl # 0 /\ opsw' = opsw BY <1>10 DEF Int1NotifyStep, At
  <2>3. PICK p \in {"halt"} : Goto(p) BY <1>10 DEF Int1NotifyStep
  <2>4. p \in Pcs BY <2>3 DEF Pcs, Pcs1, Pcs2
  <2> QED BY <2>1, <2>2, <2>3, <2>4, GotoMoves, MoveShape DEF TypeInv
<1>11. CASE Int1Stop
  <2>1. /\ Len(frames) > 1 /\ Len(frames) \in Nat /\ Top.lvl = 1
        /\ Top = frames[Len(frames)]
    BY <1>11, TopFacts DEF Int1Stop, At, TypeInv
  <2>2. Len(frames) = 2 /\ Top.on = {2} /\ 1 \notin pend
    <3>1. Len(frames) <= 3 /\ 1 \notin pend BY <2>1 DEF Shape
    <3>2. Len(frames) # 3 BY <2>1 DEF Shape
    <3>3. Len(frames) = 2
      <4>1. Len(frames) >= 1 /\ Len(frames) # 1 BY <2>1
      <4> QED BY <2>1, <3>1, <3>2, <4>1, SmallLength
    <3>4. Top.on = {3 - Top.lvl} BY <2>1, <3>3 DEF Shape
    <3> QED BY <2>1, <3>1, <3>3, <3>4
  <2>3. frames' = <<Frame("main", 0, {2})>> /\ pend' = pend
    BY <1>11, <2>2 DEF Int1Stop, hwVars
  <2>4. "main" \in BasePcs /\ {2} \in SUBSET {1, 2} BY DEF BasePcs
  <2>5. Len(frames') = 1 /\ frames'[1].pc = "main" /\ frames'[1].on = {2}
    BY <2>3, <2>4, Replaced
  <2> QED BY <2>2, <2>3, <2>5 DEF Shape
<1>12. CASE Int1Epilogue
  <2>1. pend' = pend BY <1>12 DEF Int1Epilogue, hwVars
  <2>2. Top.lvl # 0 /\ opsw' = opsw BY <1>12 DEF Int1Epilogue, At
  <2>3. PICK p \in {"ret", "lpsw"} : Goto(p) BY <1>12 DEF Int1Epilogue
  <2>4. p \in Pcs BY <2>3 DEF Pcs, Pcs1, Pcs2
  <2> QED BY <2>1, <2>2, <2>3, <2>4, GotoMoves, MoveShape DEF TypeInv
<1>13. CASE Int1Restore
  <2>1. pend' = pend
    <3>1. Bus(<<>>, cell, 1) BY <1>13 DEF Int1Restore
    <3> QED BY <3>1, BusFetch DEF QuietInv
  <2>2. Top.lvl # 0 /\ opsw' = opsw BY <1>13 DEF Int1Restore, At
  <2>3. PICK p \in {"popm", "lpsw"} : Goto(p) BY <1>13 DEF Int1Restore
  <2>4. p \in Pcs BY <2>3 DEF Pcs, Pcs1, Pcs2
  <2> QED BY <2>1, <2>2, <2>3, <2>4, GotoMoves, MoveShape DEF TypeInv
<1>14. CASE Int2SetBusy
  <2>1. pend' = pend BY <1>14 DEF Int2SetBusy, hwVars
  <2>2. Top.lvl # 0 /\ opsw' = opsw BY <1>14 DEF Int2SetBusy, At
  <2>3. PICK p \in {"read"} : Goto(p) BY <1>14 DEF Int2SetBusy
  <2>4. p \in Pcs BY <2>3 DEF Pcs, Pcs1, Pcs2
  <2> QED BY <2>1, <2>2, <2>3, <2>4, GotoMoves, MoveShape DEF TypeInv
<1>15. CASE Int2Cause
  <2>1. pend' = pend BY <1>15 DEF Int2Cause, hwVars
  <2>2. Top.lvl # 0 /\ opsw' = opsw BY <1>15 DEF Int2Cause, At
  <2>3. PICK p \in {"serve", "timer"} : Goto(p) BY <1>15 DEF Int2Cause
  <2>4. p \in Pcs BY <2>3 DEF Pcs, Pcs1, Pcs2
  <2> QED BY <2>1, <2>2, <2>3, <2>4, GotoMoves, MoveShape DEF TypeInv
<1>16. CASE Int2Nothing
  <2>1. pend' = pend BY <1>16 DEF Int2Nothing, hwVars
  <2>2. Top.lvl # 0 /\ opsw' = opsw BY <1>16 DEF Int2Nothing, At
  <2>3. PICK p \in {"leave"} : Goto(p) BY <1>16 DEF Int2Nothing
  <2>4. p \in Pcs BY <2>3 DEF Pcs, Pcs1, Pcs2
  <2> QED BY <2>1, <2>2, <2>3, <2>4, GotoMoves, MoveShape DEF TypeInv
<1>17. CASE Int2Read
  <2>1. pend' = pend
    <3>1. Bus(<<"RD">>, cell, 0) BY <1>17 DEF Int2Read
    <3> QED BY <3>1, BusRead DEF hwVars
  <2>2. Top.lvl # 0 /\ opsw' = opsw BY <1>17 DEF Int2Read, At
  <2>3. PICK p \in {"leave"} : Goto(p) BY <1>17 DEF Int2Read
  <2>4. p \in Pcs BY <2>3 DEF Pcs, Pcs1, Pcs2
  <2> QED BY <2>1, <2>2, <2>3, <2>4, GotoMoves, MoveShape DEF TypeInv
<1>18. CASE Int2Clear
  <2>1. pend' = pend BY <1>18 DEF Int2Clear, hwVars
  <2>2. Top.lvl # 0 /\ opsw' = opsw BY <1>18 DEF Int2Clear, At
  <2>3. PICK p \in {"leave"} : Goto(p) BY <1>18 DEF Int2Clear
  <2>4. p \in Pcs BY <2>3 DEF Pcs, Pcs1, Pcs2
  <2> QED BY <2>1, <2>2, <2>3, <2>4, GotoMoves, MoveShape DEF TypeInv
<1>19. CASE Int2Resume
  <2>1. pend' = pend BY <1>19 DEF Int2Resume, hwVars
  <2>2. Top.lvl # 0 /\ opsw' = opsw BY <1>19 DEF Int2Resume, At
  <2>3. PICK p \in {"leave"} : Goto(p) BY <1>19 DEF Int2Resume
  <2>4. p \in Pcs BY <2>3 DEF Pcs, Pcs1, Pcs2
  <2> QED BY <2>1, <2>2, <2>3, <2>4, GotoMoves, MoveShape DEF TypeInv
<1>20. CASE Int2Leave
  <2>1. pend' = pend BY <1>20 DEF Int2Leave, hwVars
  <2>2. Top.lvl # 0 /\ opsw' = opsw BY <1>20 DEF Int2Leave, At
  <2>3. PICK p \in {"lpsw"} : Goto(p) BY <1>20 DEF Int2Leave
  <2>4. p \in Pcs BY <2>3 DEF Pcs, Pcs1, Pcs2
  <2> QED BY <2>1, <2>2, <2>3, <2>4, GotoMoves, MoveShape DEF TypeInv
<1>21. CASE \E k \in Requests : IoRequest(k)
  <2>1. frames' = frames /\ opsw' = opsw /\ pend' = pend \cup {2}
    BY <1>21 DEF IoRequest
  <2>2. 1 \in pend' <=> 1 \in pend BY <2>1
  <2> QED BY <2>1, <2>2 DEF Shape
<1>22. CASE IoTimeout
  <2> QED BY <1>22 DEF IoTimeout, hwVars, Shape
<1>23. CASE TimerIrq
  <2>1. frames' = frames /\ opsw' = opsw /\ pend' = pend \cup {2}
    BY <1>23 DEF TimerIrq
  <2>2. 1 \in pend' <=> 1 \in pend BY <2>1
  <2> QED BY <2>1, <2>2 DEF Shape
<1>24. CASE Exec
  <2>1. FALSE BY <1>24 DEF Exec, QuietInv, OneRun
  <2> QED BY <2>1
<1>25. CASE UNCHANGED vars
  <2> QED BY <1>25 DEF vars, hwVars, Shape
<1> QED BY <1>1, <1>2, <1>3, <1>4, <1>5, <1>6, <1>7, <1>8, <1>9, <1>10, <1>11, <1>12, <1>13, <1>14, <1>15, <1>16, <1>17, <1>18, <1>19, <1>20, <1>21, <1>22, <1>23, <1>24, <1>25
     DEF Next, CpuNext

ShapeInv == TypeInv /\ QuietInv /\ (WritesOnly => Shape)

LEMMA ShapeInductive ==
  ASSUME OneRun
  PROVE  (Init => ShapeInv) /\ (ShapeInv /\ [Next]_vars => ShapeInv')
<1>1. ASSUME Init PROVE ShapeInv
  <2>1. TypeInv BY <1>1, TypeInit
  <2>2. QuietInv BY <1>1 DEF Init, QuietInv
  <2>3. Shape
    <3>1. Len(frames) = 1 /\ frames[1].pc = "user" /\ frames[1].on = {1, 2}
      BY <1>1 DEF Init, Frame
    <3> QED BY <3>1 DEF Shape
  <2> QED BY <2>1, <2>2, <2>3 DEF ShapeInv
<1>2. ASSUME ShapeInv, [Next]_vars PROVE ShapeInv'
  <2>1. TypeInv' /\ QuietInv' BY <1>2, TypeStep, QuietStep DEF ShapeInv
  <2>2. WritesOnly' <=> WritesOnly BY <1>2, WatchKept DEF WritesOnly
  <2>3. WritesOnly => Shape' BY <1>2, ShapeStep DEF ShapeInv
  <2> QED BY <2>1, <2>2, <2>3 DEF ShapeInv
<1> QED BY <1>1, <1>2

\* A handler's LPSW finds its own return address in the save area of its level
\* (mn1613.ts, _acceptIrq), whatever interrupts come and in whatever order, for
\* any slots, watches and requests, if only writes are watched, no step is
\* asked for and the program is not started again.
THEOREM ReturnsKept ==
  ASSUME OneRun
  PROVE  Spec => []ContextKept
<1>1. ShapeInv => ContextKept
  <2> SUFFICES ASSUME ShapeInv, WritesOnly, NEW i \in DOMAIN frames,
                      frames[i].lvl # 0
               PROVE  opsw[frames[i].lvl] = i - 1
    BY DEF ContextKept
  <2>1. i \in 2..Len(frames)
    <3>1. DOMAIN frames = 1..Len(frames) /\ Len(frames) \in Nat
      BY TopFacts DEF ShapeInv, TypeInv
    <3>2. i # 1 BY DEF ShapeInv, TypeInv, StackType
    <3> QED BY <3>1, <3>2
  <2> QED BY <2>1 DEF ShapeInv, Shape
<1> QED BY <1>1, ShapeInductive, PTL DEF Spec

-----------------------------------------------------------------------------
(* The count of a slot.  Accesses counted as they happen (due) and hits    *)
(* counted by the handler (count) differ by at most the one the handler is *)
(* working on.                                                             *)

\* The slot that watches writes, of several the first.
Hot == SlotFor("WR")

\* The word meets the condition of the slot.
Meets(s) == watch[s].want \in {Any, cell}

\* Each access so far has been taken off the count and the slot is not used up.
Settled(s) ==
  /\ watch[s].kinds # {} => count[s] + due[s] = watch[s].count
  /\ due[s] < Limit(s)

\* One access has still to be taken off, if it meets the condition.
Open(s) ==
  IF Meets(s)
  THEN /\ count[s] + due[s] = watch[s].count + 1
       /\ due[s] >= 1 /\ due[s] <= Limit(s)
  ELSE Settled(s)

OthersSettled == \A s \in Slots : s # Hot => Settled(s)

Clear   == owed = {} /\ \A s \in Slots : Settled(s)
Waiting == /\ Hot \in Slots /\ lastHit = Hot /\ owed \subseteq {Hot}
           /\ OthersSettled /\ Open(Hot)
Chosen  == Hot \in Slots /\ owed = {} /\ OthersSettled /\ Open(Hot)

\* INT1 is on the stack, above the program.
Serving == Len(frames) > 1 /\ frames[2].lvl = 1

Hits ==
  /\ frames[1].pc = "user" /\ 1 \notin pend /\ ~Serving => Clear
  /\ 1 \in pend \/ (Serving /\ frames[2].pc \in {"entry", "hit"}) => Waiting
  /\ Serving /\ frames[2].pc \in {"compare", "count"} =>
       /\ Chosen /\ frames[2].slot = Hot
       /\ frames[2].pc = "compare" => watch[Hot].want # Any
       /\ frames[2].pc = "count" => Meets(Hot)
  /\ Serving /\ frames[2].pc = "notify" =>
       due[frames[2].slot] = Limit(frames[2].slot)
  /\ Serving /\ frames[2].pc \in {"epilogue", "ret", "popm", "lpsw"} => Clear

LEMMA HotIsSlot ==
  /\ NoHit \notin Slots
  /\ Hot = NoHit \/ Hot \in Slots
<1>1. NoHit \notin 0..3 BY DEF NoHit
<1> QED BY <1>1, BreakAssumption, SlotForFacts DEF Hot

\* What the counts are about depends on the slots, the table and the word.
LEMMA SameCounts ==
  ASSUME UNCHANGED <<watch, due, cell>>,
         \A s \in Slots : watch[s].kinds # {} => count'[s] = count[s]
  PROVE  /\ Hot' = Hot /\ \A s \in Slots : Settled(s)' <=> Settled(s)
         /\ OthersSettled' <=> OthersSettled
         /\ Hot \in Slots => (Open(Hot)' <=> Open(Hot)) /\ (Meets(Hot)' <=> Meets(Hot))
<1>1. Hot' = Hot BY DEF Hot, SlotFor
<1>2. \A s : Limit(s)' = Limit(s) BY DEF Limit
<1>3. \A s \in Slots : Settled(s)' <=> Settled(s) BY <1>2 DEF Settled
<1>4. OthersSettled' <=> OthersSettled BY <1>1, <1>3 DEF OthersSettled
<1>5. ASSUME Hot \in Slots
      PROVE (Open(Hot)' <=> Open(Hot)) /\ (Meets(Hot)' <=> Meets(Hot))
  <2>1. watch[Hot].kinds # {} BY <1>5, SlotForFacts, HotIsSlot DEF Hot
  <2>2. count'[Hot] = count[Hot] BY <1>5, <2>1
  <2>3. Meets(Hot)' <=> Meets(Hot) BY <1>1 DEF Meets
  <2>4. Settled(Hot)' <=> Settled(Hot)
    BY <1>1, <1>2, <2>2 DEF Settled
  <2> QED BY <1>1, <1>2, <2>2, <2>3, <2>4 DEF Open
<1> QED BY <1>1, <1>3, <1>4, <1>5

LEMMA SameData ==
  ASSUME UNCHANGED <<watch, due, cell, lastHit, owed>>,
         \A s \in Slots : watch[s].kinds # {} => count'[s] = count[s]
  PROVE  (Clear' <=> Clear) /\ (Waiting' <=> Waiting) /\ (Chosen' <=> Chosen)
<1>1. /\ Hot' = Hot /\ \A s \in Slots : Settled(s)' <=> Settled(s)
      /\ OthersSettled' <=> OthersSettled
      /\ Hot \in Slots => (Open(Hot)' <=> Open(Hot)) /\ (Meets(Hot)' <=> Meets(Hot))
  BY SameCounts
<1>2. Clear' <=> Clear BY <1>1 DEF Clear
<1>3. Waiting' <=> Waiting BY <1>1 DEF Waiting
<1>4. Chosen' <=> Chosen BY <1>1 DEF Chosen
<1> QED BY <1>2, <1>3, <1>4

\* A step that concerns neither INT1 nor the counts.
LEMMA SameHits ==
  ASSUME Hits, UNCHANGED <<watch, due, cell, lastHit, owed>>,
         \A s \in Slots : watch[s].kinds # {} => count'[s] = count[s],
         1 \in pend' <=> 1 \in pend,
         frames'[1] = frames[1], Serving' <=> Serving,
         Serving => frames'[2] = frames[2]
  PROVE  Hits'
<1>1. (Clear' <=> Clear) /\ (Waiting' <=> Waiting) /\ (Chosen' <=> Chosen)
  BY SameData
<1>2. Hot' = Hot /\ (Hot \in Slots => (Meets(Hot)' <=> Meets(Hot)))
  BY SameCounts
<1>3. frames'[1].pc = "user" /\ 1 \notin pend' /\ ~Serving' => Clear'
  BY <1>1 DEF Hits
<1>4. 1 \in pend' \/ (Serving' /\ frames'[2].pc \in {"entry", "hit"}) => Waiting'
  BY <1>1 DEF Hits
<1>5. Serving' /\ frames'[2].pc \in {"compare", "count"} =>
        /\ Chosen' /\ frames'[2].slot = Hot'
        /\ frames'[2].pc = "compare" => watch'[Hot'].want # Any
        /\ frames'[2].pc = "count" => Meets(Hot)'
  BY <1>1, <1>2 DEF Hits, Chosen
<1>6. Serving' /\ frames'[2].pc = "notify" =>
        (due[frames[2].slot] = Limit(frames[2].slot))'
  BY DEF Hits, Limit
<1>7. Serving' /\ frames'[2].pc \in {"epilogue", "ret", "popm", "lpsw"} => Clear'
  BY <1>1 DEF Hits
<1> QED BY <1>3, <1>4, <1>5, <1>6, <1>7 DEF Hits

\* INT1 on top is the second frame.
LEMMA TopOne ==
  ASSUME TypeInv, Shape, Top.lvl = 1
  PROVE  Len(frames) = 2 /\ Serving /\ Top = frames[2] /\ 1 \notin pend
<1>1. Len(frames) > 1 /\ Len(frames) \in Nat /\ Top = frames[Len(frames)]
  BY TopFacts DEF TypeInv
<1>2. Len(frames) <= 3 /\ 1 \notin pend BY <1>1 DEF Shape
<1>3. Len(frames) # 3 BY <1>1 DEF Shape
<1>4. Len(frames) >= 1 /\ Len(frames) # 1 BY <1>1
<1>5. Len(frames) = 2 BY <1>1, <1>2, <1>3, <1>4, SmallLength
<1> QED BY <1>1, <1>2, <1>5 DEF Serving

LEMMA OneMoves ==
  ASSUME TypeInv, Top.lvl = 1, Len(frames) = 2, 1 \notin pend, pend' = pend,
         NEW pc, NEW slot, Moved(pc, slot)
  PROVE  /\ Serving' /\ frames'[2].pc = pc /\ frames'[2].slot = slot
         /\ 1 \notin pend'
BY DEF Moved, Serving

\* A step of INT2 does not touch INT1's frame.
LEMMA TopTwo ==
  ASSUME TypeInv, Shape, Top.lvl = 2, NEW pc, NEW slot, Moved(pc, slot)
  PROVE  /\ frames'[1] = frames[1] /\ (Serving' <=> Serving)
         /\ Serving => frames'[2] = frames[2]
<1>1. Len(frames) > 1 /\ Len(frames) \in Nat /\ Top = frames[Len(frames)]
  BY TopFacts DEF TypeInv
<1>2. frames'[1] = frames[1] BY <1>1 DEF Moved
<1>3. CASE Len(frames) = 2
  <2>1. ~Serving /\ ~Serving' BY <1>1, <1>3 DEF Moved, Serving
  <2> QED BY <1>2, <2>1
<1>4. CASE Len(frames) # 2
  <2>1. frames'[2] = frames[2] /\ Len(frames') = Len(frames)
    BY <1>1, <1>4 DEF Moved
  <2>2. Serving' <=> Serving BY <2>1 DEF Serving
  <2> QED BY <1>2, <2>1, <2>2
<1> QED BY <1>3, <1>4

\* An instruction of the program: the access is counted, and the handler has
\* all of it still to do.
LEMMA UserHits ==
  ASSUME WritesOnly, TypeInv, QuietInv, Shape, AsSet, Hits, UserStep
  PROVE  Hits'
<1>1. /\ Len(frames) = 1 /\ frames[1].pc = "user" /\ Top = frames[1]
      /\ Len(frames') = 1 /\ frames'[1].pc = "user"
  BY TopFacts DEF UserStep, TypeInv, BasePcs
<1>2. 1 \notin pend
  <2>1. Top.on = {1, 2} BY <1>1 DEF Shape
  <2> QED BY <2>1 DEF UserStep, Running, Acceptable
<1>3. ~Serving /\ ~Serving' BY <1>1 DEF Serving
<1>4. Clear BY <1>1, <1>2, <1>3 DEF Hits
<1>5. PICK a \in Accesses, v \in Vals :
        /\ Bus(a, v, 1)
        /\ due' = [s \in Slots |->
             IF /\ ena[s] /\ watch[s].want \in {Any, v}
                /\ \E i \in DOMAIN a : SlotFor(a[i]) = s
             THEN due[s] + 1 ELSE due[s]]
  BY DEF UserStep
<1>6. UNCHANGED <<watch, ena, count>> BY DEF UserStep, tableVars
<1>7. SlotFor("RD") = NoHit BY SlotForFacts DEF WritesOnly
<1>8. \A i \in DOMAIN a : SlotFor(a[i]) = NoHit \/ SlotFor(a[i]) = Hot
  <2>1. a \in Seq({"RD", "WR"}) BY BreakAssumption
  <2>2. \A i \in DOMAIN a : a[i] \in {"RD", "WR"} BY <2>1
  <2> QED BY <1>7, <2>2 DEF Hot
<1>9. /\ cell' = v
      /\ \/ /\ UNCHANGED <<lastHit, pend, owed>>
            /\ \A i \in DOMAIN a : SlotFor(a[i]) = NoHit
         \/ /\ pend' = pend \cup {1}
            /\ \E i \in DOMAIN a : SlotFor(a[i]) \in Slots
                                   /\ lastHit' = SlotFor(a[i])
            /\ owed' = owed \cup ({SlotFor(a[i]) : i \in DOMAIN a} \ {NoHit})
  BY <1>5, BusUser DEF QuietInv
<1>10. Hot' = Hot BY <1>6 DEF Hot, SlotFor
<1>11. \A s \in Slots : due[s] \in Nat /\ count[s] \in Nat /\ watch[s].count \in Nat
  BY BreakAssumption DEF TypeInv, TableType, MonitorType
<1>12. CASE /\ UNCHANGED <<lastHit, pend, owed>>
            /\ \A i \in DOMAIN a : SlotFor(a[i]) = NoHit
  <2>1. \A s \in Slots : due'[s] = due[s] BY <1>5, <1>12, HotIsSlot
  <2>2. \A s \in Slots : Settled(s)'
    <3> SUFFICES ASSUME NEW s \in Slots PROVE Settled(s)' OBVIOUS
    <3>1. Settled(s) BY <1>4 DEF Clear
    <3> QED BY <1>6, <2>1, <3>1 DEF Settled, Limit
  <2>3. Clear' BY <1>4, <1>12, <2>2 DEF Clear
  <2> QED BY <1>1, <1>2, <1>3, <1>12, <2>3 DEF Hits
<1>13. CASE /\ pend' = pend \cup {1}
            /\ \E i \in DOMAIN a : SlotFor(a[i]) \in Slots
                                   /\ lastHit' = SlotFor(a[i])
            /\ owed' = owed \cup ({SlotFor(a[i]) : i \in DOMAIN a} \ {NoHit})
  <2>1. Hot \in Slots /\ lastHit' = Hot /\ \E i \in DOMAIN a : SlotFor(a[i]) = Hot
    BY <1>8, <1>13, HotIsSlot
  <2>2. owed' \subseteq {Hot} BY <1>4, <1>8, <1>13 DEF Clear
  <2>3. watch[Hot].kinds # {} BY <2>1, SlotForFacts, HotIsSlot DEF Hot
  <2>4. ena[Hot] BY <2>1, <2>3 DEF AsSet
  <2>5. \A s \in Slots : s # Hot => due'[s] = due[s]
    BY <1>5, <1>8, HotIsSlot
  <2>6. due'[Hot] = IF watch[Hot].want \in {Any, v} THEN due[Hot] + 1 ELSE due[Hot]
    BY <1>5, <2>1, <2>4
  <2>7. \A s \in Slots : s # Hot => Settled(s)'
    <3> SUFFICES ASSUME NEW s \in Slots, s # Hot PROVE Settled(s)' OBVIOUS
    <3>1. Settled(s) BY <1>4 DEF Clear
    <3> QED BY <1>6, <2>5, <3>1 DEF Settled, Limit
  <2>8. OthersSettled' BY <1>10, <2>7 DEF OthersSettled
  <2>9. Settled(Hot) BY <1>4, <2>1 DEF Clear
  <2>10. Limit(Hot)' = Limit(Hot) BY <1>6, <1>10 DEF Limit
  <2>11. Limit(Hot) \in Nat BY <1>11, <2>1 DEF Limit
  <2>12. Open(Hot)'
    <3>1. CASE watch[Hot].want \in {Any, v}
      <4>1. Meets(Hot)' BY <1>6, <1>9, <1>10, <3>1 DEF Meets
      <4>2. due'[Hot] = due[Hot] + 1 BY <2>6, <3>1
      <4>3. /\ count[Hot] + due[Hot] = watch[Hot].count
            /\ due[Hot] < Limit(Hot)
        BY <2>3, <2>9 DEF Settled
      <4>4. due[Hot] \in Nat /\ count[Hot] \in Nat /\ watch[Hot].count \in Nat
        BY <1>11, <2>1
      <4>5. /\ count[Hot] + due'[Hot] = watch[Hot].count + 1
            /\ due'[Hot] >= 1 /\ due'[Hot] <= Limit(Hot)
        BY <2>11, <4>2, <4>3, <4>4
      <4> QED BY <1>6, <1>10, <2>10, <4>1, <4>5 DEF Open
    <3>2. CASE watch[Hot].want \notin {Any, v}
      <4>1. ~Meets(Hot)' BY <1>6, <1>9, <1>10, <3>2 DEF Meets
      <4>2. due'[Hot] = due[Hot] BY <2>6, <3>2
      <4>3. Settled(Hot)' BY <1>6, <1>10, <2>9, <2>10, <4>2 DEF Settled
      <4> QED BY <4>1, <4>3 DEF Open
    <3> QED BY <3>1, <3>2
  <2>13. Waiting' BY <1>10, <2>1, <2>2, <2>8, <2>12 DEF Waiting
  <2> QED BY <1>3, <1>13, <2>13 DEF Hits
<1> QED BY <1>9, <1>12, <1>13

LEMMA HitsStep ==
  ASSUME OneRun, WritesOnly, TypeInv, QuietInv, Shape, AsSet, Hits,
         [Next]_vars, AsSet'
  PROVE  Hits'
<1>1. CASE \E l \in {1, 2} : Accept(l)
  <2>1. PICK l \in {1, 2} : Accept(l) BY <1>1
  <2>2. /\ l \in pend /\ l \in Top.on /\ pend' = pend \ {l}
        /\ UNCHANGED <<watch, count, due, lastHit, owed, cell>>
    BY <2>1 DEF Accept, Acceptable, tableVars
  <2>3. /\ Len(frames) \in Nat /\ Len(frames) >= 1
        /\ Len(frames') = Len(frames) + 1
        /\ \A i \in 1..Len(frames) : frames'[i] = frames[i]
        /\ frames'[Len(frames) + 1].lvl = l
        /\ frames'[Len(frames) + 1].pc = "entry"
    BY <2>1, Pushed, TopFacts DEF Accept, TypeInv
  <2>4. CASE l = 1
    <3>1. Len(frames) = 1
      <4>1. ~(Len(frames) > 1) BY <2>2, <2>4 DEF Shape
      <4>2. \A n \in Nat : n >= 1 /\ ~(n > 1) => n = 1 OBVIOUS
      <4> QED BY <2>3, <4>1, <4>2, Zenon
    <3>2. Serving' /\ frames'[2].pc = "entry" BY <2>3, <2>4, <3>1 DEF Serving
    <3>3. Waiting BY <2>2, <2>4 DEF Hits
    <3>4. Waiting' BY <2>2, <3>3, SameData
    <3> QED BY <3>2, <3>4 DEF Hits
  <2>5. CASE l = 2
    <3>1. frames'[1] = frames[1] BY <2>3
    <3>2. CASE Len(frames) = 1
      <4>1. ~Serving /\ ~Serving' BY <2>3, <2>5, <3>2 DEF Serving
      <4>2. 1 \in pend' <=> 1 \in pend BY <2>2, <2>5
      <4> QED BY <2>2, <3>1, <4>1, <4>2, SameHits
    <3>3. CASE Len(frames) # 1
      <4>1. Len(frames) > 1 /\ Len(frames') > 1 /\ frames'[2] = frames[2]
        <5>1. \A n \in Nat : n >= 1 /\ n # 1 => n > 1 /\ n + 1 > 1 /\ 2 \in 1..n
          OBVIOUS
        <5>2. Len(frames) > 1 /\ Len(frames) + 1 > 1 /\ 2 \in 1..Len(frames)
          BY <2>3, <3>3, <5>1, Zenon
        <5> QED BY <2>3, <5>2, Zenon
      <4>2. Serving' <=> Serving BY <4>1 DEF Serving
      <4>3. 1 \in pend' <=> 1 \in pend BY <2>2, <2>5
      <4> QED BY <2>2, <3>1, <4>1, <4>2, <4>3, SameHits
    <3> QED BY <3>2, <3>3
  <2> QED BY <2>4, <2>5
<1>2. CASE \E l \in {1, 2} : Return(l)
  <2>1. PICK l \in {1, 2} : Return(l) BY <1>2
  <2>2. Len(frames) > 1 /\ Len(frames) \in Nat /\ frames[Len(frames)].lvl = l
        /\ Top = frames[Len(frames)] /\ Top.pc = "lpsw"
    BY <2>1, TopFacts DEF Return, At, TypeInv
  <2>3. opsw[l] = Len(frames) - 1 BY <2>2 DEF Shape
  <2>4. frames' = SubSeq(frames, 1, Len(frames) - 1) BY <2>1, <2>3 DEF Return
  <2>5. /\ Len(frames') = Len(frames) - 1
        /\ \A i \in 1 .. Len(frames) - 1 : frames'[i] = frames[i]
    BY <2>2, <2>4, Popped DEF TypeInv
  <2>6. UNCHANGED <<pend, lastHit, owed, cell>>
    <3>1. Bus(<<>>, cell, 1) BY <2>1 DEF Return
    <3> QED BY <3>1, BusFetch DEF QuietInv
  <2>7. UNCHANGED <<watch, count, due>> BY <2>1 DEF Return, tableVars
  <2>8. frames'[1] = frames[1] BY <2>2, <2>5
  <2>9. CASE l = 1
    <3>1. Len(frames) = 2 /\ Serving /\ Top = frames[2] /\ 1 \notin pend
      BY <2>2, <2>9, TopOne
    <3>2. Clear BY <2>2, <3>1 DEF Hits
    <3>3. Clear' BY <2>6, <2>7, <3>2, SameData
    <3>4. ~Serving' BY <2>5, <3>1 DEF Serving
    <3> QED BY <2>6, <3>1, <3>3, <3>4 DEF Hits
  <2>10. CASE l = 2
    <3>1. CASE Len(frames) = 2
      <4>1. ~Serving /\ ~Serving' BY <2>2, <2>5, <2>10, <3>1 DEF Serving
      <4> QED BY <2>6, <2>7, <2>8, <4>1, SameHits
    <3>2. CASE Len(frames) # 2
      <4>1. Len(frames) > 1 /\ Len(frames') > 1 /\ frames'[2] = frames[2]
        BY <2>2, <2>5, <3>2
      <4>2. Serving' <=> Serving BY <4>1 DEF Serving
      <4> QED BY <2>6, <2>7, <2>8, <4>1, <4>2, SameHits
    <3> QED BY <3>1, <3>2
  <2> QED BY <2>9, <2>10
<1>3. CASE UserStep
  <2> QED BY <1>3, UserHits
<1>4. CASE HandlerFetch
  <2> QED BY <1>4 DEF HandlerFetch, QuietInv
<1>5. CASE Int1Cause
  <2>1. Top.lvl = 1 BY <1>5 DEF Int1Cause, At
  <2>2. Len(frames) = 2 /\ Serving /\ Top = frames[2] /\ 1 \notin pend
    BY <2>1, TopOne
  <2>3. PICK p \in {"hit", "step"} : Goto(p) BY <1>5 DEF Int1Cause
  <2>4. p \in Pcs BY <2>3 DEF Pcs, Pcs1
  <2>5. Moved(p, Top.slot) BY <2>3, <2>4, GotoMoves DEF TypeInv
  <2>6. p = "hit" /\ Top.pc = "entry"
    <3>1. cause % 2 = 0 BY DEF QuietInv
    <3>2. Goto("hit") BY <1>5, <3>1 DEF Int1Cause
    <3>3. Moved("hit", Top.slot) BY <3>2, GotoMoves DEF TypeInv, Pcs, Pcs1
    <3>4. p = "hit" BY <2>5, <3>3 DEF Moved
    <3> QED BY <1>5, <3>4 DEF Int1Cause, At
  <2>7. UNCHANGED <<hwVars, watch, count, due>> BY <1>5 DEF Int1Cause, tableVars
  <2>8. Serving' /\ frames'[2].pc = "hit" /\ 1 \notin pend'
    BY <2>1, <2>2, <2>5, <2>6, <2>7, OneMoves DEF hwVars
  <2>9. Waiting BY <2>2, <2>6 DEF Hits
  <2>10. Waiting' BY <2>7, <2>9, SameData DEF hwVars
  <2> QED BY <2>8, <2>10 DEF Hits
<1>6. CASE Int1ReadHit
  <2>1. Top.lvl = 1 BY <1>6 DEF Int1ReadHit, At
  <2>2. Len(frames) = 2 /\ Serving /\ Top = frames[2] /\ 1 \notin pend
    BY <2>1, TopOne
  <2>3. Top.pc = "hit" BY <1>6 DEF Int1ReadHit, At
  <2>4. Waiting BY <2>2, <2>3 DEF Hits
  <2>5. Hot \in Slots /\ lastHit = Hot /\ ena[Hot]
    <3>1. Hot \in Slots /\ lastHit = Hot BY <2>4 DEF Waiting
    <3>2. watch[Hot].kinds # {} BY <3>1, SlotForFacts, HotIsSlot DEF Hot
    <3> QED BY <3>1, <3>2 DEF AsSet
  <2>6. Hot # NoHit BY <2>5, HotIsSlot
  <2> DEFINE p == IF watch[Hot].want = Any THEN "count" ELSE "compare"
  <2>8. frames' = [frames EXCEPT ![Len(frames)].pc = p,
                                 ![Len(frames)].slot = Hot]
    BY <1>6, <2>5, <2>6 DEF Int1ReadHit
  <2>9. p \in Pcs BY DEF Pcs, Pcs1
  <2>10. Moved(p, Hot)
    <3> HIDE DEF p
    <3> QED BY <2>5, <2>8, <2>9, SlotMoves DEF TypeInv
  <2>11. UNCHANGED <<pend, cell, watch, count, due>> /\ owed' = owed \ {lastHit}
    BY <1>6 DEF Int1ReadHit, tableVars
  <2>12. Serving' /\ frames'[2].pc = p /\ frames'[2].slot = Hot /\ 1 \notin pend'
    BY <2>1, <2>2, <2>10, <2>11, OneMoves
  <2>13. Chosen'
    <3>1. owed' = {} BY <2>4, <2>11 DEF Waiting
    <3>2. Hot' = Hot /\ Open(Hot)' /\ OthersSettled'
      BY <2>4, <2>11, SameCounts DEF Waiting
    <3> QED BY <2>5, <3>1, <3>2 DEF Chosen
  <2>14. Hot' = Hot /\ watch' = watch BY <2>11, SameCounts
  <2>15. p = "count" => Meets(Hot)' BY <2>14, <2>11 DEF Meets
  <2>16. p = "compare" => watch'[Hot'].want # Any BY <2>14
  <2>17. p = "count" \/ p = "compare" OBVIOUS
  <2> HIDE DEF p
  <2> QED BY <2>12, <2>13, <2>14, <2>15, <2>16, <2>17 DEF Hits
<1>7. CASE Int1Compare
  <2>1. Top.lvl = 1 BY <1>7 DEF Int1Compare, At
  <2>2. Len(frames) = 2 /\ Serving /\ Top = frames[2] /\ 1 \notin pend
    BY <2>1, TopOne
  <2>3. PICK p \in {"count", "epilogue"} : Goto(p) BY <1>7 DEF Int1Compare
  <2>4. p \in Pcs BY <2>3 DEF Pcs, Pcs1
  <2>5. Moved(p, Top.slot) BY <2>3, <2>4, GotoMoves DEF TypeInv
  <2>6. UNCHANGED hwVars
    <3>1. Bus(<<"RD">>, cell, 0) BY <1>7 DEF Int1Compare
    <3> QED BY <3>1, BusRead
  <2>7. UNCHANGED <<watch, count, due, pend, cell, owed, lastHit>>
    BY <1>7, <2>6 DEF Int1Compare, tableVars, hwVars
  <2>8. Serving' /\ frames'[2].pc = p /\ frames'[2].slot = Top.slot /\ 1 \notin pend'
    BY <2>1, <2>2, <2>5, <2>7, OneMoves
  <2>9. Top.pc = "compare" BY <1>7 DEF Int1Compare, At
  <2>10. Chosen /\ Top.slot = Hot /\ watch[Hot].want # Any
    BY <2>2, <2>9 DEF Hits
  <2>11. ena[Hot]
    <3>1. Hot \in Slots BY <2>10 DEF Chosen
    <3>2. watch[Hot].kinds # {} BY <3>1, SlotForFacts, HotIsSlot DEF Hot
    <3> QED BY <3>1, <3>2 DEF AsSet
  <2>12. Goto(IF cell = watch[Hot].want THEN "count" ELSE "epilogue")
    BY <1>7, <2>10, <2>11 DEF Int1Compare
  <2>13. CASE cell = watch[Hot].want
    <3>1. Moved("count", Top.slot) BY <2>12, <2>13, GotoMoves DEF TypeInv, Pcs, Pcs1
    <3>2. p = "count" BY <2>5, <3>1 DEF Moved
    <3>3. Meets(Hot)' BY <2>7, <2>13, SameCounts DEF Meets
    <3>4. Chosen' /\ Hot' = Hot BY <2>7, <2>10, SameData, SameCounts
    <3> QED BY <2>8, <2>10, <3>2, <3>3, <3>4 DEF Hits
  <2>14. CASE cell # watch[Hot].want
    <3>1. Moved("epilogue", Top.slot)
      BY <2>12, <2>14, GotoMoves DEF TypeInv, Pcs, Pcs1
    <3>2. p = "epilogue" BY <2>5, <3>1 DEF Moved
    <3>3. Clear
      <4>1. ~Meets(Hot) BY <2>10, <2>14 DEF Meets
      <4>2. Settled(Hot) BY <2>10, <4>1 DEF Chosen, Open
      <4> QED BY <2>10, <4>2 DEF Chosen, Clear, OthersSettled
    <3>4. Clear' BY <2>7, <3>3, SameData
    <3> QED BY <2>8, <3>2, <3>4 DEF Hits
  <2> QED BY <2>13, <2>14
<1>8. CASE Int1Count
  <2>1. Top.lvl = 1 BY <1>8 DEF Int1Count, At
  <2>2. Len(frames) = 2 /\ Serving /\ Top = frames[2] /\ 1 \notin pend
    BY <2>1, TopOne
  <2>3. PICK p \in {"notify", "epilogue"} : Goto(p) BY <1>8 DEF Int1Count
  <2>4. p \in Pcs BY <2>3 DEF Pcs, Pcs1
  <2>5. Moved(p, Top.slot) BY <2>3, <2>4, GotoMoves DEF TypeInv
  <2>6. UNCHANGED <<watch, due, pend, cell, owed, lastHit>>
    BY <1>8 DEF Int1Count, hwVars
  <2>7. Serving' /\ frames'[2].pc = p /\ frames'[2].slot = Top.slot /\ 1 \notin pend'
    BY <2>1, <2>2, <2>5, <2>6, OneMoves
  <2>8. Top.pc = "count" BY <1>8 DEF Int1Count, At
  <2>9. Chosen /\ Top.slot = Hot /\ Meets(Hot) BY <2>2, <2>8 DEF Hits
  <2>10. Hot \in Slots /\ watch[Hot].kinds # {}
    <3>1. Hot \in Slots BY <2>9 DEF Chosen
    <3> QED BY <3>1, SlotForFacts, HotIsSlot DEF Hot
  <2>11. /\ count[Hot] + due[Hot] = watch[Hot].count + 1
         /\ due[Hot] >= 1 /\ due[Hot] <= Limit(Hot)
    BY <2>9 DEF Chosen, Open
  <2>12. count[Hot] \in Nat /\ due[Hot] \in Nat /\ watch[Hot].count \in Nat
    BY <2>10, BreakAssumption DEF TypeInv, TableType, MonitorType
  <2>13. count' = [count EXCEPT ![Hot] = IF count[Hot] = 0 THEN 0 ELSE count[Hot] - 1]
    BY <1>8, <2>9 DEF Int1Count
  <2>14. Limit(Hot) = IF watch[Hot].count = 0 THEN 1 ELSE watch[Hot].count
    BY DEF Limit
  <2>15. CASE count[Hot] <= 1
    <3>1. Goto("notify") BY <1>8, <2>9, <2>15 DEF Int1Count
    <3>2. Moved("notify", Top.slot) BY <3>1, GotoMoves DEF TypeInv, Pcs, Pcs1
    <3>3. p = "notify" BY <2>5, <3>2 DEF Moved
    <3>4. due[Hot] = Limit(Hot) BY <2>11, <2>12, <2>14, <2>15
    <3>5. (due[frames[2].slot] = Limit(frames[2].slot))'
      BY <2>6, <2>7, <2>9, <3>4 DEF Limit
    <3> QED BY <2>7, <3>3, <3>5 DEF Hits
  <2>16. CASE ~(count[Hot] <= 1)
    <3>1. Goto("epilogue") BY <1>8, <2>9, <2>16 DEF Int1Count
    <3>2. Moved("epilogue", Top.slot) BY <3>1, GotoMoves DEF TypeInv, Pcs, Pcs1
    <3>3. p = "epilogue" BY <2>5, <3>2 DEF Moved
    <3>4. count'[Hot] + due[Hot] = watch[Hot].count /\ due[Hot] < Limit(Hot)
      <4>1. count'[Hot] = count[Hot] - 1
        BY <2>10, <2>12, <2>13, <2>16 DEF TypeInv, TableType
      <4>2. watch[Hot].count # 0 BY <2>11, <2>12, <2>16
      <4> QED BY <2>11, <2>12, <2>14, <2>16, <4>1, <4>2
    <3>5. Settled(Hot)'
      <4>1. Hot' = Hot BY <2>6 DEF Hot, SlotFor
      <4>2. Limit(Hot)' = Limit(Hot) BY <2>6, <4>1 DEF Limit
      <4> QED BY <2>6, <3>4, <4>1, <4>2 DEF Settled
    <3>6. \A s \in Slots : s # Hot => Settled(s)'
      <4> SUFFICES ASSUME NEW s \in Slots, s # Hot PROVE Settled(s)' OBVIOUS
      <4>1. count'[s] = count[s] BY <2>13 DEF TypeInv, TableType
      <4>2. Settled(s) BY <2>9 DEF Chosen, OthersSettled
      <4> QED BY <2>6, <4>1, <4>2 DEF Settled, Limit
    <3>7. Hot' = Hot BY <2>6 DEF Hot, SlotFor
    <3>8. owed' = {} BY <2>6, <2>9 DEF Chosen
    <3>9. Clear' BY <3>5, <3>6, <3>7, <3>8 DEF Clear
    <3> QED BY <2>7, <3>3, <3>9 DEF Hits
  <2> QED BY <2>15, <2>16
<1>9. CASE Int1NotifyBreak
  <2>1. Top.lvl = 1 BY <1>9 DEF Int1NotifyBreak, At
  <2>2. Len(frames) = 2 /\ Serving /\ Top = frames[2] /\ 1 \notin pend
    BY <2>1, TopOne
  <2>3. PICK p \in {"halt"} : Goto(p) BY <1>9 DEF Int1NotifyBreak
  <2>4. p \in Pcs BY <2>3 DEF Pcs, Pcs1
  <2>5. Moved(p, Top.slot) BY <2>3, <2>4, GotoMoves DEF TypeInv
  <2>6. pend' = pend BY <1>9 DEF Int1NotifyBreak, hwVars
  <2>7. Serving' /\ frames'[2].pc = "halt" /\ 1 \notin pend'
    BY <2>1, <2>2, <2>3, <2>5, <2>6, OneMoves
  <2> QED BY <2>7 DEF Hits
<1>10. CASE Int1NotifyStep
  <2>1. Top.lvl = 1 BY <1>10 DEF Int1NotifyStep, At
  <2>2. Len(frames) = 2 /\ Serving /\ Top = frames[2] /\ 1 \notin pend
    BY <2>1, TopOne
  <2>3. PICK p \in {"halt"} : Goto(p) BY <1>10 DEF Int1NotifyStep
  <2>4. p \in Pcs BY <2>3 DEF Pcs, Pcs1
  <2>5. Moved(p, Top.slot) BY <2>3, <2>4, GotoMoves DEF TypeInv
  <2>6. pend' = pend BY <1>10 DEF Int1NotifyStep, hwVars
  <2>7. Serving' /\ frames'[2].pc = "halt" /\ 1 \notin pend'
    BY <2>1, <2>2, <2>3, <2>5, <2>6, OneMoves
  <2> QED BY <2>7 DEF Hits
<1>11. CASE Int1Stop
  <2>1. Top.lvl = 1 BY <1>11 DEF Int1Stop, At
  <2>2. 1 \notin pend BY <2>1, TopOne
  <2>3. Top.on \in SUBSET {1, 2} /\ "main" \in BasePcs
    BY TopFacts DEF TypeInv, FrameType, BasePcs
  <2>4. frames' = <<Frame("main", 0, Top.on)>> /\ pend' = pend
    BY <1>11 DEF Int1Stop, hwVars
  <2>5. Len(frames') = 1 /\ frames'[1].pc = "main" BY <2>3, <2>4, Replaced
  <2>6. ~Serving' /\ 1 \notin pend' BY <2>2, <2>4, <2>5 DEF Serving
  <2> QED BY <2>5, <2>6 DEF Hits
<1>12. CASE Int1Epilogue
  <2>1. Top.lvl = 1 BY <1>12 DEF Int1Epilogue, At
  <2>2. Len(frames) = 2 /\ Serving /\ Top = frames[2] /\ 1 \notin pend
    BY <2>1, TopOne
  <2>3. PICK p \in {"ret", "lpsw"} : Goto(p) BY <1>12 DEF Int1Epilogue
  <2>4. p \in Pcs BY <2>3 DEF Pcs, Pcs1
  <2>5. Moved(p, Top.slot) BY <2>3, <2>4, GotoMoves DEF TypeInv
  <2>6. UNCHANGED <<watch, count, due, pend, cell, owed, lastHit>>
    BY <1>12 DEF Int1Epilogue, tableVars
  <2>7. Serving' /\ frames'[2].pc = p /\ 1 \notin pend'
    BY <2>1, <2>2, <2>5, <2>6, OneMoves
  <2>8. Top.pc = "epilogue" BY <1>12 DEF Int1Epilogue, At
  <2>9. Clear BY <2>2, <2>8 DEF Hits
  <2>10. Clear' BY <2>6, <2>9, SameData
  <2> QED BY <2>3, <2>7, <2>10 DEF Hits
<1>13. CASE Int1Restore
  <2>1. Top.lvl = 1 BY <1>13 DEF Int1Restore, At
  <2>2. Len(frames) = 2 /\ Serving /\ Top = frames[2] /\ 1 \notin pend
    BY <2>1, TopOne
  <2>3. PICK p \in {"popm", "lpsw"} : Goto(p) BY <1>13 DEF Int1Restore
  <2>4. p \in Pcs BY <2>3 DEF Pcs, Pcs1
  <2>5. Moved(p, Top.slot) BY <2>3, <2>4, GotoMoves DEF TypeInv
  <2>6. UNCHANGED <<pend, cell, owed, lastHit>>
    <3>1. Bus(<<>>, cell, 1) BY <1>13 DEF Int1Restore
    <3> QED BY <3>1, BusFetch DEF QuietInv
  <2>11. UNCHANGED <<watch, count, due>> BY <1>13 DEF Int1Restore, tableVars
  <2>7. Serving' /\ frames'[2].pc = p /\ 1 \notin pend'
    BY <2>1, <2>2, <2>5, <2>6, OneMoves
  <2>8. Top.pc \in {"ret", "popm"} BY <1>13 DEF Int1Restore, At
  <2>9. Clear BY <2>2, <2>8 DEF Hits
  <2>10. Clear' BY <2>6, <2>9, <2>11, SameData
  <2> QED BY <2>3, <2>7, <2>10 DEF Hits
<1>14. CASE Int2SetBusy
  <2>1. Top.lvl = 2 BY <1>14 DEF Int2SetBusy, At
  <2>2. PICK p \in {"read"} : Goto(p) BY <1>14 DEF Int2SetBusy
  <2>3. p \in Pcs BY <2>2 DEF Pcs, Pcs2
  <2>4. Moved(p, Top.slot) BY <2>2, <2>3, GotoMoves DEF TypeInv
  <2>5. /\ frames'[1] = frames[1] /\ (Serving' <=> Serving)
        /\ Serving => frames'[2] = frames[2]
    BY <2>1, <2>4, TopTwo, Zenon
  <2>6. UNCHANGED <<hwVars, watch, count, due>>
    BY <1>14 DEF Int2SetBusy, tableVars
  <2> QED BY <2>5, <2>6, SameHits DEF hwVars
<1>15. CASE Int2Cause
  <2>1. Top.lvl = 2 BY <1>15 DEF Int2Cause, At
  <2>2. PICK p \in {"serve", "timer"} : Goto(p) BY <1>15 DEF Int2Cause
  <2>3. p \in Pcs BY <2>2 DEF Pcs, Pcs2
  <2>4. Moved(p, Top.slot) BY <2>2, <2>3, GotoMoves DEF TypeInv
  <2>5. /\ frames'[1] = frames[1] /\ (Serving' <=> Serving)
        /\ Serving => frames'[2] = frames[2]
    BY <2>1, <2>4, TopTwo, Zenon
  <2>6. UNCHANGED <<hwVars, watch, count, due>>
    BY <1>15 DEF Int2Cause, tableVars
  <2> QED BY <2>5, <2>6, SameHits DEF hwVars
<1>16. CASE Int2Nothing
  <2>1. Top.lvl = 2 BY <1>16 DEF Int2Nothing, At
  <2>2. PICK p \in {"leave"} : Goto(p) BY <1>16 DEF Int2Nothing
  <2>3. p \in Pcs BY <2>2 DEF Pcs, Pcs2
  <2>4. Moved(p, Top.slot) BY <2>2, <2>3, GotoMoves DEF TypeInv
  <2>5. /\ frames'[1] = frames[1] /\ (Serving' <=> Serving)
        /\ Serving => frames'[2] = frames[2]
    BY <2>1, <2>4, TopTwo, Zenon
  <2>6. UNCHANGED <<hwVars, watch, count, due>>
    BY <1>16 DEF Int2Nothing, tableVars
  <2> QED BY <2>5, <2>6, SameHits DEF hwVars
<1>17. CASE Int2Read
  <2>1. Top.lvl = 2 BY <1>17 DEF Int2Read, At
  <2>2. PICK p \in {"leave"} : Goto(p) BY <1>17 DEF Int2Read
  <2>3. p \in Pcs BY <2>2 DEF Pcs, Pcs2
  <2>4. Moved(p, Top.slot) BY <2>2, <2>3, GotoMoves DEF TypeInv
  <2>5. /\ frames'[1] = frames[1] /\ (Serving' <=> Serving)
        /\ Serving => frames'[2] = frames[2]
    BY <2>1, <2>4, TopTwo, Zenon
  <2>6. UNCHANGED <<hwVars, watch, count, due>>
    <3>1. Bus(<<"RD">>, cell, 0) BY <1>17 DEF Int2Read
    <3>2. UNCHANGED hwVars BY <3>1, BusRead
    <3> QED BY <1>17, <3>2 DEF Int2Read, tableVars
  <2> QED BY <2>5, <2>6, SameHits DEF hwVars
<1>18. CASE Int2Clear
  <2>1. Top.lvl = 2 BY <1>18 DEF Int2Clear, At
  <2>2. Goto("leave") BY <1>18 DEF Int2Clear
  <2>3. "leave" \in Pcs BY DEF Pcs, Pcs2
  <2>4. Moved("leave", Top.slot) BY <2>2, <2>3, GotoMoves DEF TypeInv
  <2>5. /\ frames'[1] = frames[1] /\ (Serving' <=> Serving)
        /\ Serving => frames'[2] = frames[2]
    BY <2>1, <2>4, TopTwo, Zenon
  <2>6. UNCHANGED <<hwVars, watch, due>> BY <1>18 DEF Int2Clear
  <2>7. PICK t \in Slots : /\ ena' = [ena EXCEPT ![t] = FALSE]
                          /\ count' = [count EXCEPT ![t] = 0]
    BY <1>18 DEF Int2Clear
  <2>8. watch[t].kinds = {}
    <3>1. ena'[t] = FALSE BY <2>7 DEF TypeInv, TableType
    <3> QED BY <2>6, <3>1 DEF AsSet
  <2>9. \A s \in Slots : watch[s].kinds # {} => count'[s] = count[s]
    BY <2>7, <2>8 DEF TypeInv, TableType
  <2> QED BY <2>5, <2>6, <2>9, SameHits DEF hwVars
<1>19. CASE Int2Resume
  <2>1. Top.lvl = 2 BY <1>19 DEF Int2Resume, At
  <2>2. PICK p \in {"leave"} : Goto(p) BY <1>19 DEF Int2Resume
  <2>3. p \in Pcs BY <2>2 DEF Pcs, Pcs2
  <2>4. Moved(p, Top.slot) BY <2>2, <2>3, GotoMoves DEF TypeInv
  <2>5. /\ frames'[1] = frames[1] /\ (Serving' <=> Serving)
        /\ Serving => frames'[2] = frames[2]
    BY <2>1, <2>4, TopTwo, Zenon
  <2>6. UNCHANGED <<hwVars, watch, count, due>>
    BY <1>19 DEF Int2Resume, tableVars
  <2> QED BY <2>5, <2>6, SameHits DEF hwVars
<1>20. CASE Int2Leave
  <2>1. Top.lvl = 2 BY <1>20 DEF Int2Leave, At
  <2>2. PICK p \in {"lpsw"} : Goto(p) BY <1>20 DEF Int2Leave
  <2>3. p \in Pcs BY <2>2 DEF Pcs, Pcs2
  <2>4. Moved(p, Top.slot) BY <2>2, <2>3, GotoMoves DEF TypeInv
  <2>5. /\ frames'[1] = frames[1] /\ (Serving' <=> Serving)
        /\ Serving => frames'[2] = frames[2]
    BY <2>1, <2>4, TopTwo, Zenon
  <2>6. UNCHANGED <<hwVars, watch, count, due>>
    BY <1>20 DEF Int2Leave, tableVars
  <2> QED BY <2>5, <2>6, SameHits DEF hwVars
<1>21. CASE \E k \in Requests : IoRequest(k)
  <2>1. /\ UNCHANGED <<frames, watch, count, due, lastHit, owed, cell>>
        /\ pend' = pend \cup {2}
    BY <1>21 DEF IoRequest, tableVars
  <2>2. 1 \in pend' <=> 1 \in pend BY <2>1
  <2>3. /\ frames'[1] = frames[1] /\ (Serving' <=> Serving)
        /\ Serving => frames'[2] = frames[2]
    BY <2>1 DEF Serving
  <2> QED BY <2>1, <2>2, <2>3, SameHits
<1>22. CASE TimerIrq
  <2>1. /\ UNCHANGED <<frames, watch, count, due, lastHit, owed, cell>>
        /\ pend' = pend \cup {2}
    BY <1>22 DEF TimerIrq, tableVars
  <2>2. 1 \in pend' <=> 1 \in pend BY <2>1
  <2>3. /\ frames'[1] = frames[1] /\ (Serving' <=> Serving)
        /\ Serving => frames'[2] = frames[2]
    BY <2>1 DEF Serving
  <2> QED BY <2>1, <2>2, <2>3, SameHits
<1>23. CASE IoTimeout \/ UNCHANGED vars
  <2>1. UNCHANGED <<frames, watch, count, due, hwVars>>
    BY <1>23 DEF IoTimeout, tableVars, vars, hwVars
  <2>3. /\ frames'[1] = frames[1] /\ (Serving' <=> Serving)
        /\ Serving => frames'[2] = frames[2]
    BY <2>1 DEF Serving
  <2> QED BY <2>1, <2>3, SameHits DEF hwVars
<1>24. CASE Exec
  <2> QED BY <1>24 DEF Exec, QuietInv, OneRun
<1> QED BY <1>1, <1>2, <1>3, <1>4, <1>5, <1>6, <1>7, <1>8, <1>9, <1>10, <1>11, <1>12, <1>13, <1>14, <1>15, <1>16, <1>17, <1>18, <1>19, <1>20, <1>21, <1>22, <1>23, <1>24
     DEF Next, CpuNext

\* A slot that is as it was set was so before.
LEMMA AsSetBefore ==
  ASSUME TypeInv, QuietInv, OneRun, [Next]_vars, AsSet'
  PROVE  AsSet
<1>1. watch' = watch BY WatchKept
<1>2. CASE Int2Clear
  <2>1. PICK t \in Slots : ena' = [ena EXCEPT ![t] = FALSE] BY <1>2 DEF Int2Clear
  <2>2. ena'[t] = FALSE BY <2>1 DEF TypeInv, TableType
  <2>3. watch[t].kinds = {} BY <1>1, <2>2 DEF AsSet
  <2>4. ena[t] = FALSE BY <2>3 DEF TypeInv, TableType
  <2>5. \A s \in Slots : ena[s] = ena'[s]
    BY <2>1, <2>2, <2>4 DEF TypeInv, TableType
  <2> QED BY <1>1, <2>5 DEF AsSet, QuietInv
<1>3. CASE ~Int2Clear
  <2>1. ena' = ena
    BY <1>3 DEF Next, CpuNext, vars, tableVars, Accept, Return, UserStep,
       HandlerFetch, Int1Cause, Int1ReadHit, Int1Compare, Int1Count,
       Int1NotifyBreak, Int1NotifyStep, Int1Stop, Int1Epilogue, Int1Restore,
       Int2SetBusy, Int2Cause, Int2Nothing, Int2Read, Int2Resume, Int2Leave,
       IoRequest, IoTimeout, TimerIrq, Exec
  <2> QED BY <1>1, <2>1 DEF AsSet, QuietInv
<1> QED BY <1>2, <1>3

HitInv == ShapeInv /\ (WritesOnly /\ AsSet => Hits)

LEMMA HitInductive ==
  ASSUME OneRun
  PROVE  (Init => HitInv) /\ (HitInv /\ [Next]_vars => HitInv')
<1>1. ASSUME Init PROVE HitInv
  <2>1. ShapeInv BY <1>1, ShapeInductive
  <2>2. Len(frames) = 1 /\ frames[1].pc = "user" BY <1>1 DEF Init, Frame
  <2>3. Clear
    <3> SUFFICES ASSUME NEW s \in Slots PROVE Settled(s)
      BY <1>1 DEF Clear, Init
    <3>1. watch[s].count \in Nat BY <1>1, BreakAssumption DEF Init
    <3>2. count[s] = watch[s].count /\ due[s] = 0 BY <1>1 DEF Init
    <3> QED BY <3>1, <3>2 DEF Settled, Limit
  <2>4. ~Serving BY <2>2 DEF Serving
  <2>5. 1 \notin pend BY <1>1 DEF Init
  <2>6. Hits BY <2>3, <2>4, <2>5 DEF Hits
  <2> QED BY <2>1, <2>6 DEF HitInv
<1>2. ASSUME HitInv, [Next]_vars PROVE HitInv'
  <2>1. ShapeInv /\ ShapeInv' BY <1>2, ShapeInductive DEF HitInv
  <2>2. ASSUME WritesOnly', AsSet' PROVE Hits'
    <3>1. WritesOnly BY <1>2, <2>2, WatchKept DEF WritesOnly
    <3>2. AsSet BY <1>2, <2>1, <2>2, AsSetBefore DEF ShapeInv
    <3>3. Hits BY <1>2, <3>1, <3>2 DEF HitInv
    <3>4. Shape BY <2>1, <3>1 DEF ShapeInv
    <3> QED BY <1>2, <2>1, <2>2, <3>1, <3>2, <3>3, <3>4, HitsStep DEF ShapeInv
  <2> QED BY <2>1, <2>2 DEF HitInv
<1> QED BY <1>1, <1>2

\* The break handler stops the program at the access that uses up the count of
\* a slot, whichever slots, conditions and counts were set and however the
\* interrupts of the IO board fall between the access and the handler
\* (breakpoint.asm, addr_comparator.ts): the accesses counted as they happen and
\* the hits the handler counts agree whenever the program goes on.
THEOREM StopExact ==
  ASSUME OneRun
  PROVE  Spec => []StopsExactly
<1>1. HitInv => StopsExactly
  <2> SUFFICES ASSUME HitInv, WritesOnly, AsSet
               PROVE  /\ Top.pc = "user" /\ 1 \notin pend => owed = {}
                      /\ Top.pc = "notify" => due[Top.slot] = Limit(Top.slot)
                      /\ Top.pc = "user" /\ 1 \notin pend =>
                           \A s \in Slots : due[s] < Limit(s)
    BY DEF StopsExactly
  <2>1. TypeInv /\ Shape /\ Hits BY DEF HitInv, ShapeInv
  <2>2. ASSUME Top.pc = "user", 1 \notin pend PROVE Clear
    <3>1. Len(frames) = 1 /\ Top = frames[1]
      BY <2>1, <2>2, TopFacts DEF TypeInv, BasePcs
    <3>2. ~Serving BY <3>1 DEF Serving
    <3> QED BY <2>1, <2>2, <3>1, <3>2 DEF Hits
  <2>3. ASSUME Top.pc = "notify" PROVE due[Top.slot] = Limit(Top.slot)
    <3>1. Top.lvl = 1
      <4>1. /\ Len(frames) \in Nat /\ Len(frames) >= 1
            /\ Top = frames[Len(frames)]
        BY <2>1, TopFacts DEF TypeInv
      <4>2. Len(frames) # 1 BY <2>1, <2>3, <4>1 DEF TypeInv, StackType, BasePcs
      <4>3. Top.lvl \in {1, 2} /\ Top.pc \in PcsOf(Top.lvl)
        <5>1. \A n \in Nat : n >= 1 /\ n # 1 => n \in 2..n OBVIOUS
        <5>2. Len(frames) \in 2..Len(frames) BY <4>1, <4>2, <5>1, Zenon
        <5> QED BY <2>1, <4>1, <5>2, Zenon DEF TypeInv, StackType
      <4>4. "notify" \notin PcsOf(2) BY DEF PcsOf, Pcs2
      <4> QED BY <2>3, <4>3, <4>4
    <3>2. Serving /\ Top = frames[2] BY <2>1, <3>1, TopOne
    <3> QED BY <2>1, <2>3, <3>2 DEF Hits
  <2>4. Clear => owed = {} /\ \A s \in Slots : due[s] < Limit(s)
    BY DEF Clear, Settled
  <2> QED BY <2>2, <2>3, <2>4
<1> QED BY <1>1, HitInductive, PTL DEF Spec

-----------------------------------------------------------------------------
(* The handler of INT2, whatever is watched and asked.  Without a timer     *)
(* IRQ2 comes from the requests of the IO board, one at a time.             *)

NoTimer == MaxTimer = 0

\* An INT2 handler at frame i: until it sets INTERRUPT_BUSY the request that
\* woke it is still there, and it clears the flag just before its LPSW, with
\* INT1 enabled and therefore not pending.
Proper(i) ==
  /\ frames[i].on = {1}
  /\ frames[i].pc = "entry" => req # "none"
  /\ frames[i].pc \notin {"entry", "lpsw"} => busy = 1
  /\ frames[i].pc = "lpsw" => i = Len(frames) /\ 1 \notin pend
  /\ 2 \in pend => frames[i].pc = "lpsw"

OnceInv ==
  /\ Int2NotNested
  /\ ticks = 0
  /\ 2 \in pend => req \in Requests
  /\ \A i \in DOMAIN frames : frames[i].lvl = 2 => Proper(i)

\* The comparators and the one-shot raise IRQ1 only.
LEMMA BusIrq ==
  ASSUME NEW a, NEW v, NEW f, Bus(a, v, f)
  PROVE  2 \in pend' <=> 2 \in pend
BY DEF Bus

\* While something else runs, an INT2 handler below is not at its LPSW, and
\* what happens does not concern it.
LEMMA OnceElse ==
  ASSUME TypeInv, OnceInv, StackType', Top.lvl # 2 \/ Top.pc # "lpsw",
         UNCHANGED <<req, busy, ticks>>, 2 \in pend' <=> 2 \in pend,
         \A i \in DOMAIN frames' : frames'[i].lvl = 2 =>
           i \in DOMAIN frames /\ frames'[i] = frames[i]
  PROVE  OnceInv'
<1>1. \A i \in DOMAIN frames : frames[i].lvl = 2 => frames[i].pc # "lpsw"
  <2>1. /\ DOMAIN frames = 1..Len(frames) /\ Len(frames) \in Nat
        /\ Top = frames[Len(frames)]
    BY TopFacts DEF TypeInv
  <2> QED BY <2>1 DEF OnceInv, Proper
<1>2. Int2NotNested' BY DEF OnceInv, Int2NotNested
<1>3. (2 \in pend => req \in Requests)' /\ ticks' = 0 BY DEF OnceInv
<1>4. ASSUME NEW i \in DOMAIN frames', frames'[i].lvl = 2 PROVE Proper(i)'
  <2>1. i \in DOMAIN frames /\ frames'[i] = frames[i] /\ frames[i].lvl = 2
    BY <1>4
  <2>2. Proper(i) /\ frames[i].pc # "lpsw" BY <1>1, <2>1 DEF OnceInv
  <2> QED BY <2>1, <2>2 DEF Proper
<1> QED BY <1>2, <1>3, <1>4 DEF OnceInv

\* No INT2 handler is there, or none any more.
LEMMA OnceNone ==
  ASSUME \A i \in DOMAIN frames' : frames'[i].lvl # 2,
         2 \in pend' => req' \in Requests, ticks' = 0
  PROVE  OnceInv'
BY DEF OnceInv, Int2NotNested

\* A handler of INT1 goes on.
LEMMA OnceInt1 ==
  ASSUME TypeInv, OnceInv, Top.lvl = 1, NEW pc \in Pcs1, NEW slot,
         Moved(pc, slot), UNCHANGED <<req, busy, ticks>>,
         2 \in pend' <=> 2 \in pend
  PROVE  OnceInv'
<1>1. pc \in PcsOf(Top.lvl) BY DEF PcsOf
<1>2. StackType' BY <1>1, MovedStack DEF TypeInv
<1>3. /\ DOMAIN frames = 1..Len(frames) /\ Len(frames) \in Nat
      /\ DOMAIN frames' = 1..Len(frames)
  BY <1>2, TopFacts DEF TypeInv, Moved
<1>4. \A i \in DOMAIN frames' : frames'[i].lvl = 2 =>
        i \in DOMAIN frames /\ frames'[i] = frames[i]
  BY <1>3 DEF Moved
<1> QED BY <1>2, <1>4, OnceElse

\* The handler of INT2 goes on: it was the only one and IRQ2 not pending.
LEMMA OnceInt2 ==
  ASSUME TypeInv, OnceInv, Top.lvl = 2, Top.pc # "lpsw", NEW pc \in Pcs2,
         Moved(pc, Top.slot), ticks' = ticks, 2 \in pend' <=> 2 \in pend,
         pc # "entry", pc # "lpsw" => busy' = 1, pc = "lpsw" => 1 \notin pend'
  PROVE  OnceInv'
<1>0. PICK n \in Nat : n = Len(frames) BY TopFacts DEF TypeInv
<1>1. pc \in PcsOf(Top.lvl) BY DEF PcsOf
<1>2. StackType' BY <1>1, MovedStack DEF TypeInv
<1>3. /\ DOMAIN frames = 1..n /\ n \in Nat /\ n \in DOMAIN frames
      /\ DOMAIN frames' = 1..n /\ Len(frames') = n /\ Top = frames[n]
  BY <1>0, <1>2, TopFacts DEF TypeInv, Moved
<1>4. Proper(n) BY <1>3 DEF OnceInv
<1>5. 2 \notin pend BY <1>3, <1>4 DEF Proper
<1>6. \A i \in DOMAIN frames : frames[i].lvl = 2 => i = n
  BY <1>3 DEF OnceInv, Int2NotNested
<1>7. /\ frames'[n].pc = pc /\ frames'[n].on = frames[n].on
      /\ \A i \in 1 .. n - 1 : frames'[i] = frames[i]
  BY <1>0, <1>3 DEF Moved
<1>8. \A i \in DOMAIN frames' : frames'[i].lvl = 2 => i = n
  BY <1>3, <1>6, <1>7
<1>9. Proper(n)' BY <1>0, <1>3, <1>4, <1>5, <1>7 DEF Proper
<1>10. Int2NotNested' BY <1>8 DEF Int2NotNested
<1>11. \A i \in DOMAIN frames' : frames'[i].lvl = 2 => Proper(i)'
  BY <1>8, <1>9
<1>12. ticks' = 0 /\ ~(2 \in pend') BY <1>5 DEF OnceInv
<1> QED BY <1>10, <1>11, <1>12 DEF OnceInv

\* Every action keeps the invariant; that the stack is well-formed after it
\* is the type invariant's business.
LEMMA OnceStep ==
  ASSUME NoTimer, TypeInv, OnceInv, [Next]_vars
  PROVE  OnceInv'
<1>1. StackType /\ StackType' BY TypeStep DEF TypeInv
<1>2. /\ DOMAIN frames = 1..Len(frames) /\ Len(frames) \in Nat
      /\ Len(frames) >= 1 /\ Top = frames[Len(frames)]
      /\ DOMAIN frames' = 1..Len(frames') /\ Len(frames') \in Nat
      /\ Top.pc \in BasePcs => Len(frames) = 1 /\ Top.lvl = 0
      /\ Top.lvl # 0 => Len(frames) > 1
  BY <1>1, TopFacts DEF StackType
<1>3. \A i \in DOMAIN frames : frames[i].lvl = 2 => Proper(i) BY DEF OnceInv
<1>4. CASE \E l \in {1, 2} : Accept(l)
  <2>1. PICK l \in {1, 2} : Accept(l) BY <1>4
  <2>2. /\ l \in pend /\ l \in Top.on /\ pend' = pend \ {l}
        /\ UNCHANGED <<req, busy, ticks>>
    BY <2>1 DEF Accept, Acceptable, boundVars
  <2>3. /\ Len(frames') = Len(frames) + 1
        /\ \A i \in 1..Len(frames) : frames'[i] = frames[i]
        /\ frames'[Len(frames) + 1].lvl = l
        /\ frames'[Len(frames) + 1].pc = "entry"
        /\ frames'[Len(frames) + 1].on = {3 - l}
    BY <1>1, <2>1, Pushed DEF Accept
  <2>4. CASE l = 1
    <3>1. Top.lvl # 2 \/ Top.pc # "lpsw"
      BY <1>2, <1>3, <2>2, <2>4 DEF Proper
    <3>2. \A i \in DOMAIN frames' : frames'[i].lvl = 2 =>
            i \in DOMAIN frames /\ frames'[i] = frames[i]
      BY <1>2, <2>3, <2>4
    <3> QED BY <1>1, <2>2, <2>4, <3>1, <3>2, OnceElse
  <2>5. CASE l = 2
    <3>1. \A i \in DOMAIN frames : frames[i].lvl # 2
      BY <1>2, <1>3, <2>2, <2>5 DEF Proper
    <3>2. req' \in Requests /\ 2 \notin pend' /\ ticks' = 0
      BY <2>2, <2>5 DEF OnceInv
    <3>3. PICK n \in Nat : n = Len(frames) + 1 BY <1>2
    <3>4. \A i \in DOMAIN frames' : frames'[i].lvl = 2 => i = n
      BY <1>2, <2>3, <3>1, <3>3
    <3>5. frames'[n].on = {1} /\ frames'[n].pc = "entry"
      BY <2>3, <2>5, <3>3
    <3>6. req' # "none" BY <3>2, BreakAssumption
    <3>7. Proper(n)' BY <3>2, <3>5, <3>6 DEF Proper
    <3>8. Int2NotNested' BY <3>4 DEF Int2NotNested
    <3> QED BY <3>2, <3>4, <3>7, <3>8 DEF OnceInv
  <2> QED BY <2>4, <2>5
<1>5. CASE \E l \in {1, 2} : Return(l)
  <2>1. PICK l \in {1, 2} : Return(l) BY <1>5
  <2>2. /\ Top.lvl = l /\ UNCHANGED <<req, busy, ticks>>
        /\ 2 \in pend' <=> 2 \in pend
    BY <2>1, BusIrq DEF Return, At, boundVars
  <2>3. CASE opsw[l] = Len(frames) - 1
    <3>1. /\ Len(frames) > 1 /\ Len(frames') = Len(frames) - 1
          /\ \A i \in 1 .. Len(frames) - 1 : frames'[i] = frames[i]
      BY <1>1, <1>2, <2>1, <2>2, <2>3, Popped DEF Return
    <3>2. CASE l = 1
      <4>1. \A i \in DOMAIN frames' : frames'[i].lvl = 2 =>
              i \in DOMAIN frames /\ frames'[i] = frames[i]
        BY <1>2, <3>1
      <4> QED BY <1>1, <2>2, <3>2, <4>1, OnceElse
    <3>3. CASE l = 2
      <4>1. \A i \in DOMAIN frames : frames[i].lvl = 2 => i = Len(frames)
        BY <1>2, <2>2, <3>3 DEF OnceInv, Int2NotNested
      <4>2. \A i \in DOMAIN frames' : frames'[i].lvl # 2
        BY <1>2, <3>1, <4>1
      <4> QED BY <2>2, <4>2, OnceNone DEF OnceInv
    <3> QED BY <3>2, <3>3
  <2>4. CASE opsw[l] # Len(frames) - 1
    <3>1. frames' = <<Frame("lost", 0, {})>> BY <2>1, <2>4 DEF Return
    <3>2. "lost" \in BasePcs /\ {} \in SUBSET {1, 2} BY DEF BasePcs
    <3>3. Len(frames') = 1 /\ frames'[1].lvl = 0
      BY <1>1, <3>1, <3>2, Replaced DEF StackType
    <3>4. \A i \in DOMAIN frames' : frames'[i].lvl # 2 BY <1>2, <3>3
    <3> QED BY <2>2, <3>4, OnceNone DEF OnceInv
  <2> QED BY <2>3, <2>4
<1>6. CASE UserStep
  <2>1. /\ frames' = frames /\ Top.pc = "user"
        /\ UNCHANGED <<req, busy, ticks>>
        /\ 2 \in pend' <=> 2 \in pend
    BY <1>6, BusIrq DEF UserStep, boundVars
  <2>2. Top.lvl # 2 \/ Top.pc # "lpsw" BY <2>1
  <2>3. \A i \in DOMAIN frames' : frames'[i].lvl = 2 =>
          i \in DOMAIN frames /\ frames'[i] = frames[i]
    BY <2>1
  <2> QED BY <1>1, <2>1, <2>2, <2>3, OnceElse
<1>7. CASE HandlerFetch
  <2>1. /\ frames' = frames /\ Top.pc = "entry"
        /\ UNCHANGED <<req, busy, ticks>>
        /\ 2 \in pend' <=> 2 \in pend
    BY <1>7, BusIrq DEF HandlerFetch, boundVars
  <2>2. Top.lvl # 2 \/ Top.pc # "lpsw" BY <2>1
  <2>3. \A i \in DOMAIN frames' : frames'[i].lvl = 2 =>
          i \in DOMAIN frames /\ frames'[i] = frames[i]
    BY <2>1
  <2> QED BY <1>1, <2>1, <2>2, <2>3, OnceElse
<1>8. CASE Int1Cause
  <2>1. Top.lvl = 1 /\ UNCHANGED <<req, busy, ticks, pend>>
    BY <1>8 DEF Int1Cause, At, hwVars, boundVars
  <2>2. PICK p \in {"hit", "step"} : Goto(p) BY <1>8 DEF Int1Cause
  <2>3. p \in Pcs /\ p \in Pcs1 BY <2>2 DEF Pcs, Pcs1
  <2> QED BY <1>1, <2>1, <2>2, <2>3, GotoMoves, OnceInt1
<1>9. CASE Int1ReadHit
  <2>1. Top.lvl = 1 /\ UNCHANGED <<req, busy, ticks, pend>>
    BY <1>9 DEF Int1ReadHit, At, boundVars
  <2>2. PICK p \in {"epilogue", "count", "compare"} :
          frames' = [frames EXCEPT ![Len(frames)].pc = p,
                                   ![Len(frames)].slot = lastHit]
    BY <1>9 DEF Int1ReadHit
  <2>3. p \in Pcs /\ p \in Pcs1 BY <2>2 DEF Pcs, Pcs1
  <2>4. lastHit \in Slots \cup {NoHit} BY DEF TypeInv, HardwareType
  <2>5. Moved(p, lastHit) BY <1>1, <2>2, <2>3, <2>4, SlotMoves
  <2> QED BY <2>1, <2>3, <2>5, OnceInt1
<1>10. CASE Int1Compare
  <2>1. /\ Top.lvl = 1 /\ UNCHANGED <<req, busy, ticks>>
        /\ 2 \in pend' <=> 2 \in pend
    BY <1>10, BusIrq DEF Int1Compare, At, boundVars
  <2>2. PICK p \in {"count", "epilogue"} : Goto(p) BY <1>10 DEF Int1Compare
  <2>3. p \in Pcs /\ p \in Pcs1 BY <2>2 DEF Pcs, Pcs1
  <2> QED BY <1>1, <2>1, <2>2, <2>3, GotoMoves, OnceInt1
<1>11. CASE Int1Count
  <2>1. Top.lvl = 1 /\ UNCHANGED <<req, busy, ticks, pend>>
    BY <1>11 DEF Int1Count, At, hwVars, boundVars
  <2>2. PICK p \in {"notify", "epilogue"} : Goto(p) BY <1>11 DEF Int1Count
  <2>3. p \in Pcs /\ p \in Pcs1 BY <2>2 DEF Pcs, Pcs1
  <2> QED BY <1>1, <2>1, <2>2, <2>3, GotoMoves, OnceInt1
<1>12. CASE Int1NotifyBreak \/ Int1NotifyStep
  <2>1. Top.lvl = 1 /\ UNCHANGED <<req, busy, ticks, pend>> /\ Goto("halt")
    BY <1>12 DEF Int1NotifyBreak, Int1NotifyStep, At, hwVars, boundVars
  <2>2. "halt" \in Pcs /\ "halt" \in Pcs1 BY DEF Pcs, Pcs1
  <2> QED BY <1>1, <2>1, <2>2, GotoMoves, OnceInt1
<1>13. CASE Int1Epilogue
  <2>1. Top.lvl = 1 /\ UNCHANGED <<req, busy, ticks, pend>>
    BY <1>13 DEF Int1Epilogue, At, boundVars
  <2>2. PICK p \in {"ret", "lpsw"} : Goto(p) BY <1>13 DEF Int1Epilogue
  <2>3. p \in Pcs /\ p \in Pcs1 BY <2>2 DEF Pcs, Pcs1
  <2> QED BY <1>1, <2>1, <2>2, <2>3, GotoMoves, OnceInt1
<1>14. CASE Int1Restore
  <2>1. /\ Top.lvl = 1 /\ UNCHANGED <<req, busy, ticks>>
        /\ 2 \in pend' <=> 2 \in pend
    BY <1>14, BusIrq DEF Int1Restore, At, boundVars
  <2>2. PICK p \in {"popm", "lpsw"} : Goto(p) BY <1>14 DEF Int1Restore
  <2>3. p \in Pcs /\ p \in Pcs1 BY <2>2 DEF Pcs, Pcs1
  <2> QED BY <1>1, <2>1, <2>2, <2>3, GotoMoves, OnceInt1
<1>15. CASE Int1Stop \/ Exec
  <2>1. PICK pc \in {"main", "user"} : frames' = <<Frame(pc, 0, Top.on)>>
    BY <1>15 DEF Int1Stop, Exec
  <2>2. pc \in BasePcs /\ Top.on \in SUBSET {1, 2}
    BY <1>1, <2>1, TopFacts DEF BasePcs, FrameType
  <2>3. Len(frames') = 1 /\ frames'[1].lvl = 0
    BY <1>1, <2>1, <2>2, Replaced DEF StackType
  <2>4. \A i \in DOMAIN frames' : frames'[i].lvl # 2 BY <1>2, <2>3
  <2>5. UNCHANGED <<req, ticks, pend>>
    BY <1>15 DEF Int1Stop, Exec, hwVars, boundVars
  <2> QED BY <2>4, <2>5, OnceNone DEF OnceInv
<1>16. CASE Int2SetBusy
  <2>1. /\ Top.lvl = 2 /\ Top.pc = "entry" /\ Goto("read") /\ busy' = 1
        /\ UNCHANGED <<ticks, pend>>
    BY <1>16 DEF Int2SetBusy, At, hwVars, boundVars
  <2>2. "read" \in Pcs /\ "read" \in Pcs2 BY DEF Pcs, Pcs2
  <2> QED BY <1>1, <2>1, <2>2, GotoMoves, OnceInt2
<1>17. ASSUME Int2Cause \/ Int2Nothing \/ Int2Read \/ Int2Clear \/ Int2Resume
       PROVE  OnceInv'
  <2>1. /\ Top.lvl = 2 /\ Top.pc \in {"read", "timer", "serve"}
        /\ UNCHANGED <<ticks, busy>>
        /\ \E p \in {"serve", "timer", "leave"} : Goto(p)
    BY <1>17 DEF Int2Cause, Int2Nothing, Int2Read, Int2Clear, Int2Resume, At,
                 boundVars
  <2>2. 2 \in pend' <=> 2 \in pend
    BY <1>17, BusIrq DEF Int2Cause, Int2Nothing, Int2Read, Int2Clear,
                         Int2Resume, hwVars
  <2>3. PICK p \in {"serve", "timer", "leave"} : Goto(p) BY <2>1
  <2>4. p \in Pcs /\ p \in Pcs2 BY <2>3 DEF Pcs, Pcs2
  <2>5. busy' = 1 BY <1>2, <1>3, <2>1 DEF Proper
  <2> QED BY <1>1, <2>1, <2>2, <2>3, <2>4, <2>5, GotoMoves, OnceInt2
<1>18. CASE Int2Leave
  <2>1. /\ Top.lvl = 2 /\ Top.pc = "leave" /\ Goto("lpsw") /\ Running
        /\ UNCHANGED <<ticks, pend>>
    BY <1>18 DEF Int2Leave, At, hwVars, boundVars
  <2>2. "lpsw" \in Pcs /\ "lpsw" \in Pcs2 BY DEF Pcs, Pcs2
  <2>3. Top.on = {1} BY <1>2, <1>3, <2>1 DEF Proper
  <2>4. 1 \notin pend' BY <2>1, <2>3 DEF Running, Acceptable
  <2> QED BY <1>1, <2>1, <2>2, <2>4, GotoMoves, OnceInt2
<1>19. CASE \E k \in Requests : IoRequest(k)
  <2>1. PICK k \in Requests : IoRequest(k) BY <1>19
  <2>2. /\ req = "none" /\ busy = 0 /\ req' = k /\ pend' = pend \cup {2}
        /\ UNCHANGED <<frames, busy, ticks>>
    BY <2>1 DEF IoRequest
  <2>3. ASSUME NEW i \in DOMAIN frames, frames[i].lvl = 2 PROVE Proper(i)'
    <3>1. Proper(i) BY <1>3, <2>3
    <3>2. frames[i].pc = "lpsw" BY <2>2, <3>1 DEF Proper
    <3> QED BY <2>2, <3>1, <3>2 DEF Proper
  <2> QED BY <2>1, <2>2, <2>3 DEF OnceInv, Int2NotNested
<1>20. CASE IoTimeout
  <2>1. /\ \A i \in DOMAIN frames : frames[i].lvl # 2
        /\ 2 \notin pend /\ UNCHANGED <<frames, pend, ticks>>
    BY <1>20 DEF IoTimeout, hwVars, boundVars
  <2> QED BY <2>1, OnceNone DEF OnceInv
<1>21. CASE TimerIrq BY <1>21 DEF TimerIrq, NoTimer, OnceInv
<1>22. CASE UNCHANGED vars
  <2>1. UNCHANGED <<frames, pend, req, busy, ticks>>
    BY <1>22 DEF vars, hwVars, boundVars
  <2> QED BY <2>1 DEF OnceInv, Int2NotNested, Proper
<1> QED BY <1>4, <1>5, <1>6, <1>7, <1>8, <1>9, <1>10, <1>11, <1>12, <1>13,
           <1>14, <1>15, <1>16, <1>17, <1>18, <1>19, <1>20, <1>21, <1>22
     DEF Next, CpuNext

\* Without a timer interrupt INT2 is never entered while it is being served,
\* whichever slots are watched, stops and resumptions included (interrupt.asm:
\* the STR of INT1 lets INT2 in, also when INT1 interrupts an INT2 that has
\* not set INTERRUPT_BUSY yet).
THEOREM ServedOnce ==
  ASSUME NoTimer
  PROVE  Spec => []Int2NotNested
<1>1. Init => OnceInv
  <2> SUFFICES ASSUME Init PROVE OnceInv OBVIOUS
  <2>1. DOMAIN frames = {1} /\ frames[1].lvl = 0 BY DEF Init, Frame
  <2> QED BY <2>1 DEF Init, OnceInv, Int2NotNested
<1>2. TypeInv /\ OnceInv /\ [Next]_vars => TypeInv' /\ OnceInv'
  BY TypeStep, OnceStep
<1>3. OnceInv => Int2NotNested BY DEF OnceInv
<1> QED BY <1>1, <1>2, <1>3, TypeInit, PTL DEF Spec
=============================================================================
