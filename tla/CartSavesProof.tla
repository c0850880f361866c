---------------------------- MODULE CartSavesProof ----------------------------
(***************************************************************************)
(* Proofs about CartSaves, for any cartridge, chip, save mode, bus cycles  *)
(* and number of launches.                                                 *)
(***************************************************************************)
EXTENDS CartSaves, TLAPS, SequenceTheorems

(***************************************************************************)
(* The chip                                                                *)
(***************************************************************************)
\* A chip with one field changed is a chip.
LEMMA WithMode ==
  ASSUME NEW c \in Chip, NEW m \in Mode
  PROVE  [c EXCEPT !.mode = m] \in Chip
BY DEF Chip

LEMMA WithStep ==
  ASSUME NEW c \in Chip, NEW n \in 0 .. 5
  PROVE  [c EXCEPT !.step = n] \in Chip
BY DEF Chip

LEMMA WithLocked ==
  ASSUME NEW c \in Chip, NEW x \in SUBSET Block
  PROVE  [c EXCEPT !.locked = x] \in Chip
BY DEF Chip

LEMMA WithDirty ==
  ASSUME NEW c \in Chip, NEW x \in BOOLEAN
  PROVE  [c EXCEPT !.dirty = x] \in Chip
BY DEF Chip

\* Every granule has its block.
LEMMA BlockOfType ==
  ASSUME NEW g \in Granule
  PROVE  BlockOf(g) \in Block
BY BlocksPartition DEF BlockOf

\* Closing a window that is over moves the mode only.
LEMMA SettledType ==
  ASSUME NEW c \in Chip
  PROVE  /\ Settled(c) \in Chip
         /\ Settled(c).cells = c.cells /\ Settled(c).dirty = c.dirty
         /\ Settled(c).step = c.step /\ Settled(c).locked = c.locked
BY DEF Settled, Chip, Mode

\* Opening a window moves the mode, the clock and what comes after, nothing else.
LEMMA BeginBusyType ==
  ASSUME NEW c \in Chip, NEW p \in Part, NEW after \in Mode
  PROVE  /\ BeginBusy(c, p, after) \in Chip
         /\ BeginBusy(c, p, after).cells = c.cells
         /\ BeginBusy(c, p, after).dirty = c.dirty
         /\ BeginBusy(c, p, after).locked = c.locked
         /\ BeginBusy(c, p, after).step = c.step
BY DEF BeginBusy, Chip, Mode

\* Programming lowers at most the cell addressed, and a change makes the chip dirty.
LEMMA ProgrammedEffect ==
  ASSUME NEW c \in Chip, NEW p \in Part, NEW w \in Cycle
  PROVE  /\ Programmed(c, p, w) \in Chip
         /\ Programmed(c, p, w).locked = c.locked
         /\ \A g \in Granule : Programmed(c, p, w).cells[g] <= c.cells[g]
         /\ \A g \in Granule : BlockOf(g) \in c.locked => Programmed(c, p, w).cells[g] = c.cells[g]
         /\ c.dirty => Programmed(c, p, w).dirty
         /\ ~Programmed(c, p, w).dirty => Programmed(c, p, w).cells = c.cells
<1> DEFINE before == c.cells[w.g]
           now == IF before = 1 THEN Bit(w.v) ELSE 0
           k == [c EXCEPT !.cells[w.g] = now, !.dirty = c.dirty \/ now # before]
           fails == p = "datasheet" /\ before = 0 /\ Bit(w.v) = 1
           after == IF fails THEN "Failed" ELSE "Read"
<1>1. w.g \in Granule /\ before \in {0, 1} /\ now \in {0, 1} /\ now <= before
  BY DEF Chip, Cells, Cycle, Bit
<1>2. k \in Chip /\ k.locked = c.locked /\ k.cells = [c.cells EXCEPT ![w.g] = now]
      /\ k.dirty = (c.dirty \/ now # before)
  BY <1>1 DEF Chip, Cells
<1>3. after \in Mode
  BY DEF Mode
<1>4. \A g \in Granule : k.cells[g] <= c.cells[g] /\ (g # w.g => k.cells[g] = c.cells[g])
  BY <1>1, <1>2 DEF Chip, Cells
<1>5. ~k.dirty => k.cells = c.cells /\ ~c.dirty
  <2>1. now = before => [c.cells EXCEPT ![w.g] = now] = c.cells
    BY <1>1 DEF Chip, Cells
  <2> HIDE DEF k, now, before
  <2> QED
    BY <1>2, <2>1
<1>6. CASE BlockOf(w.g) \in c.locked
  <2>1. Programmed(c, p, w) = c
    BY <1>6 DEF Programmed
  <2> QED
    BY <2>1 DEF Chip, Cells
<1>7. CASE BlockOf(w.g) \notin c.locked
  <2>1. Programmed(c, p, w) = BeginBusy(k, p, after)
    BY <1>7 DEF Programmed
  <2> HIDE DEF k, after
  <2>2. /\ BeginBusy(k, p, after) \in Chip /\ BeginBusy(k, p, after).cells = k.cells
        /\ BeginBusy(k, p, after).dirty = k.dirty /\ BeginBusy(k, p, after).locked = k.locked
    BY <1>2, <1>3, BeginBusyType
  <2>3. k.locked = c.locked /\ (c.dirty => k.dirty)
    BY <1>2
  <2>4. \A g \in Granule : BlockOf(g) \in c.locked => k.cells[g] = c.cells[g]
    BY <1>4, <1>7
  <2>5. \A g \in Granule : k.cells[g] <= c.cells[g]
    BY <1>4
  <2> QED
    BY <1>5, <2>1, <2>2, <2>3, <2>4, <2>5
<1> QED
  BY <1>6, <1>7

\* Erasing raises the cells of the blocks named and no other.
LEMMA ErasedEffect ==
  ASSUME NEW c \in Chip, NEW p \in Part, NEW blocks \in SUBSET Block
  PROVE  /\ Erased(c, p, blocks) \in Chip
         /\ Erased(c, p, blocks).locked = c.locked /\ Erased(c, p, blocks).step = c.step
         /\ Erased(c, p, blocks).dirty
         /\ \A g \in Granule : Erased(c, p, blocks).cells[g] >= c.cells[g]
         /\ \A g \in Granule :
              BlockOf(g) \notin blocks => Erased(c, p, blocks).cells[g] = c.cells[g]
<1> DEFINE now == [g \in Granule |-> IF BlockOf(g) \in blocks THEN 1 ELSE c.cells[g]]
           k == [c EXCEPT !.cells = now, !.dirty = TRUE]
           q == IF blocks = {} THEN "instant" ELSE p
<1>1. now \in Cells /\ \A g \in Granule : now[g] >= c.cells[g]
  BY DEF Chip, Cells
<1>2. k \in Chip /\ k.locked = c.locked /\ k.cells = now /\ k.dirty /\ k.step = c.step
  BY <1>1 DEF Chip
<1>3. q \in Part /\ "Ack" \in Mode
  BY DEF Part, Mode
<1>4. Erased(c, p, blocks) = BeginBusy(k, q, "Ack")
  BY DEF Erased
<1>5. \A g \in Granule : BlockOf(g) \notin blocks => now[g] = c.cells[g]
  OBVIOUS
<1> HIDE DEF k, q, now
<1> QED
  BY <1>1, <1>2, <1>3, <1>4, <1>5, BeginBusyType

\* What the last cycle of an erase or a protection does.
LEMMA OperateEffect ==
  ASSUME NEW c \in Chip, NEW p \in Part, NEW w \in Cycle
  PROVE  /\ Operate(c, p, w) \in Chip
         /\ c.locked \subseteq Operate(c, p, w).locked /\ Operate(c, p, w).step = c.step
         /\ \A g \in Granule : Operate(c, p, w).cells[g] >= c.cells[g]
         /\ \A g \in Granule : BlockOf(g) \in c.locked => Operate(c, p, w).cells[g] = c.cells[g]
         /\ c.dirty => Operate(c, p, w).dirty
         /\ ~Operate(c, p, w).dirty => Operate(c, p, w).cells = c.cells
         /\ w.v \notin {"10", "30"} => Operate(c, p, w).cells = c.cells
<1>0. /\ c.locked \in SUBSET Block /\ Block \ c.locked \in SUBSET Block
      /\ \A g \in Granule : c.cells[g] \in {0, 1}
  BY DEF Chip, Cells
<1>1. CASE w.at = "5555" /\ w.v = "10"
  <2>1. Operate(c, p, w) = Erased(c, p, Block \ c.locked)
    BY <1>1 DEF Operate, EraseAll
  <2> QED
    BY <1>0, <1>1, <2>1, ErasedEffect
<1>2. CASE ~(w.at = "5555" /\ w.v = "10") /\ w.v = "30"
  <2>1. Operate(c, p, w) = EraseBlock(c, p, w)
    BY <1>2 DEF Operate
  <2>2. CASE BlockOf(w.g) \in c.locked
    BY <1>0, <1>2, <2>1, <2>2 DEF EraseBlock
  <2>3. CASE BlockOf(w.g) \notin c.locked
    <3>1. Operate(c, p, w) = Erased(c, p, {BlockOf(w.g)})
      BY <2>1, <2>3 DEF EraseBlock
    <3>2. {BlockOf(w.g)} \in SUBSET Block
      BY BlockOfType DEF Cycle
    <3> QED
      BY <1>2, <2>3, <3>1, <3>2, ErasedEffect
  <2> QED
    BY <2>2, <2>3
<1>3. CASE w.v = "9A"
  <2>1. Operate(c, p, w) = [c EXCEPT !.locked = @ \cup {BlockOf(w.g)}, !.dirty = TRUE, !.mode = "Read"]
    BY <1>3 DEF Operate, Protected
  <2>2. BlockOf(w.g) \in Block
    BY BlockOfType DEF Cycle
  <2> DEFINE k == Operate(c, p, w)
  <2>3. k \in Chip
    <3> DEFINE k1 == [c EXCEPT !.locked = @ \cup {BlockOf(w.g)}]
               k2 == [k1 EXCEPT !.dirty = TRUE]
    <3>1. k1 \in Chip
      BY <1>0, <2>2, WithLocked
    <3>2. k2 \in Chip
      <4> HIDE DEF k1
      <4> QED
        BY <3>1, WithDirty
    <3>3. [k2 EXCEPT !.mode = "Read"] \in Chip
      <4> HIDE DEF k2
      <4> QED
        BY <3>2, WithMode DEF Mode
    <3> QED
      BY <2>1, <3>3
  <2>4. k.locked = c.locked \cup {BlockOf(w.g)} /\ k.step = c.step /\ k.cells = c.cells /\ k.dirty
    BY <2>1 DEF Chip
  <2> QED
    BY <1>0, <2>3, <2>4
<1>4. CASE ~(w.at = "5555" /\ w.v = "10") /\ w.v \notin {"30", "9A"}
  <2>1. Operate(c, p, w) = [c EXCEPT !.mode = "Read"]
    BY <1>4 DEF Operate
  <2> QED
    BY <1>0, <2>1 DEF Chip, Mode
<1> QED
  BY <1>1, <1>2, <1>3, <1>4

\* The cycles that only move the latch.
LEMMA AtEffect ==
  ASSUME NEW c \in Chip, NEW n \in 0 .. 5
  PROVE  /\ At(c, n) \in Chip /\ At(c, n).step = n /\ At(c, n).mode = c.mode
         /\ At(c, n).cells = c.cells /\ At(c, n).dirty = c.dirty /\ At(c, n).locked = c.locked
         /\ At(c, n).after = c.after
BY DEF At, Chip

\* A third cycle that selects a mode.
LEMMA EnterEffect ==
  ASSUME NEW c \in Chip, NEW m \in Mode
  PROVE  /\ Enter(c, m) \in Chip /\ Enter(c, m).step = 0 /\ Enter(c, m).mode = m
         /\ Enter(c, m).cells = c.cells /\ Enter(c, m).dirty = c.dirty
         /\ Enter(c, m).locked = c.locked
<1> DEFINE k == [c EXCEPT !.mode = m]
<1>1. k \in Chip
  BY WithMode
<1>2. [k EXCEPT !.step = 0] \in Chip
  <2> HIDE DEF k
  <2>1. 0 \in 0 .. 5
    OBVIOUS
  <2> QED
    BY ONLY <1>1, <2>1, WithStep, Zenon
<1> QED
  BY <1>2 DEF Enter, Chip

\* The reset command, F0.
LEMMA FreedEffect ==
  ASSUME NEW c \in Chip
  PROVE  /\ Freed(c) \in Chip /\ Freed(c).step = 0 /\ Freed(c).mode = "Read"
         /\ Freed(c).cells = c.cells /\ Freed(c).dirty = c.dirty /\ Freed(c).locked = c.locked
<1>1. Freed(c) = Enter(c, "Read") /\ "Read" \in Mode
  BY DEF Freed, Enter, Mode
<1> QED
  BY <1>1, EnterEffect

\* The cycles of an unlock sequence, the last one apart.
LEMMA UnlockEffect ==
  ASSUME NEW c \in Chip, NEW p \in Part, NEW w \in Cycle
  PROVE  /\ Unlock(c, p, w) \in Chip
         /\ c.locked \subseteq Unlock(c, p, w).locked
         /\ c.dirty => Unlock(c, p, w).dirty
         /\ ~Unlock(c, p, w).dirty => Unlock(c, p, w).cells = c.cells
         /\ \A g \in Granule : Unlock(c, p, w).cells[g] >= c.cells[g]
         /\ \A g \in Granule : BlockOf(g) \in c.locked => Unlock(c, p, w).cells[g] = c.cells[g]
         /\ ~(c.step = 5 /\ w.v \in {"10", "30"}) => Unlock(c, p, w).cells = c.cells
<1>0. c.step \in 0 .. 5 /\ \A g \in Granule : c.cells[g] \in {0, 1}
  BY DEF Chip, Cells
<1>1. \A n \in 0 .. 5 : /\ At(c, n) \in Chip /\ At(c, n).cells = c.cells
                        /\ At(c, n).dirty = c.dirty /\ At(c, n).locked = c.locked
  BY AtEffect
<1>2. \A m \in Mode : /\ Enter(c, m) \in Chip /\ Enter(c, m).cells = c.cells
                     /\ Enter(c, m).dirty = c.dirty /\ Enter(c, m).locked = c.locked
  BY EnterEffect
<1>3. CASE \E n \in 0 .. 5 : Unlock(c, p, w) = At(c, n)
  BY <1>0, <1>1, <1>3
<1>4. CASE \E m \in Mode : Unlock(c, p, w) = Enter(c, m)
  BY <1>0, <1>2, <1>4
<1>5. CASE c.step = 5
  <2> DEFINE k == At(c, 0)
  <2>1. Unlock(c, p, w) = Operate(k, p, w)
    BY <1>5 DEF Unlock
  <2>2. k \in Chip /\ k.cells = c.cells /\ k.dirty = c.dirty /\ k.locked = c.locked
    BY <1>1
  <2> HIDE DEF k
  <2> QED
    BY <1>5, <2>1, <2>2, OperateEffect
<1>6. CASE c.step \in {0, 1, 3, 4}
  <2>1. \E n \in 0 .. 5 : Unlock(c, p, w) = At(c, n)
    <3>1. Unlock(c, p, w) \in {At(c, 0), At(c, c.step + 1)}
      BY <1>6 DEF Unlock
    <3> QED
      BY <1>6, <3>1
  <2> QED
    BY <1>3, <2>1
<1>7. CASE c.step = 2
  <2>1. CASE w.at # "5555"
    <3>1. Unlock(c, p, w) = At(c, 0)
      BY <1>7, <2>1 DEF Unlock
    <3> QED
      BY <1>3, <3>1
  <2>2. CASE w.at = "5555"
    <3>1. Unlock(c, p, w) = Select(c, w)
      BY <1>7, <2>2 DEF Unlock
    <3>2. Select(c, w) \in {Enter(c, "ReadId"), Enter(c, "Write"), At(c, 3), Enter(c, "Read")}
      BY DEF Select
    <3>3. {"ReadId", "Write", "Read"} \subseteq Mode
      BY DEF Mode
    <3> QED
      BY <1>3, <1>4, <3>1, <3>2, <3>3
  <2> QED
    BY <2>1, <2>2
<1> QED
  BY <1>0, <1>5, <1>6, <1>7

\* One write on the bus: a chip that works is left alone; a change makes the chip dirty; a
\* locked block stays; cells fall only in the data cycle of a program, and rise only in
\* the last cycle of an erase.
LEMMA CommandEffect ==
  ASSUME NEW c \in Chip, NEW p \in Part, NEW w \in Cycle
  PROVE  /\ Command(c, p, w) \in Chip
         /\ c.mode = "Busy" /\ c.working => Command(c, p, w) = c
         /\ c.locked \subseteq Command(c, p, w).locked
         /\ ~Command(c, p, w).dirty => Command(c, p, w).cells = c.cells /\ ~c.dirty
         /\ \A g \in Granule : BlockOf(g) \in c.locked => Command(c, p, w).cells[g] = c.cells[g]
         /\ \A g \in Granule : Command(c, p, w).cells[g] < c.cells[g] => Settled(c).mode = "Write"
         /\ \A g \in Granule : Command(c, p, w).cells[g] > c.cells[g]
                              => c.step = 5 /\ w.v \in {"10", "30"}
<1> DEFINE s == Settled(c)
<1>1. /\ s \in Chip /\ s.cells = c.cells /\ s.dirty = c.dirty
      /\ s.step = c.step /\ s.locked = c.locked
      /\ (c.mode = "Busy" /\ c.working => s = c)
  <2>1. c.mode = "Busy" /\ c.working => s = c
    BY DEF Settled
  <2> QED
    BY <2>1, SettledType
<1>2. \A g \in Granule : c.cells[g] \in {0, 1}
  BY DEF Chip, Cells
<1>3. Command(c, p, w) = IF s.mode = "Busy" THEN s
                         ELSE IF s.mode = "Failed" THEN IF w.v = "F0" THEN Freed(s) ELSE s
                         ELSE IF s.mode = "Write" THEN At(Programmed(s, p, w), 0)
                         ELSE IF w.v = "F0" THEN Freed(s)
                         ELSE Unlock(s, p, w)
  BY DEF Command
<1> HIDE DEF s
<1>4. Freed(s) \in Chip /\ Freed(s).cells = s.cells /\ Freed(s).dirty = s.dirty /\ Freed(s).locked = s.locked
  BY <1>1, FreedEffect
<1>5. CASE s.mode = "Busy"
  BY <1>1, <1>2, <1>3, <1>5
<1>6. CASE s.mode = "Failed"
  BY <1>1, <1>2, <1>3, <1>4, <1>6
<1>7. CASE s.mode = "Write"
  <2> DEFINE k == Programmed(s, p, w)
  <2>1. Command(c, p, w) = At(k, 0)
    BY <1>3, <1>7
  <2>2. /\ k \in Chip /\ k.locked = s.locked
        /\ \A g \in Granule : k.cells[g] <= s.cells[g]
        /\ \A g \in Granule : BlockOf(g) \in s.locked => k.cells[g] = s.cells[g]
        /\ s.dirty => k.dirty
        /\ ~k.dirty => k.cells = s.cells
    BY <1>1, ProgrammedEffect
  <2>3. /\ At(k, 0) \in Chip /\ At(k, 0).cells = k.cells
        /\ At(k, 0).dirty = k.dirty /\ At(k, 0).locked = k.locked
    BY <2>2, AtEffect
  <2>4. \A g \in Granule : k.cells[g] \in {0, 1}
    BY <2>2 DEF Chip, Cells
  <2> HIDE DEF k
  <2>5. c.mode = "Busy" /\ c.working => FALSE
    BY <1>1, <1>7
  <2> QED
    BY <1>1, <1>2, <1>7, <2>1, <2>2, <2>3, <2>4, <2>5 DEF s
<1>8. CASE s.mode \notin {"Busy", "Failed", "Write"} /\ w.v = "F0"
  BY <1>1, <1>2, <1>3, <1>4, <1>8
<1>9. CASE s.mode \notin {"Busy", "Failed", "Write"} /\ w.v # "F0"
  <2> DEFINE k == Unlock(s, p, w)
  <2>1. Command(c, p, w) = k
    BY <1>3, <1>9
  <2>2. /\ k \in Chip /\ s.locked \subseteq k.locked
        /\ s.dirty => k.dirty
        /\ ~k.dirty => k.cells = s.cells
        /\ \A g \in Granule : k.cells[g] >= s.cells[g]
        /\ \A g \in Granule : BlockOf(g) \in s.locked => k.cells[g] = s.cells[g]
        /\ ~(s.step = 5 /\ w.v \in {"10", "30"}) => k.cells = s.cells
    BY <1>1, UnlockEffect
  <2>3. \A g \in Granule : k.cells[g] \in {0, 1}
    BY <2>2 DEF Chip, Cells
  <2> HIDE DEF k
  <2>4. c.mode = "Busy" /\ c.working => FALSE
    BY <1>1, <1>9
  <2> QED
    BY <1>1, <1>2, <2>1, <2>2, <2>3, <2>4
<1> QED
  BY <1>5, <1>6, <1>7, <1>8, <1>9

\* A read, the end of a window and a reset move the latch and nothing else.
LEMMA ReadBusEffect ==
  ASSUME NEW c \in Chip
  PROVE  /\ ReadBus(c) \in Chip
         /\ ReadBus(c).cells = c.cells /\ ReadBus(c).dirty = c.dirty
<1> DEFINE s == Settled(c)
<1>1. s \in Chip /\ s.cells = c.cells /\ s.dirty = c.dirty
  BY SettledType
<1>2. ReadBus(c) = IF s.mode = "Ack" THEN [s EXCEPT !.mode = "Read"] ELSE s
  BY DEF ReadBus
<1> HIDE DEF s
<1> QED
  BY <1>1, <1>2 DEF Chip, Mode

\* The end of a window.
LEMMA ElapseEffect ==
  ASSUME NEW c \in Chip
  PROVE  /\ [c EXCEPT !.working = FALSE] \in Chip
         /\ [c EXCEPT !.working = FALSE].cells = c.cells
         /\ [c EXCEPT !.working = FALSE].dirty = c.dirty
BY DEF Chip

\* The reset of the console, with the cells the loader brings.
LEMMA LatchedEffect ==
  ASSUME NEW c \in Chip, NEW x \in Cells
  PROVE  /\ Latched(c, x) \in Chip
         /\ Latched(c, x).cells = x /\ Latched(c, x).dirty = c.dirty
         /\ [Latched(c, x) EXCEPT !.dirty = FALSE] \in Chip
         /\ [Latched(c, x) EXCEPT !.dirty = FALSE].cells = x
<1> DEFINE k == Latched(c, x)
<1>1. k \in Chip
  <2> DEFINE a == Enter(c, "Read")
             b == [[a EXCEPT !.after = "Read"] EXCEPT !.working = FALSE]
  <2>1. a \in Chip
    BY EnterEffect DEF Mode
  <2>2. k = [b EXCEPT !.cells = x]
    BY DEF Latched, Enter
  <2> HIDE DEF a
  <2>3. b \in Chip
    BY <2>1 DEF Chip, Mode
  <2> HIDE DEF b, k
  <2> QED
    BY <2>2, <2>3 DEF Chip
<1>2. k.cells = x /\ k.dirty = c.dirty
  BY DEF Latched, Chip
<1> HIDE DEF k
<1>3. [k EXCEPT !.dirty = FALSE] \in Chip /\ [k EXCEPT !.dirty = FALSE].cells = x
  BY <1>1, <1>2 DEF Chip
<1> QED
  BY <1>1, <1>2, <1>3 DEF k

\* A cartridge put in the slot.
LEMMA InsertedEffect ==
  ASSUME NEW x \in Cells
  PROVE  Inserted(x) \in Chip /\ Inserted(x).cells = x
BY DEF Inserted, Chip, Mode

\* What a commit leaves of the chip.
LEMMA CleanEffect ==
  ASSUME chip \in Chip
  PROVE  Clean \in Chip /\ Clean.cells = chip.cells
BY DEF Clean, Chip

(***************************************************************************)
(* The files                                                               *)
(***************************************************************************)
SavType ==
  DOMAIN sav \subseteq Granule /\ \A g \in DOMAIN sav : sav[g] \in {0, 1}

TypesInv ==
  /\ how \in Modes /\ part \in Parts
  /\ phase \in {"off", "bios", "game", "rom", "flash"}
  /\ rom \in Cells /\ orig \in Cells /\ chip \in Chip /\ SavType

\* While the console runs, the image is the ROM file's, and only what was loaded is owed.
RunningInv == On => orig = rom /\ owed = {Loaded}

\* In a commit: the old save and the cells are owed until the last file is written.
RomInv ==
  phase = "rom" =>
    /\ ToRom /\ orig = rom /\ chip.cells # orig
    /\ owed = {Loaded, chip.cells}

FlashInv ==
  phase = "flash" =>
    /\ Sidecar /\ chip.cells # orig
    /\ how = "sidecar" => rom = orig /\ owed = {Loaded, chip.cells}
    /\ how = "both" => rom = chip.cells

\* A player without a .flash file has none; one with both files finds the same in both.
RestInv ==
  /\ how = "rom" => DOMAIN sav = {}
  /\ how = "both" /\ ~torn /\ phase # "flash" => Loaded = rom

IInv ==
  /\ TypesInv /\ RunningInv /\ RomInv /\ FlashInv /\ RestInv
  /\ CleanMeansStored /\ SaveComesBack

\* What a launch puts in the slot is an image.
LEMMA ReloadType ==
  ASSUME NEW x \in Cells, SavType
  PROVE  Reload(x, sav) \in Cells
BY DEF Reload, Cells, SavType

\* Without a .flash file the slot holds the ROM file.
LEMMA ReloadNothing ==
  ASSUME NEW x \in Cells, DOMAIN sav = {}
  PROVE  Reload(x, sav) = x
BY DEF Reload, Cells

\* Laying the difference of two images over the first, or over the second, gives the second.
LEMMA ReloadChanged ==
  ASSUME NEW x \in Cells, NEW y \in Cells, NEW z \in {x, y}
  PROVE  LET f == [g \in Changed(x, y) |-> y[g]] IN
         /\ Reload(z, f) = y
         /\ DOMAIN f \subseteq Granule /\ \A g \in DOMAIN f : f[g] \in {0, 1}
         /\ x # y => Changed(x, y) # {}
<1> DEFINE f == [g \in Changed(x, y) |-> y[g]]
<1>1. Changed(x, y) \subseteq Granule /\ \A g \in Granule : g \notin Changed(x, y) => x[g] = y[g]
  BY DEF Changed
<1>2. \A g \in Granule : y[g] \in {0, 1}
  BY DEF Cells
<1>3. Reload(z, f) = [g \in Granule |-> y[g]]
  BY <1>1 DEF Reload
<1>4. x # y => Changed(x, y) # {}
  BY <1>1 DEF Cells
<1> QED
  BY <1>1, <1>2, <1>3, <1>4 DEF Cells

\* The invariant of the files holds before the first launch.
LEMMA InitIInv == Init => IInv
<1> SUFFICES ASSUME Init PROVE IInv
  OBVIOUS
<1>1. rom \in Cells /\ SavType /\ DOMAIN sav = {}
  BY SavesAssumption DEF Init, SavType
<1>2. Loaded = rom
  BY <1>1, ReloadNothing DEF Loaded
<1>3. TypesInv
  BY <1>1, InsertedEffect DEF Init, TypesInv
<1> QED
  BY <1>1, <1>2, <1>3
  DEF Init, IInv, RunningInv, RomInv, FlashInv, RestInv, CleanMeansStored, SaveComesBack, On

\* What a step of the running console keeps that leaves the files alone.
LEMMA RunningStep ==
  ASSUME IInv, On, phase' \in {"bios", "game"}, UNCHANGED <<world, files, orig, memory>>,
         chip' \in Chip, ~chip'.dirty => chip'.cells = Loaded
  PROVE  IInv'
<1>1. TypesInv'
  BY DEF IInv, TypesInv, SavType, world, files
<1>2. Loaded' = Loaded
  BY DEF Loaded, files
<1> QED
  BY <1>1, <1>2
  DEF IInv, RunningInv, RomInv, FlashInv, RestInv, CleanMeansStored, SaveComesBack, On,
      world, files, memory

\* A launch: the image comes from the files, and the chip is clean.
LEMMA LaunchIInv == IInv /\ Launch => IInv'
<1> SUFFICES ASSUME IInv, Launch PROVE IInv'
  OBVIOUS
<1> USE DEF Launch, world, files
<1>1. Loaded' = Loaded /\ Loaded \in Cells
  BY ReloadType DEF Loaded, IInv, TypesInv
<1>2. chip' \in Chip /\ chip'.cells = Loaded
  BY <1>1, InsertedEffect DEF Loaded
<1>3. TypesInv'
  BY <1>2 DEF IInv, TypesInv, SavType
<1>4. RestInv'
  BY <1>1 DEF IInv, RestInv
<1> QED
  BY <1>1, <1>2, <1>3, <1>4
  DEF IInv, RunningInv, RomInv, FlashInv, CleanMeansStored, SaveComesBack, On, Loaded

\* A close that writes nothing loses nothing: either the chip is clean, or its cells are the
\* ROM file's, which is what the files give except to a player who erased all he ever saved.
LEMMA CloseUnchangedIInv == IInv /\ CloseUnchanged => IInv'
<1> SUFFICES ASSUME IInv, CloseUnchanged PROVE IInv'
  OBVIOUS
<1> USE DEF CloseUnchanged, world, files, session
<1>1. Loaded' = Loaded /\ chip' \in Chip
  BY CleanEffect DEF Loaded, IInv, TypesInv
<1>2. TypesInv'
  BY <1>1 DEF IInv, TypesInv, SavType
<1>3. RestInv'
  BY <1>1 DEF IInv, RestInv, On
<1>4. SaveComesBack'
  <2> SUFFICES ASSUME ~torn, ~(how = "sidecar" /\ chip.cells = rom)
               PROVE  Loaded = chip.cells
    BY <1>1 DEF SaveComesBack, ErasedAll
  <2>1. CASE ~chip.dirty
    BY <2>1 DEF IInv, CleanMeansStored
  <2>2. CASE chip.dirty
    <3>1. chip.cells = rom /\ phase # "flash"
      BY <2>2 DEF IInv, RunningInv, CartImage, On
    <3>2. how \in {"rom", "both"}
      BY <3>1, SavesAssumption DEF IInv, TypesInv
    <3>3. how = "rom" => Loaded = rom
      BY ReloadNothing DEF IInv, RestInv, TypesInv, Loaded
    <3> QED
      BY <3>1, <3>2, <3>3 DEF IInv, RestInv
  <2> QED
    BY <2>1, <2>2
<1> QED
  BY <1>1, <1>2, <1>3, <1>4
  DEF IInv, RunningInv, RomInv, FlashInv, CleanMeansStored, On

\* A close that has something to write: the save loaded is still owed.
LEMMA CloseChangedIInv == IInv /\ CloseChanged => IInv'
<1> SUFFICES ASSUME IInv, CloseChanged PROVE IInv'
  OBVIOUS
<1> USE DEF CloseChanged, world, files, session
<1>1. Loaded' = Loaded
  BY DEF Loaded
<1>2. TypesInv'
  BY DEF IInv, TypesInv, SavType
<1>3. owed' = {Loaded, chip.cells} /\ orig = rom /\ chip.cells # orig
  BY DEF IInv, RunningInv, CartImage
<1>4. how \in {"rom", "both", "sidecar"}
  BY SavesAssumption DEF IInv, TypesInv
<1>5. RestInv'
  BY <1>1, <1>4 DEF IInv, RestInv, ToRom, On
<1> QED
  BY <1>1, <1>2, <1>3, <1>4, <1>5
  DEF IInv, RunningInv, RomInv, FlashInv, CleanMeansStored, SaveComesBack, On, ToRom, Sidecar

\* The ROM file is written: done for a player who keeps no other file.
LEMMA WriteRomIInv == IInv /\ WriteRom => IInv'
<1> SUFFICES ASSUME IInv, WriteRom PROVE IInv'
  OBVIOUS
<1> USE DEF WriteRom, world, session
<1>1. how \in {"rom", "both"} /\ chip \in Chip /\ chip.cells \in Cells /\ chip.cells # orig
  BY SavesAssumption DEF IInv, TypesInv, RomInv, ToRom, Chip
<1>2. rom' = chip.cells
  BY DEF CartImage
<1>3. CASE how = "rom"
  <2>1. phase' = "off" /\ chip' = Clean /\ owed' = {chip.cells}
    BY <1>3 DEF Sidecar, Written
  <2>2. DOMAIN sav = {} /\ sav' = sav
    BY <1>3 DEF IInv, RestInv
  <2>3. Loaded' = chip.cells
    BY <1>1, <1>2, <2>2, ReloadNothing DEF Loaded
  <2>4. TypesInv'
    BY <1>1, <1>2, <2>1, CleanEffect DEF IInv, TypesInv, SavType
  <2> QED
    BY <1>3, <2>1, <2>2, <2>3, <2>4
    DEF IInv, RunningInv, RomInv, FlashInv, RestInv, CleanMeansStored, SaveComesBack, On
<1>4. CASE how = "both"
  <2>1. phase' = "flash" /\ UNCHANGED <<chip, owed>>
    BY <1>4 DEF Sidecar
  <2>2. TypesInv'
    BY <1>1, <1>2, <2>1 DEF IInv, TypesInv, SavType
  <2> QED
    BY <1>1, <1>2, <1>4, <2>1, <2>2
    DEF IInv, RunningInv, RomInv, FlashInv, RestInv, CleanMeansStored, SaveComesBack, On, Sidecar
<1> QED
  BY <1>1, <1>3, <1>4

\* The .flash file is written, and the two files give the cells again.
LEMMA WriteFlashIInv == IInv /\ WriteFlash => IInv'
<1> SUFFICES ASSUME IInv, WriteFlash PROVE IInv'
  OBVIOUS
<1> USE DEF WriteFlash, world, session
<1> DEFINE blocks == Changed(orig, chip.cells)
           f == [g \in blocks |-> chip.cells[g]]
<1>1. /\ how \in {"sidecar", "both"} /\ chip \in Chip /\ chip.cells \in Cells
      /\ orig \in Cells /\ chip.cells # orig /\ rom \in {orig, chip.cells}
  BY SavesAssumption DEF IInv, TypesInv, FlashInv, Sidecar, Chip
<1>2. /\ Reload(rom, f) = chip.cells /\ blocks # {}
      /\ DOMAIN f \subseteq Granule /\ \A g \in DOMAIN f : f[g] \in {0, 1}
  BY <1>1, ReloadChanged
<1>3. sav' = f
  BY <1>2 DEF CartImage
<1>4. phase' = "off" /\ chip' = Clean /\ owed' = {chip.cells} /\ rom' = rom /\ torn' = FALSE
  BY DEF Written
<1> HIDE DEF f, blocks
<1>5. Loaded' = chip.cells
  BY <1>2, <1>3, <1>4 DEF Loaded
<1>6. TypesInv'
  BY <1>1, <1>2, <1>3, <1>4, CleanEffect DEF IInv, TypesInv, SavType
<1>7. RestInv'
  BY <1>1, <1>4, <1>5 DEF IInv, RestInv, FlashInv
<1> QED
  BY <1>4, <1>5, <1>6, <1>7
  DEF IInv, RunningInv, RomInv, FlashInv, CleanMeansStored, SaveComesBack, On

\* A crash leaves the old save or the new one, unless it fell between the two files.
LEMMA CrashIInv == IInv /\ Crash => IInv'
<1> SUFFICES ASSUME IInv, Crash PROVE IInv'
  OBVIOUS
<1> USE DEF Crash, world, files, session
<1>1. Loaded' = Loaded
  BY DEF Loaded
<1>2. TypesInv'
  BY DEF IInv, TypesInv, SavType
<1>3. RestInv'
  BY <1>1 DEF IInv, RestInv, ToRom
<1>4. SaveComesBack'
  <2> SUFFICES ASSUME ~torn, ~(phase = "flash" /\ ToRom)
               PROVE  Loaded \in owed
    BY <1>1 DEF SaveComesBack
  <2>1. CASE phase = "flash"
    BY <2>1 DEF IInv, FlashInv, Sidecar, ToRom
  <2>2. CASE phase # "flash"
    BY <2>2 DEF IInv, TypesInv, RunningInv, RomInv, On
  <2> QED
    BY <2>1, <2>2
<1> QED
  BY <1>1, <1>2, <1>3, <1>4
  DEF IInv, RunningInv, RomInv, FlashInv, CleanMeansStored, On

\* Every step keeps the invariant of the files.
LEMMA NextIInv == IInv /\ [Next]_vars => IInv'
<1> SUFFICES ASSUME IInv, [Next]_vars PROVE IInv'
  OBVIOUS
<1>0. chip \in Chip /\ chip.cells \in Cells /\ part \in Part
  BY SavesAssumption DEF IInv, TypesInv, Chip
<1>1. CASE BusWrite
  <2>1. PICK w \in Tried : chip' = Command(chip, part, w)
    BY <1>1 DEF BusWrite
  <2>2. w \in Cycle
    BY SavesAssumption
  <2>3. chip' \in Chip /\ (~chip'.dirty => chip'.cells = chip.cells /\ ~chip.dirty)
    BY <1>0, <2>1, <2>2, CommandEffect
  <2> QED
    BY <1>1, <2>3, RunningStep DEF BusWrite, On, session, IInv, CleanMeansStored
<1>2. CASE BusRead
  <2>1. chip' \in Chip /\ chip'.cells = chip.cells /\ chip'.dirty = chip.dirty
    BY <1>0, <1>2, ReadBusEffect DEF BusRead
  <2> QED
    BY <1>2, <2>1, RunningStep DEF BusRead, On, session, IInv, CleanMeansStored
<1>3. CASE Elapse
  <2>1. chip' \in Chip /\ chip'.cells = chip.cells /\ chip'.dirty = chip.dirty
    BY <1>0, <1>3, ElapseEffect DEF Elapse
  <2> QED
    BY <1>3, <2>1, RunningStep DEF Elapse, On, session, IInv, CleanMeansStored
<1>4. CASE Reboot
  <2>1. chip' \in Chip /\ chip'.cells = chip.cells /\ chip'.dirty = chip.dirty
    BY <1>0, <1>4, LatchedEffect DEF Reboot
  <2> QED
    BY <1>4, <2>1, RunningStep DEF Reboot, On, session, IInv, CleanMeansStored
<1>5. CASE Handoff
  <2>1. Handed = Loaded /\ Handed \in Cells
    BY <1>5, ReloadType DEF Handoff, Handed, Loaded, IInv, TypesInv, RunningInv, On
  <2>2. chip' \in Chip /\ chip'.cells = Loaded
    BY <1>0, <1>5, <2>1, LatchedEffect DEF Handoff
  <2> QED
    BY <1>5, <2>2, RunningStep DEF Handoff, On, session
<1>6. CASE UNCHANGED vars
  <2>1. Loaded' = Loaded
    BY <1>6 DEF vars, files, Loaded
  <2> QED
    BY <1>6, <2>1
    DEF vars, world, files, session, memory, IInv, TypesInv, SavType, RunningInv, RomInv, FlashInv,
        RestInv, CleanMeansStored, SaveComesBack, ErasedAll, On, ToRom, Sidecar
<1> QED
  BY <1>1, <1>2, <1>3, <1>4, <1>5, <1>6, LaunchIInv, CloseUnchangedIInv, CloseChangedIInv,
     WriteRomIInv, WriteFlashIInv, CrashIInv DEF Next

\* The invariant of the files holds in every reachable state.
LEMMA AlwaysIInv == Spec => []IInv
<1> QED
  BY InitIInv, NextIInv, PTL DEF Spec

\* The next launch finds the save of the last close or, after a crash while closing, that
\* one or the one before (commit_save).
THEOREM SaveComesBackAlways == Spec => []SaveComesBack
<1>1. IInv => SaveComesBack
  BY DEF IInv
<1> QED
  BY <1>1, AlwaysIInv, PTL

\* A cartridge that is not dirty holds what the files would bring back, so that closing
\* without a write loses nothing.
THEOREM CleanMeansStoredAlways == Spec => []CleanMeansStored
<1>1. IInv => CleanMeansStored
  BY DEF IInv
<1> QED
  BY <1>1, AlwaysIInv, PTL

\* No bus cycle changes a cell of a locked block.
THEOREM LockedBlocksStay == Spec => LockedStays
<1>1. IInv /\ [Next]_vars =>
        [BusWrite => \A g \in Granule :
           BlockOf(g) \in chip.locked => chip'.cells[g] = chip.cells[g]]_vars
  <2> SUFFICES ASSUME IInv, BusWrite
               PROVE  \A g \in Granule :
                        BlockOf(g) \in chip.locked => chip'.cells[g] = chip.cells[g]
    OBVIOUS
  <2>1. PICK w \in Tried : chip' = Command(chip, part, w)
    BY DEF BusWrite
  <2>2. w \in Cycle /\ chip \in Chip /\ part \in Part
    BY SavesAssumption DEF IInv, TypesInv
  <2> QED
    BY <2>1, <2>2, CommandEffect
<1> QED
  BY <1>1, AlwaysIInv, PTL DEF Spec, LockedStays

(***************************************************************************)
(* The latch and what it has heard                                         *)
(***************************************************************************)
\* A cycle fits a place of a pattern; the end of a list fits the beginning of a pattern.
Fits(w, place) == w.v \in place[2] /\ place[1] \in {w.at, "any"}
Ends(s, k, pattern) ==
  /\ k <= Len(s)
  /\ \A i \in 1 .. k : Fits(s[Len(s) - k + i], pattern[i])

\* A chip that works, has failed or waits for a datum is not inside an unlock sequence.
Quiet(c) ==
  /\ c.mode \in {"Busy", "Failed", "Write"} => c.step = 0
  /\ c.mode = "Busy" => c.after \notin {"Busy", "Write"}

\* The two sequences of the data sheet, place by place.
LEMMA PatternFacts ==
  /\ Len(ProgramSequence) = 4 /\ Len(EraseSequence) = 6
  /\ \A w \in Cycle :
       /\ Fits(w, ProgramSequence[1]) <=> w.at = "5555" /\ w.v = "AA"
       /\ Fits(w, ProgramSequence[2]) <=> w.at = "2AAA" /\ w.v = "55"
       /\ Fits(w, ProgramSequence[3]) <=> w.at = "5555" /\ w.v = "A0"
       /\ Fits(w, ProgramSequence[4])
       /\ Fits(w, EraseSequence[1]) <=> w.at = "5555" /\ w.v = "AA"
       /\ Fits(w, EraseSequence[2]) <=> w.at = "2AAA" /\ w.v = "55"
       /\ Fits(w, EraseSequence[3]) <=> w.at = "5555" /\ w.v \in {"80", "9A"}
       /\ Fits(w, EraseSequence[4]) <=> w.at = "5555" /\ w.v = "AA"
       /\ Fits(w, EraseSequence[5]) <=> w.at = "2AAA" /\ w.v = "55"
       /\ Fits(w, EraseSequence[6]) <=> w.v \in {"10", "30"}
BY DEF ProgramSequence, EraseSequence, AA, UU, Fits, Cycle, Value

\* A set of small numbers that is not empty has a least one.
LEMMA LeastOfFew ==
  ASSUME NEW S \in SUBSET (1 .. 8), S # {}
  PROVE  Min(S) \in S /\ \A n \in S : Min(S) <= n
<1>1. \E m \in S : \A n \in S : m <= n
  <2> SUFFICES ASSUME \A m \in S : \E n \in S : n < m PROVE FALSE
    OBVIOUS
  <2>1. 1 \notin S
    OBVIOUS
  <2>2. 2 \notin S
    BY <2>1
  <2>3. 3 \notin S
    BY <2>1, <2>2
  <2>4. 4 \notin S
    BY <2>1, <2>2, <2>3
  <2>5. 5 \notin S
    BY <2>1, <2>2, <2>3, <2>4
  <2>6. 6 \notin S
    BY <2>1, <2>2, <2>3, <2>4, <2>5
  <2>7. 7 \notin S
    BY <2>1, <2>2, <2>3, <2>4, <2>5, <2>6
  <2>8. 8 \notin S
    BY <2>1, <2>2, <2>3, <2>4, <2>5, <2>6, <2>7
  <2>9. PICK x \in S : TRUE
    OBVIOUS
  <2>10. x \in {1, 2, 3, 4, 5, 6, 7, 8}
    BY <2>9
  <2> QED
    BY <2>1, <2>2, <2>3, <2>4, <2>5, <2>6, <2>7, <2>8, <2>9, <2>10, Zenon
<1> QED
  <2>1. Min(S) = CHOOSE m \in S : \A n \in S : m <= n
    BY DEF Min
  <2> QED
    BY <1>1, <2>1, Zenon

\* The end of a list, cycle by cycle.
LEMMA SuffixFacts ==
  ASSUME NEW s \in Seq(Cycle), NEW n \in 1 .. Len(s) + 1
  PROVE  LET t == SubSeq(s, n, Len(s)) IN
         /\ t \in Seq(Cycle) /\ Len(t) = Len(s) - n + 1
         /\ \A i \in 1 .. Len(t) : t[i] = s[n - 1 + i]
BY SubSeqProperties

\* Begins, said with Fits.
LEMMA BeginsFits ==
  ASSUME NEW t \in Seq(Cycle), NEW pattern \in {ProgramSequence, EraseSequence}
  PROVE  Begins(t, pattern) <=> Len(t) <= Len(pattern) /\ \A i \in 1 .. Len(t) : Fits(t[i], pattern[i])
BY DEF Begins, Fits

\* The same for a program, and for an erase.
LEMMA BeginsProgram ==
  ASSUME NEW t \in Seq(Cycle)
  PROVE  Begins(t, ProgramSequence) <=>
           Len(t) <= 4 /\ \A i \in 1 .. Len(t) : Fits(t[i], ProgramSequence[i])
<1>1. Len(ProgramSequence) = 4
  BY PatternFacts
<1> QED
  BY <1>1 DEF Begins, Fits

LEMMA BeginsErase ==
  ASSUME NEW t \in Seq(Cycle)
  PROVE  Begins(t, EraseSequence) <=>
           Len(t) <= 6 /\ \A i \in 1 .. Len(t) : Fits(t[i], EraseSequence[i])
<1>1. Len(EraseSequence) = 6
  BY PatternFacts
<1> QED
  BY <1>1 DEF Begins, Fits

\* The history is the longest end of what was heard that begins a pattern.
LEMMA HeardFacts ==
  ASSUME NEW s \in Seq(Cycle), Len(s) <= 7
  PROVE  \E n \in 1 .. Len(s) + 1 :
           /\ Heard(s) = SubSeq(s, n, Len(s))
           /\ Begins(Heard(s), ProgramSequence) \/ Begins(Heard(s), EraseSequence)
           /\ \A m \in 1 .. n - 1 :
                /\ ~Begins(SubSeq(s, m, Len(s)), ProgramSequence)
                /\ ~Begins(SubSeq(s, m, Len(s)), EraseSequence)
<1> DEFINE From(n) == SubSeq(s, n, Len(s))
           starts == {n \in 1 .. Len(s) + 1 :
                        Begins(From(n), ProgramSequence) \/ Begins(From(n), EraseSequence)}
<1>1. Len(s) + 1 \in starts
  <2>1. Len(s) + 1 \in 1 .. Len(s) + 1 /\ Len(s) \in Nat
    OBVIOUS
  <2> DEFINE e == From(Len(s) + 1)
  <2>2. e \in Seq(Cycle) /\ Len(e) = 0
    BY <2>1, SuffixFacts
  <2>3. Begins(e, ProgramSequence)
    <3> HIDE DEF e
    <3>1. Begins(e, ProgramSequence) <=>
            Len(e) <= 4 /\ \A i \in 1 .. Len(e) : Fits(e[i], ProgramSequence[i])
      BY ONLY <2>2, BeginsProgram, Zenon
    <3> QED
      BY <2>2, <3>1
  <2> QED
    BY <2>1, <2>3, Zenon
<1>2. starts \in SUBSET (1 .. 8)
  OBVIOUS
<1>3. Min(starts) \in starts /\ \A n \in starts : Min(starts) <= n
  BY <1>1, <1>2, LeastOfFew
<1>4. Heard(s) = From(Min(starts))
  BY DEF Heard
<1>5. Min(starts) \in 1 .. Len(s) + 1
  BY <1>3
<1>6. \A m \in 1 .. Min(starts) - 1 : m \notin starts
  BY <1>2, <1>3
<1>7. \A m \in 1 .. Min(starts) - 1 :
        ~Begins(From(m), ProgramSequence) /\ ~Begins(From(m), EraseSequence)
  BY <1>5, <1>6
<1> QED
  BY <1>3, <1>4, <1>5, <1>7

\* Hearing keeps the history short, and never forgets the end that begins a pattern.
LEMMA HeardKeeps ==
  ASSUME NEW s \in Seq(Cycle), Len(s) <= 7, NEW pattern \in {ProgramSequence, EraseSequence},
         NEW k \in 0 .. 6, k <= Len(pattern), Ends(s, k, pattern)
  PROVE  Ends(Heard(s), k, pattern)
<1>1. PICK n \in 1 .. Len(s) + 1 :
        /\ Heard(s) = SubSeq(s, n, Len(s))
        /\ \A m \in 1 .. n - 1 : ~Begins(SubSeq(s, m, Len(s)), ProgramSequence)
                                 /\ ~Begins(SubSeq(s, m, Len(s)), EraseSequence)
  BY HeardFacts
<1> DEFINE h == Heard(s)
           m == Len(s) - k + 1
<1>2. Len(s) \in Nat /\ k <= Len(s) /\ m \in 1 .. Len(s) + 1
  BY DEF Ends
<1>3. Begins(SubSeq(s, m, Len(s)), pattern)
  <2> DEFINE t == SubSeq(s, m, Len(s))
  <2>1. t \in Seq(Cycle) /\ Len(t) = k /\ \A i \in 1 .. k : t[i] = s[Len(s) - k + i]
    BY <1>2, SuffixFacts
  <2> HIDE DEF t, m
  <2> QED
    BY <2>1, BeginsFits DEF Ends, t
<1>4. ~(m < n)
  BY <1>1, <1>2, <1>3
<1>5. Len(h) = Len(s) - n + 1 /\ \A i \in 1 .. Len(h) : h[i] = s[n - 1 + i]
  BY <1>1, SuffixFacts
<1> HIDE DEF h
<1>6. k <= Len(h) /\ \A i \in 1 .. k : h[Len(h) - k + i] = s[Len(s) - k + i]
  BY <1>2, <1>4, <1>5
<1> QED
  BY <1>6 DEF Ends, h

\* The history holds at most a whole erase, and begins a program or an erase.
LEMMA HeardShort ==
  ASSUME NEW s \in Seq(Cycle), Len(s) <= 7
  PROVE  /\ Heard(s) \in Seq(Cycle) /\ Len(Heard(s)) <= 6
         /\ Begins(Heard(s), ProgramSequence) \/ Begins(Heard(s), EraseSequence)
<1>1. Heard(s) \in Seq(Cycle)
  BY HeardFacts, SuffixFacts
<1>2. Begins(Heard(s), ProgramSequence) \/ Begins(Heard(s), EraseSequence)
  BY HeardFacts
<1>3. Len(Heard(s)) <= 6
  <2> DEFINE h == Heard(s)
  <2>1. Len(h) <= 4 \/ Len(h) <= 6
    <3> HIDE DEF h
    <3>1. h \in Seq(Cycle) /\ (Begins(h, ProgramSequence) \/ Begins(h, EraseSequence))
      BY <1>1, <1>2 DEF h
    <3> QED
      BY <3>1, BeginsProgram, BeginsErase
  <2>2. Len(h) \in Nat
    BY <1>1
  <2> QED
    BY <2>1, <2>2
<1> QED
  BY <1>1, <1>2, <1>3

\* Lengths, kept apart from the lists they belong to.
LEMMA LenBetween ==
  ASSUME NEW h \in Seq(Cycle), Len(h) <= 6
  PROVE  /\ 6 <= Len(h) => Len(h) = 6
         /\ 4 <= Len(h) => Len(h) \in 4 .. 6
         /\ Len(h) \in {5, 6} => ~(Len(h) <= 4)
<1> DEFINE n == Len(h)
<1>1. n \in Nat
  OBVIOUS
<1> HIDE DEF n
<1>2. n <= 6 => (6 <= n => n = 6) /\ (4 <= n => n \in 4 .. 6)
              /\ (n \in {5, 6} => ~(n <= 4))
  BY <1>1
<1> QED
  BY <1>2 DEF n

\* A list whose end is a whole erase, or a whole program, is remembered as just that.
LEMMA WholeErase ==
  ASSUME NEW h \in Seq(Cycle), Len(h) <= 6, Ends(h, 6, EraseSequence)
  PROVE  Spells(h, EraseSequence)
<1>1. 6 <= Len(h) /\ \A i \in 1 .. 6 : Fits(h[Len(h) - 6 + i], EraseSequence[i])
  BY Zenon DEF Ends
<1>2. Len(h) = 6
  BY <1>1, LenBetween, Zenon
<1>3. \A i \in 1 .. 6 : Fits(h[i], EraseSequence[i])
  BY <1>1, <1>2
<1>4. Begins(h, EraseSequence) /\ Len(EraseSequence) = 6
  BY <1>2, <1>3, BeginsErase, PatternFacts
<1> QED
  BY <1>2, <1>4 DEF Spells

\* A list whose end is a whole program is not inside an erase.
LEMMA WholeProgram ==
  ASSUME NEW h \in Seq(Cycle), Len(h) <= 6, Ends(h, 4, ProgramSequence),
         Begins(h, ProgramSequence) \/ Begins(h, EraseSequence)
  PROVE  Spells(h, ProgramSequence)
<1>e. 4 <= Len(h) /\ \A i \in 1 .. 4 : Fits(h[Len(h) - 4 + i], ProgramSequence[i])
  BY Zenon DEF Ends
<1>0. Len(h) \in 4 .. 6 /\ \A i \in 1 .. Len(h) : h[i] \in Cycle
  <2>1. 4 <= Len(h)
    BY <1>e
  <2>2. \A i \in 1 .. Len(h) : h[i] \in Cycle
    OBVIOUS
  <2> QED
    BY <2>1, <2>2, LenBetween, Zenon
<1>1. Fits(h[Len(h) - 3], ProgramSequence[1])
  BY <1>0, <1>e
<1>2. CASE Len(h) = 4
  <2>1. \A i \in 1 .. 4 : Fits(h[i], ProgramSequence[i])
    BY <1>2, <1>e
  <2>2. Begins(h, ProgramSequence) /\ Len(ProgramSequence) = 4
    <3>1. Begins(h, ProgramSequence) <=>
            Len(h) <= 4 /\ \A i \in 1 .. Len(h) : Fits(h[i], ProgramSequence[i])
      BY ONLY h \in Seq(Cycle), BeginsProgram, Zenon
    <3>2. Len(ProgramSequence) = 4
      BY PatternFacts
    <3> QED
      BY <1>2, <2>1, <3>1, <3>2
  <2> QED
    BY <1>2, <2>2 DEF Spells
<1>3. CASE Len(h) \in {5, 6}
  <2>1. \A i \in 1 .. Len(h) : Fits(h[i], EraseSequence[i])
    <3>1. Begins(h, ProgramSequence) =>
            Len(h) <= 4 /\ \A i \in 1 .. Len(h) : Fits(h[i], ProgramSequence[i])
      BY ONLY h \in Seq(Cycle), BeginsProgram, Zenon
    <3>2. Begins(h, EraseSequence) =>
            Len(h) <= 6 /\ \A i \in 1 .. Len(h) : Fits(h[i], EraseSequence[i])
      BY ONLY h \in Seq(Cycle), BeginsErase, Zenon
    <3>3. ~(Len(h) <= 4)
      BY <1>3, LenBetween, Zenon
    <3> QED
      BY <3>1, <3>2, <3>3, Zenon
  <2>2. CASE Len(h) = 5
    BY <1>0, <1>1, <2>1, <2>2, PatternFacts
  <2>3. CASE Len(h) = 6
    BY <1>0, <1>1, <2>1, <2>3, PatternFacts
  <2> QED
    BY <1>3, <2>2, <2>3
<1> QED
  BY <1>0, <1>2, <1>3

\* One more cycle that fits.
LEMMA HeardLonger ==
  ASSUME NEW s \in Seq(Cycle), Len(s) <= 6, NEW w \in Cycle,
         NEW pattern \in {ProgramSequence, EraseSequence},
         NEW k \in 0 .. 5, k + 1 <= Len(pattern), Ends(s, k, pattern), Fits(w, pattern[k + 1])
  PROVE  Ends(Heard(Append(s, w)), k + 1, pattern)
<1> DEFINE a == Append(s, w)
<1>1. /\ a \in Seq(Cycle) /\ Len(a) = Len(s) + 1 /\ Len(s) \in Nat
      /\ a[Len(s) + 1] = w /\ \A i \in 1 .. Len(s) : a[i] = s[i]
  OBVIOUS
<1> HIDE DEF a
<1>2. Ends(a, k + 1, pattern)
  <2>1. k + 1 <= Len(a)
    BY <1>1 DEF Ends
  <2>2. ASSUME NEW i \in 1 .. k
        PROVE  Fits(a[Len(a) - (k + 1) + i], pattern[i])
    <3>1. /\ Len(a) - (k + 1) + i = Len(s) - k + i /\ Len(s) - k + i \in 1 .. Len(s)
          /\ Fits(s[Len(s) - k + i], pattern[i])
      BY <1>1 DEF Ends
    <3> QED
      BY <1>1, <3>1
  <2>3. Fits(a[Len(a) - (k + 1) + (k + 1)], pattern[k + 1])
    BY <1>1
  <2>4. \A i \in 1 .. k + 1 : i \in 1 .. k \/ i = k + 1
    OBVIOUS
  <2> QED
    BY <2>1, <2>2, <2>3, <2>4 DEF Ends
<1>3. k + 1 \in 0 .. 6 /\ Len(a) <= 7
  BY <1>1
<1> QED
  BY <1>1, <1>2, <1>3, HeardKeeps DEF a

\* What the chip's own steps leave of the latch: nothing half heard, and no wait for a datum.
Rested(c) == c.step = 0 /\ c.mode # "Write" /\ Quiet(c)

\* A window opens on a latch at rest.
LEMMA BeginBusyLatch ==
  ASSUME NEW c \in Chip, NEW p \in Part, NEW after \in {"Read", "Failed", "Ack"}, c.step = 0
  PROVE  Rested(BeginBusy(c, p, after))
BY DEF BeginBusy, Rested, Quiet, Chip, Mode

\* So does an erase,
LEMMA ErasedLatch ==
  ASSUME NEW c \in Chip, NEW p \in Part, NEW blocks, c.step = 0
  PROVE  Rested(Erased(c, p, blocks))
<1> DEFINE now == [g \in Granule |-> IF BlockOf(g) \in blocks THEN 1 ELSE c.cells[g]]
           k == [c EXCEPT !.cells = now, !.dirty = TRUE]
           q == IF blocks = {} THEN "instant" ELSE p
<1>1. k \in Chip /\ k.step = 0
  <2>1. now \in Cells
    BY DEF Chip, Cells
  <2> HIDE DEF now
  <2> QED
    BY <2>1 DEF Chip
<1>2. q \in Part
  BY DEF Part
<1>3. Erased(c, p, blocks) = BeginBusy(k, q, "Ack")
  BY DEF Erased
<1> HIDE DEF k, q
<1> QED
  BY <1>1, <1>2, <1>3, BeginBusyLatch

\* a program,
LEMMA ProgrammedLatch ==
  ASSUME NEW c \in Chip, NEW p \in Part, NEW w \in Cycle, c.locked = {}
  PROVE  Rested(At(Programmed(c, p, w), 0))
<1> DEFINE before == c.cells[w.g]
           now == IF before = 1 THEN Bit(w.v) ELSE 0
           k == [c EXCEPT !.cells[w.g] = now, !.dirty = c.dirty \/ now # before]
           fails == p = "datasheet" /\ before = 0 /\ Bit(w.v) = 1
           after == IF fails THEN "Failed" ELSE "Read"
           b == BeginBusy(k, p, after)
<1>1. k \in Chip
  <2>1. w.g \in Granule /\ now \in {0, 1}
    BY DEF Chip, Cells, Cycle, Bit
  <2>2. [c.cells EXCEPT ![w.g] = now] \in Cells /\ (c.dirty \/ now # before) \in BOOLEAN
    BY <2>1 DEF Chip, Cells
  <2> QED
    BY <2>2 DEF Chip
<1>2. after \in {"Read", "Failed"}
  OBVIOUS
<1>3. Programmed(c, p, w) = b
  BY DEF Programmed
<1> HIDE DEF k, after
<1>4. b \in Chip /\ b.mode \in {"Read", "Busy"} /\ (b.mode = "Busy" => b.after \in {"Read", "Failed"})
  BY <1>1, <1>2 DEF BeginBusy, Chip, Mode
<1> HIDE DEF b
<1> QED
  BY <1>3, <1>4, AtEffect DEF Rested, Quiet

\* and the last cycle of an erase or a protection.
LEMMA OperateLatch ==
  ASSUME NEW c \in Chip, NEW p \in Part, NEW w \in Cycle, c.step = 0,
         c.mode \notin {"Busy", "Failed", "Write"}
  PROVE  Rested(Operate(c, p, w))
<1>1. Rested(c)
  BY DEF Rested, Quiet
<1>2. \A blocks : Rested(Erased(c, p, blocks))
  BY ErasedLatch
<1>3. Rested(EraseAll(c, p)) /\ Rested(EraseBlock(c, p, w))
  BY <1>1, <1>2 DEF EraseAll, EraseBlock
<1>4. Rested(Protected(c, w)) /\ Rested([c EXCEPT !.mode = "Read"])
  BY DEF Protected, Rested, Quiet, Chip
<1> QED
  BY <1>3, <1>4 DEF Operate

\* An unlock sequence goes on only with the cycle that fits it, and only a third cycle of
\* a program makes the chip wait for a datum.
LEMMA UnlockLatch ==
  ASSUME NEW c \in Chip, NEW p \in Part, NEW w \in Cycle,
         c.mode \notin {"Busy", "Failed", "Write"}
  PROVE  /\ Quiet(Unlock(c, p, w))
         /\ Unlock(c, p, w).step # 0 =>
              /\ Unlock(c, p, w).step = c.step + 1 /\ c.step \in 0 .. 4
              /\ Fits(w, EraseSequence[c.step + 1])
         /\ Unlock(c, p, w).mode = "Write" => c.step = 2 /\ w.at = "5555" /\ w.v = "A0"
<1> DEFINE u == Unlock(c, p, w)
<1>0. c.step \in 0 .. 5
  BY DEF Chip
<1>1. \A n \in 0 .. 5 : At(c, n).step = n /\ At(c, n).mode = c.mode
  BY AtEffect
<1>2. CASE u = At(c, 0)
  BY <1>1, <1>2 DEF Quiet
<1>3. CASE c.step \in {0, 1, 3, 4} /\ u # At(c, 0)
  <2>1. u = At(c, c.step + 1) /\ c.step + 1 \in 0 .. 5
    BY <1>3 DEF Unlock
  <2>2. \/ c.step = 0 /\ w.at = "5555" /\ w.v = "AA"
        \/ c.step = 3 /\ w.at = "5555" /\ w.v = "AA"
        \/ c.step = 1 /\ w.at = "2AAA" /\ w.v = "55"
        \/ c.step = 4 /\ w.at = "2AAA" /\ w.v = "55"
    BY <1>3 DEF Unlock
  <2>3. Fits(w, EraseSequence[c.step + 1])
    BY <2>2, PatternFacts
  <2>4. u.step = c.step + 1 /\ u.mode = c.mode
    BY <1>1, <2>1
  <2> QED
    BY <1>3, <2>3, <2>4 DEF Quiet
<1>4. CASE c.step = 2 /\ u # At(c, 0)
  <2>1. w.at = "5555" /\ u = Select(c, w)
    BY <1>4 DEF Unlock
  <2>2. \A m \in {"ReadId", "Write", "Read"} : Enter(c, m).step = 0 /\ Enter(c, m).mode = m
    BY EnterEffect DEF Mode
  <2>3. CASE w.v = "90"
    BY <2>1, <2>2, <2>3 DEF Select, Quiet
  <2>4. CASE w.v = "A0"
    BY <1>4, <2>1, <2>2, <2>4 DEF Select, Quiet
  <2>5. CASE w.v \in {"80", "9A"}
    <3>1. u = At(c, 3)
      BY <2>1, <2>5 DEF Select
    <3>2. u.step = 3 /\ u.mode = c.mode
      BY <1>1, <3>1
    <3>3. Fits(w, EraseSequence[3])
      BY <2>1, <2>5, PatternFacts
    <3> QED
      BY <1>4, <3>2, <3>3 DEF Quiet
  <2>6. CASE w.v \notin {"90", "A0", "80", "9A"}
    BY <2>1, <2>2, <2>6 DEF Select, Quiet
  <2> QED
    BY <2>3, <2>4, <2>5, <2>6
<1>5. CASE c.step = 5 /\ u # At(c, 0)
  <2> DEFINE k == At(c, 0)
  <2>1. u = Operate(k, p, w)
    BY <1>5 DEF Unlock
  <2>2. k \in Chip /\ k.step = 0 /\ k.mode \notin {"Busy", "Failed", "Write"}
    BY <1>1, AtEffect
  <2> HIDE DEF k, u
  <2>3. Rested(u)
    BY <2>1, <2>2, OperateLatch
  <2> QED
    BY <2>3 DEF Rested, u
<1> QED
  BY <1>0, <1>2, <1>3, <1>4, <1>5

\* The same of one write on the bus, whatever the chip was doing.
LEMMA CommandLatch ==
  ASSUME NEW c \in Chip, NEW p \in Part, NEW w \in Cycle, Quiet(c), c.locked = {},
         ~(c.mode = "Busy" /\ c.working)
  PROVE  /\ Quiet(Command(c, p, w))
         /\ Command(c, p, w).step # 0 =>
              /\ Command(c, p, w).step = c.step + 1 /\ c.step \in 0 .. 4
              /\ Fits(w, EraseSequence[c.step + 1])
         /\ Command(c, p, w).mode = "Write" => c.step = 2 /\ w.at = "5555" /\ w.v = "A0"
<1> DEFINE s == Settled(c)
<1>1. /\ s \in Chip /\ s.step = c.step /\ s.locked = {} /\ s.mode # "Busy" /\ Quiet(s)
  <2>1. s \in Chip /\ s.step = c.step /\ s.locked = c.locked
    BY SettledType
  <2>2. CASE c.mode = "Busy"
    <3>1. s.mode = c.after
      BY <2>2 DEF Settled, Chip
    <3> QED
      BY <2>1, <2>2, <3>1 DEF Quiet
  <2>3. CASE c.mode # "Busy"
    BY <2>3 DEF Settled
  <2> QED
    BY <2>1, <2>2, <2>3
<1>2. Command(c, p, w) = IF s.mode = "Busy" THEN s
                         ELSE IF s.mode = "Failed" THEN IF w.v = "F0" THEN Freed(s) ELSE s
                         ELSE IF s.mode = "Write" THEN At(Programmed(s, p, w), 0)
                         ELSE IF w.v = "F0" THEN Freed(s)
                         ELSE Unlock(s, p, w)
  BY DEF Command
<1> HIDE DEF s
<1>3. Freed(s).step = 0 /\ Freed(s).mode = "Read"
  BY <1>1, FreedEffect
<1>4. CASE s.mode = "Failed"
  BY <1>1, <1>2, <1>3, <1>4 DEF Quiet
<1>5. CASE s.mode = "Write"
  <2>1. Rested(At(Programmed(s, p, w), 0))
    BY <1>1, ProgrammedLatch
  <2>2. Command(c, p, w) = At(Programmed(s, p, w), 0)
    BY <1>2, <1>5
  <2> QED
    BY <2>1, <2>2 DEF Rested
<1>6. CASE s.mode \notin {"Failed", "Write"} /\ w.v = "F0"
  BY <1>1, <1>2, <1>3, <1>6 DEF Quiet
<1>7. CASE s.mode \notin {"Failed", "Write"} /\ w.v # "F0"
  <2>1. Command(c, p, w) = Unlock(s, p, w)
    BY <1>1, <1>2, <1>7
  <2> QED
    BY <1>1, <1>7, <2>1, UnlockLatch
<1> QED
  BY <1>4, <1>5, <1>6, <1>7

(***************************************************************************)
(* The latch never knows more than it was told                             *)
(***************************************************************************)
Attentive ==
  /\ Quiet(chip)
  /\ chip.step # 0 => Ends(script, chip.step, EraseSequence)
  /\ chip.mode = "Write" => Ends(script, 3, ProgramSequence)

ScriptInv ==
  /\ script \in Seq(Cycle) /\ Len(script) <= 6
  /\ On /\ chip.locked = {} => Attentive

\* One write on the bus that the chip was free to hear.
LEMMA HeardCycle ==
  ASSUME chip \in Chip, ScriptInv, On, chip.locked = {}, Hears, NEW p \in Part, NEW w \in Cycle,
         chip' = Command(chip, p, w), script' = Heard(Append(script, w))
  PROVE  Attentive'
<1>1. /\ Quiet(chip')
      /\ chip'.step # 0 =>
           /\ chip'.step = chip.step + 1 /\ chip.step \in 0 .. 4
           /\ Fits(w, EraseSequence[chip.step + 1])
      /\ chip'.mode = "Write" => chip.step = 2 /\ w.at = "5555" /\ w.v = "A0"
  BY CommandLatch DEF ScriptInv, Attentive, Hears
<1>2. chip.step # 0 => Ends(script, chip.step, EraseSequence)
  BY DEF ScriptInv, Attentive
<1>3. script \in Seq(Cycle) /\ Len(script) <= 6
  BY DEF ScriptInv
<1>4. \A pattern : Ends(script, 0, pattern)
  BY <1>3 DEF Ends
<1>5. ASSUME chip'.step # 0 PROVE Ends(script', chip'.step, EraseSequence)
  <2> DEFINE k == chip.step
  <2>1. k \in 0 .. 4 /\ chip'.step = k + 1 /\ Fits(w, EraseSequence[k + 1])
    BY <1>1, <1>5
  <2>2. Ends(script, k, EraseSequence)
    BY <1>2, <1>4
  <2> HIDE DEF k
  <2>3. k \in 0 .. 5 /\ k + 1 <= Len(EraseSequence)
    BY <2>1, PatternFacts
  <2>4. Ends(Heard(Append(script, w)), k + 1, EraseSequence)
    BY <1>3, <2>1, <2>2, <2>3, HeardLonger
  <2> QED
    BY <2>1, <2>4
<1>6. ASSUME chip'.mode = "Write" PROVE Ends(script', 3, ProgramSequence)
  <2>1. chip.step = 2 /\ w.at = "5555" /\ w.v = "A0"
    BY <1>1, <1>6
  <2>2. Ends(script, 2, EraseSequence)
    BY <1>2, <2>1
  <2>3. Ends(script, 2, ProgramSequence)
    <3>1. EraseSequence[1] = ProgramSequence[1] /\ EraseSequence[2] = ProgramSequence[2]
      BY DEF EraseSequence, ProgramSequence
    <3> QED
      BY <2>2, <3>1 DEF Ends
  <2>4. Fits(w, ProgramSequence[3])
    BY <2>1, PatternFacts
  <2>5. 2 \in 0 .. 5 /\ 2 + 1 <= Len(ProgramSequence) /\ 2 + 1 = 3
    BY PatternFacts
  <2>6. Ends(Heard(Append(script, w)), 2 + 1, ProgramSequence)
    BY <1>3, <2>3, <2>4, <2>5, HeardLonger
  <2> QED
    BY <2>5, <2>6
<1> QED
  BY <1>1, <1>5, <1>6 DEF Attentive

\* Such a write changes cells only as the last cycle of a whole sequence.
LEMMA HeardCommand ==
  ASSUME chip \in Chip, ScriptInv, On, chip.locked = {}, Hears, NEW p \in Part, NEW w \in Cycle,
         chip' = Command(chip, p, w), script' = Heard(Append(script, w)), NEW g \in Granule
  PROVE  /\ chip'.cells[g] < chip.cells[g] => Spells(script', ProgramSequence)
         /\ chip'.cells[g] > chip.cells[g] => Spells(script', EraseSequence)
<1>1. /\ chip'.cells[g] < chip.cells[g] => Settled(chip).mode = "Write"
      /\ chip'.cells[g] > chip.cells[g] => chip.step = 5 /\ w.v \in {"10", "30"}
  BY CommandEffect
<1>2. script \in Seq(Cycle) /\ Len(script) <= 6 /\ Attentive
  BY DEF ScriptInv
<1>3. Append(script, w) \in Seq(Cycle) /\ Len(Append(script, w)) <= 7
  BY <1>2
<1>4. /\ script' \in Seq(Cycle) /\ Len(script') <= 6
      /\ Begins(script', ProgramSequence) \/ Begins(script', EraseSequence)
  BY <1>3, HeardShort
<1>5. ASSUME chip'.cells[g] < chip.cells[g] PROVE Spells(script', ProgramSequence)
  <2>1. chip.mode = "Write"
    BY <1>1, <1>2, <1>5 DEF Settled, Attentive, Quiet, Chip
  <2>2. Ends(script, 3, ProgramSequence) /\ Fits(w, ProgramSequence[4])
    BY <1>2, <2>1, PatternFacts DEF Attentive
  <2>3. 3 \in 0 .. 5 /\ 3 + 1 <= Len(ProgramSequence) /\ 3 + 1 = 4
    BY PatternFacts
  <2>4. Ends(Heard(Append(script, w)), 3 + 1, ProgramSequence)
    BY <1>2, <2>2, <2>3, HeardLonger
  <2> QED
    BY <1>4, <2>3, <2>4, WholeProgram
<1>6. ASSUME chip'.cells[g] > chip.cells[g] PROVE Spells(script', EraseSequence)
  <2>1. chip.step = 5 /\ w.v \in {"10", "30"}
    BY <1>1, <1>6
  <2>2. Ends(script, 5, EraseSequence) /\ Fits(w, EraseSequence[6])
    BY <1>2, <2>1, PatternFacts DEF Attentive
  <2>3. 5 \in 0 .. 5 /\ 5 + 1 <= Len(EraseSequence) /\ 5 + 1 = 6
    BY PatternFacts
  <2>4. Ends(Heard(Append(script, w)), 5 + 1, EraseSequence)
    BY <1>2, <2>2, <2>3, HeardLonger
  <2> QED
    BY <1>4, <2>3, <2>4, WholeErase
<1> QED
  BY <1>5, <1>6

\* A reset, and a cartridge put in the slot, start with nothing heard.
LEMMA FreshAttentive ==
  ASSUME chip'.mode = "Read", chip'.step = 0
  PROVE  Attentive'
BY DEF Attentive, Quiet

\* Nothing is heard before the first launch.
LEMMA InitScript == Init => ScriptInv
<1> SUFFICES ASSUME Init PROVE ScriptInv
  OBVIOUS
<1>1. script = << >> /\ ~On
  BY DEF Init, On
<1>2. << >> \in Seq(Cycle) /\ Len(<< >>) = 0
  OBVIOUS
<1> QED
  BY <1>1, <1>2 DEF ScriptInv

\* Every step keeps the latch no wiser than what it heard.
LEMMA NextScript == IInv /\ ScriptInv /\ [Next]_vars => ScriptInv'
<1> SUFFICES ASSUME IInv, ScriptInv, [Next]_vars PROVE ScriptInv'
  OBVIOUS
<1>0. chip \in Chip /\ chip.cells \in Cells /\ part \in Part /\ script \in Seq(Cycle) /\ Len(script) <= 6
  BY SavesAssumption DEF IInv, TypesInv, Chip, ScriptInv
<1>e. << >> \in Seq(Cycle) /\ Len(<< >>) <= 6
  OBVIOUS
<1>1. CASE BusWrite
  <2>1. PICK w \in Tried : chip' = Command(chip, part, w) /\ script' = Later(w)
    BY <1>1 DEF BusWrite
  <2>2. w \in Cycle /\ On /\ (On' <=> On)
    BY <1>1, SavesAssumption DEF BusWrite, On
  <2>3. CASE Hears
    <3>1. script' = Heard(Append(script, w))
      BY <2>1, <2>3 DEF Later
    <3>2. Append(script, w) \in Seq(Cycle) /\ Len(Append(script, w)) <= 7
      BY <1>0, <2>2
    <3>3. script' \in Seq(Cycle) /\ Len(script') <= 6
      BY <3>1, <3>2, HeardShort
    <3>4. chip'.locked = {} => chip.locked = {}
      BY <1>0, <2>1, <2>2, CommandEffect
    <3>5. chip.locked = {} => Attentive'
      BY <1>0, <2>1, <2>2, <2>3, <3>1, HeardCycle
    <3> QED
      BY <3>3, <3>4, <3>5 DEF ScriptInv
  <2>4. CASE ~Hears
    <3>1. chip' = chip /\ script' = script
      BY <1>0, <2>1, <2>2, <2>4, CommandEffect DEF Hears, Later
    <3> QED
      BY <2>2, <3>1 DEF ScriptInv, Attentive
  <2> QED
    BY <2>3, <2>4
<1>2. CASE BusRead
  <2>1. /\ script' = script /\ On /\ chip' = ReadBus(chip)
    BY <1>2 DEF BusRead
  <2>2. chip'.locked = chip.locked
    BY <1>0, <2>1 DEF ReadBus, Settled, Chip
  <2>3. Attentive => Attentive'
    BY <1>0, <2>1 DEF ReadBus, Settled, Chip, Mode, Attentive, Quiet
  <2> QED
    BY <2>1, <2>2, <2>3 DEF ScriptInv
<1>3. CASE Elapse
  <2>1. script' = script /\ On /\ chip' = [chip EXCEPT !.working = FALSE]
    BY <1>3 DEF Elapse
  <2>2. /\ chip'.locked = chip.locked /\ chip'.mode = chip.mode
        /\ chip'.after = chip.after /\ chip'.step = chip.step
    BY <1>0, <2>1 DEF Chip
  <2>3. Attentive => Attentive'
    BY <2>1, <2>2 DEF Attentive, Quiet
  <2> QED
    BY <2>1, <2>2, <2>3 DEF ScriptInv
<1>4. CASE Reboot \/ Handoff \/ Launch
  <2>1. script' = << >>
    BY <1>4 DEF Reboot, Handoff, Launch
  <2>2. chip'.mode = "Read" /\ chip'.step = 0
    <3>1. \A x : Latched(chip, x).mode = "Read" /\ Latched(chip, x).step = 0
                 /\ [Latched(chip, x) EXCEPT !.dirty = FALSE].mode = "Read"
                 /\ [Latched(chip, x) EXCEPT !.dirty = FALSE].step = 0
      BY <1>0 DEF Latched, Chip
    <3>2. \A x : Inserted(x).mode = "Read" /\ Inserted(x).step = 0
      BY DEF Inserted
    <3> QED
      BY <1>4, <3>1, <3>2 DEF Reboot, Handoff, Launch
  <2> QED
    BY <1>e, <2>1, <2>2, FreshAttentive DEF ScriptInv
<1>5. CASE CloseUnchanged \/ CloseChanged \/ WriteRom \/ WriteFlash \/ Crash
  <2>1. script' = script /\ ~On'
    BY <1>5 DEF CloseUnchanged, CloseChanged, WriteRom, WriteFlash, Crash, Written, On
  <2> QED
    BY <1>0, <2>1 DEF ScriptInv
<1>6. CASE UNCHANGED vars
  BY <1>6 DEF vars, ScriptInv, Attentive, On
<1> QED
  BY <1>1, <1>2, <1>3, <1>4, <1>5, <1>6 DEF Next

\* Both invariants hold in every reachable state.
LEMMA AlwaysScript == Spec => [](IInv /\ ScriptInv)
<1>1. Init => IInv /\ ScriptInv
  BY InitIInv, InitScript
<1>2. IInv /\ ScriptInv /\ [Next]_vars => (IInv /\ ScriptInv)'
  BY NextIInv, NextScript
<1> QED
  BY <1>1, <1>2, PTL DEF Spec

\* While no block is locked, a cell changes only at the end of a whole command: whatever
\* the game writes, the chip never acts on a sequence it did not hear from the start.
THEOREM OnlyCommandsChange == Spec => OnlyCommandsChangeCells
<1>1. IInv /\ ScriptInv /\ [Next]_vars =>
        [BusWrite /\ chip.locked = {} =>
           \A g \in Granule :
             /\ chip'.cells[g] < chip.cells[g] => Spells(script', ProgramSequence)
             /\ chip'.cells[g] > chip.cells[g] => Spells(script', EraseSequence)]_vars
  <2> SUFFICES ASSUME IInv, ScriptInv, BusWrite, chip.locked = {}, NEW g \in Granule
               PROVE  /\ chip'.cells[g] < chip.cells[g] => Spells(script', ProgramSequence)
                      /\ chip'.cells[g] > chip.cells[g] => Spells(script', EraseSequence)
    OBVIOUS
  <2>1. PICK w \in Tried : chip' = Command(chip, part, w) /\ script' = Later(w)
    BY DEF BusWrite
  <2>2. w \in Cycle /\ chip \in Chip /\ part \in Part /\ On
    BY SavesAssumption DEF IInv, TypesInv, BusWrite
  <2>3. CASE Hears
    BY <2>1, <2>2, <2>3, HeardCommand DEF Later
  <2>4. CASE ~Hears
    <3>1. chip' = chip /\ chip.cells[g] \in {0, 1}
      BY <2>1, <2>2, <2>4, CommandEffect DEF Hears, Chip, Cells
    <3> QED
      BY <3>1
  <2> QED
    BY <2>3, <2>4
<1> QED
  BY <1>1, AlwaysScript, PTL DEF Spec, OnlyCommandsChangeCells
=============================================================================
