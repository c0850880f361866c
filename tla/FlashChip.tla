----------------------------- MODULE FlashChip -----------------------------
(***************************************************************************)
(* One flash die of a cartridge (cpp/src/memory.cpp, core.cpp): the AMD    *)
(* command latch, the window in which the chip works, and the cells.       *)
(*                                                                         *)
(* A chip is a record.  A granule stands for the 256 bytes the save files  *)
(* count in, an erase block is a set of granules.  A cell is represented by*)
(* one bit: 1 is erased, programming is AND.  A write on the cartridge's   *)
(* bus is [at, g, v]: whether its address ends in 0x5555, in 0x2AAA or in  *)
(* neither, the granule it falls in, and its value.                        *)
(* Left out: the card's capacity, which a game may correct, and the second *)
(* die, whose latch is a copy of this one.                                 *)
(***************************************************************************)
EXTENDS Naturals

CONSTANTS
  Granule,
  Block        \* the erase blocks: a partition of Granule

ASSUME BlocksPartition ==
  /\ Block \subseteq SUBSET Granule
  /\ \A g \in Granule : \E b \in Block : g \in b
  /\ \A b, d \in Block : b # d => b \cap d = {}

Value == {"AA", "55", "90", "A0", "80", "9A", "10", "30", "F0"}
Cycle == [at : {"5555", "2AAA", "data"}, g : Granule, v : Value]
Mode == {"Read", "ReadId", "Write", "Ack", "Busy", "Failed"}
Part == {"measured", "instant", "datasheet"}

Cells == [Granule -> {0, 1}]
BlockOf(g) == CHOOSE b \in Block : g \in b

\* The bit of a byte that a cell keeps: bit 7.
Bit(v) == IF v \in {"55", "10", "30"} THEN 0 ELSE 1

Chip == [mode : Mode, step : 0 .. 5, after : Mode, working : BOOLEAN,
         cells : Cells, locked : SUBSET Block, dirty : BOOLEAN]

Inserted(cells) == [mode |-> "Read", step |-> 0, after |-> "Read", working |-> FALSE,
                    cells |-> cells, locked |-> {}, dirty |-> FALSE]

\* ngpc_reset: the command latch goes, the cells are what the loader says, dirty stays.
Latched(c, cells) ==
  [c EXCEPT !.mode = "Read", !.step = 0, !.after = "Read", !.working = FALSE, !.cells = cells]

----------------------------------------------------------------------------
(* Programming and erasing.  part is how the chip takes its time: the one  *)
(* measured, one without windows, and one that fails a program which asks a*)
(* 0 back up, as the datasheet says (ngpc_set_flash_timing).  A window that*)
(* never closes cannot be set: the setter's arguments have 32 bits.        *)

BeginBusy(c, part, after) ==
  IF part = "instant" THEN [c EXCEPT !.mode = IF after = "Failed" THEN "Read" ELSE after]
  ELSE [c EXCEPT !.mode = "Busy", !.working = TRUE, !.after = after]

\* A cell only goes down; a locked block takes nothing, and leaves the latch as it is.
Programmed(c, part, w) ==
  LET before == c.cells[w.g]
      now == IF before = 1 THEN Bit(w.v) ELSE 0
      fails == part = "datasheet" /\ before = 0 /\ Bit(w.v) = 1
  IN IF BlockOf(w.g) \in c.locked THEN c
     ELSE BeginBusy([c EXCEPT !.cells[w.g] = now, !.dirty = c.dirty \/ now # before],
                    part, IF fails THEN "Failed" ELSE "Read")

Erased(c, part, blocks) ==
  BeginBusy([c EXCEPT !.cells = [g \in Granule |-> IF BlockOf(g) \in blocks THEN 1 ELSE c.cells[g]],
                      !.dirty = TRUE],
            IF blocks = {} THEN "instant" ELSE part, "Ack")

EraseBlock(c, part, w) ==
  IF BlockOf(w.g) \in c.locked THEN c ELSE Erased(c, part, {BlockOf(w.g)})

EraseAll(c, part) == Erased(c, part, Block \ c.locked)

Protected(c, w) ==
  [c EXCEPT !.locked = @ \cup {BlockOf(w.g)}, !.dirty = TRUE, !.mode = "Read"]

----------------------------------------------------------------------------
(* flash_command.                                                          *)

\* mutant of Settled: a working chip listens
SettledDeaf(c) == IF c.mode = "Busy" THEN [c EXCEPT !.mode = c.after] ELSE c

\* A window that is over: the chip is what it was to become.
Settled(c) == IF c.mode = "Busy" /\ ~c.working THEN [c EXCEPT !.mode = c.after] ELSE c

Freed(c) == [c EXCEPT !.mode = "Read", !.step = 0]
At(c, n) == [c EXCEPT !.step = n]
Enter(c, m) == [c EXCEPT !.mode = m, !.step = 0]

\* The second half of an erase or of a protection.
Operate(c, part, w) ==
  IF w.at = "5555" /\ w.v = "10" THEN EraseAll(c, part)
  ELSE IF w.v = "30" THEN EraseBlock(c, part, w)
  ELSE IF w.v = "9A" THEN Protected(c, w)
  ELSE [c EXCEPT !.mode = "Read"]

\* The third cycle of a sequence.
Select(c, w) ==
  IF w.v = "90" THEN Enter(c, "ReadId")
  ELSE IF w.v = "A0" THEN Enter(c, "Write")
  ELSE IF w.v \in {"80", "9A"} THEN At(c, 3)
  ELSE Enter(c, "Read")

Unlock(c, part, w) ==
  IF c.step \in {0, 3} /\ w.at = "5555" /\ w.v = "AA" THEN At(c, c.step + 1)
  ELSE IF c.step \in {1, 4} /\ w.at = "2AAA" /\ w.v = "55" THEN At(c, c.step + 1)
  ELSE IF c.step = 2 /\ w.at = "5555" THEN Select(c, w)
  ELSE IF c.step = 5 THEN Operate(At(c, 0), part, w)
  ELSE At(c, 0)

Command(chip, part, w) ==
  LET c == Settled(chip) IN
  IF c.mode = "Busy" THEN c
  ELSE IF c.mode = "Failed" THEN IF w.v = "F0" THEN Freed(c) ELSE c
  ELSE IF c.mode = "Write" THEN At(Programmed(c, part, w), 0)
  ELSE IF w.v = "F0" THEN Freed(c)
  ELSE Unlock(c, part, w)

(* flash_id_read: what a read of the window does to the chip.              *)
ReadBus(chip) ==
  LET c == Settled(chip) IN IF c.mode = "Ack" THEN [c EXCEPT !.mode = "Read"] ELSE c
=============================================================================
