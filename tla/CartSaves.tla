----------------------------- MODULE CartSaves -----------------------------
(***************************************************************************)
(* A cartridge and its saves (core/native_session.py, core/flash_file.py,  *)
(* ngpc_shell.py, with the chip of FlashChip): a game drives the chip cycle*)
(* by cycle, the session is rebooted, handed over from the BIOS or closed, *)
(* and closing commits the cells to the ROM file, to a .flash file beside  *)
(* it, or to both, in that order.  The program may die at any moment.      *)
(*                                                                         *)
(* Both files are written beside their target and renamed, so a write is   *)
(* one step.  A file that cannot be written ends the session like a crash: *)
(* PlayPage.stop drops the exception.  sav is the content of the .flash    *)
(* file: a function from the granules it holds.  The player keeps one save *)
(* mode (how) and one kind of chip (part).                                 *)
(***************************************************************************)
EXTENDS FlashChip, SequencesExt

CONSTANTS
  MaxLaunches, \* bound of the model: sessions
  Modes,       \* save modes tried: subset of {"rom", "both", "sidecar"}
  Parts,       \* chips tried
  Pristine,    \* the cartridges tried, as bought
  Tried        \* the bus cycles tried

ASSUME SavesAssumption ==
  /\ MaxLaunches \in Nat \ {0} /\ Modes \subseteq {"rom", "both", "sidecar"}
  /\ Parts \subseteq Part /\ Pristine \subseteq Cells /\ Tried \subseteq Cycle

VARIABLES
  how, part,
  rom, sav,   \* the two files
  launches,   \* how often the game was started
  phase,      \* "off", "bios", "game", or the file being written: "rom", "flash"
  chip,
  orig,       \* _rom and _orig_rom, and the image the core reloads on a reset
  script,     \* history: the last cycles the chip was free to hear, the newest last
  owed,       \* history: images the player may find at the next launch
  torn        \* history: a crash fell between the two files

world == <<how, part>>
files == <<rom, sav>>
session == <<launches, orig>>
memory == <<owed, torn>>
vars == <<world, files, session, phase, chip, script, memory>>

On == phase \in {"bios", "game"}
ToRom == how \in {"rom", "both"}
Sidecar == how \in {"sidecar", "both"}

\* The .flash file laid over the ROM file, which is what a launch puts in the slot.
Reload(image, blocks) ==
  [g \in Granule |-> IF g \in DOMAIN blocks THEN blocks[g] ELSE image[g]]

Init ==
  /\ how \in Modes /\ part \in Parts
  /\ rom \in Pristine /\ sav = [g \in {} |-> 0]
  /\ launches = 0 /\ phase = "off"
  /\ chip = Inserted(rom) /\ orig = rom /\ script = <<>>
  /\ owed = {rom} /\ torn = FALSE

\* NativeSession.__init__, with the fast boot or through the real BIOS.
Launch ==
  /\ phase = "off" /\ launches < MaxLaunches
  /\ launches' = launches + 1 /\ phase' \in {"bios", "game"}
  /\ chip' = Inserted(Reload(rom, sav))
  /\ orig' = rom /\ script' = <<>> /\ owed' = {Reload(rom, sav)}
  /\ UNCHANGED <<world, files, torn>>

----------------------------------------------------------------------------
(* The running console.                                                    *)

Hears == ~(chip.mode = "Busy" /\ chip.working)

\* What the chip maker's sheet calls a command, as lists of <<address, values>>.  The
\* history keeps the longest end of what was heard that a command may begin with.
AA == <<"5555", {"AA"}>>
UU == <<"2AAA", {"55"}>>
ProgramSequence == <<AA, UU, <<"5555", {"A0"}>>, <<"any", Value>>>>
EraseSequence == <<AA, UU, <<"5555", {"80", "9A"}>>, AA, UU, <<"any", {"10", "30"}>>>>

Begins(s, pattern) ==
  /\ Len(s) <= Len(pattern)
  /\ \A i \in DOMAIN s : s[i].v \in pattern[i][2] /\ pattern[i][1] \in {s[i].at, "any"}
Spells(s, pattern) == Begins(s, pattern) /\ Len(s) = Len(pattern)

Heard(s) ==
  LET From(n) == SubSeq(s, n, Len(s))
      starts == {n \in 1 .. Len(s) + 1 :
                   Begins(From(n), ProgramSequence) \/ Begins(From(n), EraseSequence)}
  IN From(Min(starts))

Later(w) == IF Hears THEN Heard(Append(script, w)) ELSE script

BusWrite ==
  /\ On
  /\ \E w \in Tried : chip' = Command(chip, part, w) /\ script' = Later(w)
  /\ UNCHANGED <<world, files, session, phase, memory>>

BusRead ==
  /\ On /\ chip' = ReadBus(chip)
  /\ UNCHANGED <<world, files, session, phase, script, memory>>

\* The chip's clock passes the end of the window.
Elapse ==
  /\ On /\ chip.working /\ chip' = [chip EXCEPT !.working = FALSE]
  /\ UNCHANGED <<world, files, session, phase, script, memory>>

\* Power off, power on: the cells are carried across the reset.
Reboot ==
  /\ On /\ chip' = Latched(chip, chip.cells) /\ script' = <<>>
  /\ UNCHANGED <<world, files, session, phase, memory>>

\* mutant of Handed: the image alone, which was the bug of the separate file
HandedBare == orig

Handed == Reload(orig, sav)

\* The BIOS hands the console to the cartridge: the reset reloads the image, and the
\* save file is read again (_restore_save, which calls the cartridge clean).
Handoff ==
  /\ phase = "bios" /\ phase' = "game"
  /\ script' = <<>>
  /\ chip' = [Latched(chip, Handed) EXCEPT !.dirty = FALSE]
  /\ UNCHANGED <<world, files, session, memory>>

----------------------------------------------------------------------------
(* commit_save, from close().                                              *)

\* mutant of CartImage: through the bus, where a chip that is not memory answers status
CartImageBus(c) == IF Settled(c).mode = "Read" THEN c.cells ELSE [g \in Granule |-> 0]

CartImage(c) == c.cells

\* diff_blocks: what is no longer the ROM file, an erase included.
Changed(old, new) == {g \in Granule : old[g] # new[g]}

Clean == [chip EXCEPT !.dirty = FALSE]

\* Nothing to write: not dirty, or the cells are those of the ROM file.
CloseUnchanged ==
  /\ On /\ (~chip.dirty \/ CartImage(chip) = orig)
  /\ phase' = "off" /\ chip' = Clean /\ owed' = {chip.cells}
  /\ UNCHANGED <<world, files, session, script, torn>>

CloseChanged ==
  /\ On /\ chip.dirty /\ CartImage(chip) # orig
  /\ phase' = IF ToRom THEN "rom" ELSE "flash"
  /\ owed' = owed \cup {chip.cells}
  /\ UNCHANGED <<world, files, session, chip, script, torn>>

Written == phase' = "off" /\ chip' = Clean /\ owed' = {chip.cells}

WriteRom ==
  /\ phase = "rom" /\ rom' = CartImage(chip)
  /\ IF Sidecar THEN phase' = "flash" /\ UNCHANGED <<chip, owed>> ELSE Written
  /\ UNCHANGED <<world, sav, session, script, torn>>

\* flash_file.write: no block, no file, and the old one stays.
WriteFlash ==
  /\ phase = "flash"
  /\ LET blocks == Changed(orig, CartImage(chip)) IN
     sav' = IF blocks = {} THEN sav ELSE [g \in blocks |-> CartImage(chip)[g]]
  /\ Written /\ torn' = FALSE
  /\ UNCHANGED <<world, rom, session, script>>

\* The program dies, or the disk refuses the file.
Crash ==
  /\ phase # "off" /\ phase' = "off"
  /\ torn' = (torn \/ (phase = "flash" /\ ToRom))
  /\ UNCHANGED <<world, files, session, chip, script, owed>>

----------------------------------------------------------------------------

Next ==
  \/ Launch \/ BusWrite \/ BusRead \/ Elapse \/ Reboot \/ Handoff
  \/ CloseUnchanged \/ CloseChanged \/ WriteRom \/ WriteFlash \/ Crash

Spec == Init /\ [][Next]_vars

----------------------------------------------------------------------------
(* Properties.                                                             *)

\* Type invariant of the chip, the files and the session.
TypeOK ==
  /\ how \in Modes /\ part \in Parts /\ launches \in 0 .. MaxLaunches
  /\ phase \in {"off", "bios", "game", "rom", "flash"}
  /\ {rom, orig} \subseteq Cells /\ chip \in Chip
  /\ DOMAIN sav \subseteq Granule /\ (\A g \in DOMAIN sav : sav[g] \in {0, 1})
  /\ script \in Seq(Cycle) /\ owed \subseteq Cells /\ torn \in BOOLEAN

Loaded == Reload(rom, sav)

\* The player keeps his save beside the ROM and has erased all he ever saved.
ErasedAll == how = "sidecar" /\ owed = {rom}

\* The next launch finds the save of the last close or, if the program died while it was
\* closing, that one or the one before.  Not promised to a player who keeps both files
\* after a crash between them, until the next commit.
SaveComesBack == phase = "off" /\ ~ErasedAll /\ ~torn => Loaded \in owed

\* An erase is a change that survives a reload (flash_file.py:57).
EraseSurvives == phase = "off" /\ ~torn => Loaded \in owed

\* A chip that is not dirty holds what the files would bring back.
CleanMeansStored == On /\ ~chip.dirty => Loaded = chip.cells

\* The cells change only at the last cycle of a whole program or erase sequence that
\* the chip was free to hear: down by a program, up by an erase, no locked block ever.
OnlyCommandsChangeCells ==
  [][BusWrite /\ chip.locked = {} =>
       \A g \in Granule :
         /\ chip'.cells[g] < chip.cells[g] => Spells(script', ProgramSequence)
         /\ chip'.cells[g] > chip.cells[g] => Spells(script', EraseSequence)]_vars

\* A locked block never changes while the console runs.
LockedStays ==
  [][BusWrite => \A g \in Granule :
       BlockOf(g) \in chip.locked => chip'.cells[g] = chip.cells[g]]_vars
============================================================================
