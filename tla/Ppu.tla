--------------------------------- MODULE Ppu ---------------------------------
(***************************************************************************)
(* Two processors draw a DMG game: at each H-Blank the CPU (ppu.c) writes  *)
(* what the line needs from its cache to memory and raises a ready flag;   *)
(* the RSP (rsp/ppuDMG.rsp) polls the flag, lowers it, copies what it      *)
(* needs by DMA, piece by piece, and draws.  As built neither waits for    *)
(* the other.                                                              *)
(*                                                                         *)
(* A region of Game Boy memory is represented by the number of times the   *)
(* game changed it.  HRAM holds the LCD's registers and changes with every *)
(* line, so its number also tells which line CurrentLine says it is.       *)
(***************************************************************************)
EXTENDS Integers

CONSTANTS
  Height,             (* GB_LCD_HEIGHT, the visible lines of a frame        *)
  Lines,              (* GB_LCD_LY_MAX + 1, all lines of a frame            *)
  LOCK_CPU_TO_PPU,    (* a switch of config.h, off as built                 *)
  MaxLines,           (* bound on the lines that pass                       *)
  MaxChanges          (* bound on the changes of OAM and of VRAM            *)

ASSUME LinesAssumption ==
  /\ Height \in Nat \ {0} /\ Lines \in Nat /\ Height < Lines
  /\ MaxLines \in Nat /\ MaxChanges \in Nat
ASSUME LockAssumption == LOCK_CPU_TO_PPU \in BOOLEAN

Regions == {"HRAM", "OAM", "VRAM"}
CurrentLine(hram) == hram % Lines

VARIABLES
  cached,       (* the regions as the CPU sees them, through its data cache *)
  memory,       (* the regions as a DMA of the RSP finds them               *)
  written,      (* the video memory as the game last wrote it               *)
  isVramDirty,
  cpu,          (* where the CPU is in its line                             *)
  ready,        (* SP_STATUS_GET_IS_READY, set and cleared by either side   *)
  busy,         (* SP_STATUS_GET_IS_BUSY                                    *)
  rsp,          (* where the RSP is in its main loop                        *)
  line,         (* the regions as the RSP has copied them for its line      *)
  announced,    (* history: the regions when the flag was last raised       *)
  claimed,      (* history: announced, when the RSP last lowered the flag   *)
  served        (* history: the registers of the last turn of the RSP       *)

cpuVars == <<cached, written, isVramDirty, cpu, announced>>
rspVars == <<rsp, line, claimed, served>>
pictureVars == <<cpuVars, memory, ready, busy, rspVars>>

Nothing == [r \in Regions |-> 0]

(* A game was started: its video memory is cleared in the cache only.      *)
PictureInit ==
  /\ cached = [Nothing EXCEPT !["VRAM"] = 1] /\ memory = Nothing
  /\ written = 0
  /\ isVramDirty = FALSE
  /\ cpu = "line"
  /\ ready = FALSE /\ busy = FALSE
  /\ rsp = "wait"
  /\ line = Nothing /\ announced = Nothing /\ claimed = Nothing
  /\ served = 0

-----------------------------------------------------------------------------
(***************************************************************************)
(* The CPU.                                                                *)
(***************************************************************************)

(* The game changes sprites or, through writeVRAM, video memory.           *)
GameWrites(r) ==
  /\ cpu \in {"line", "hblank"}
  /\ cached[r] < MaxChanges
  /\ cached' = [cached EXCEPT ![r] = @ + 1]
  /\ written' = IF r = "VRAM" THEN cached[r] + 1 ELSE written
  /\ isVramDirty' = (isVramDirty \/ r = "VRAM")
  /\ UNCHANGED <<memory, cpu, announced, ready, busy, rspVars>>

(* The cache makes room and writes a region back on its own account.       *)
Evict(r) ==
  /\ memory' = [memory EXCEPT ![r] = cached[r]]
  /\ UNCHANGED <<cpuVars, ready, busy, rspVars>>

(* lcd_step leaves H-Blank or V-Blank for the next line.                   *)
NextLine ==
  /\ cpu = "hblank"
  /\ cached["HRAM"] < MaxLines
  /\ cached' = [cached EXCEPT !["HRAM"] = @ + 1]
  /\ cpu' = "line"
  /\ UNCHANGED <<memory, written, isVramDirty, announced, ready, busy,
                 rspVars>>

(* Mutant: video memory is taken for clean without being written back.     *)
WritebackVramForgotten ==
  /\ cpu = "VRAM"
  /\ isVramDirty' = FALSE
  /\ cpu' = "announce"
  /\ UNCHANGED <<cached, written, announced, memory, ready, busy, rspVars>>

(* H-Blank is entered: ppuStep returns at once below the screen.           *)
PpuStep ==
  /\ cpu = "line"
  /\ cpu' = IF CurrentLine(cached["HRAM"]) >= Height THEN "hblank" ELSE "OAM"
  /\ UNCHANGED <<cached, written, isVramDirty, announced, memory, ready,
                 busy, rspVars>>

(* data_cache_hit_writeback of OAM and HRAM, and of VRAM if it is dirty.   *)
Writeback(r, next) ==
  /\ cpu = r
  /\ memory' = [memory EXCEPT ![r] = cached[r]]
  /\ cpu' = next
  /\ UNCHANGED <<cached, written, isVramDirty, announced, ready, busy,
                 rspVars>>

WritebackVram ==
  /\ cpu = "VRAM"
  /\ IF isVramDirty
     THEN memory' = [memory EXCEPT !["VRAM"] = cached["VRAM"]]
     ELSE UNCHANGED memory
  /\ isVramDirty' = FALSE
  /\ cpu' = "announce"
  /\ UNCHANGED <<cached, written, announced, ready, busy, rspVars>>

(* setDataReady(true), which only a build with the lock has wait.          *)
SetDataReady ==
  /\ cpu = "announce"
  /\ LOCK_CPU_TO_PPU => ~busy
  /\ ready' = TRUE
  /\ announced' = [cached EXCEPT !["VRAM"] = written]
  /\ cpu' = "hblank"
  /\ UNCHANGED <<cached, written, isVramDirty, memory, busy, rspVars>>

(* Reset, from the menu, which opens between two frames: the registers are *)
(* back at line 0 and video memory is allocated anew and cleared, without  *)
(* a word to the dirty flag.                                               *)
ResetPlayState ==
  /\ cpu = "line"
  /\ CurrentLine(cached["HRAM"]) = Height
  /\ cached["VRAM"] < MaxChanges
  /\ LET first == cached["HRAM"] + (Lines - Height)
     IN  /\ first <= MaxLines
         /\ cached' = [cached EXCEPT !["HRAM"] = first, !["VRAM"] = @ + 1]
  /\ cpu' = "reset"
  /\ UNCHANGED <<memory, written, isVramDirty, announced, ready, busy,
                 rspVars>>

(* ppuInit: prepareMicrocode loads data and code over the memories of an   *)
(* RSP that nothing halted, so that whatever it has copied for its line is *)
(* gone, and clears BUSY.  Then comes setDataReady(false), and run_ucode   *)
(* starts the RSP again at main.                                           *)
PrepareMicrocode ==
  /\ cpu = "reset"
  /\ busy' = FALSE
  /\ line' = Nothing
  /\ cpu' = "restart"
  /\ UNCHANGED <<cached, written, isVramDirty, announced, memory, ready,
                 rsp, claimed, served>>

RunUcode ==
  /\ cpu = "restart"
  /\ ready' = FALSE
  /\ rsp' = "wait"
  /\ announced' = Nothing
  /\ cpu' = "line"
  /\ UNCHANGED <<cached, written, isVramDirty, memory, busy, line, claimed,
                 served>>

CpuStep ==
  \/ \E r \in {"OAM", "VRAM"} : GameWrites(r)
  \/ NextLine
  \/ PpuStep
  \/ Writeback("OAM", "HRAM")
  \/ Writeback("HRAM", "VRAM")
  \/ WritebackVram
  \/ SetDataReady
  \/ ResetPlayState
  \/ PrepareMicrocode
  \/ RunUcode

-----------------------------------------------------------------------------
(***************************************************************************)
(* The RSP: the main loop of ppuDMG.rsp.                                   *)
(***************************************************************************)

(* The flag is polled, and lowered two instructions later.                 *)
Poll ==
  /\ rsp = "wait"
  /\ ready
  /\ rsp' = "claim"
  /\ UNCHANGED <<cpuVars, memory, ready, busy, line, claimed, served>>

Claim ==
  /\ rsp = "claim"
  /\ ready' = FALSE /\ busy' = TRUE
  /\ claimed' = announced
  /\ rsp' = "settings"
  /\ UNCHANGED <<cpuVars, memory, line, served>>

(* What a DMA brings.  Until it starts at main again, an RSP whose memory  *)
(* was reloaded finds zeros where the addresses of registers and sprites   *)
(* were, and copies nothing of the game's from there; that of video memory *)
(* it keeps in a register.                                                 *)
DmaIn(r) == IF cpu = "restart" /\ r # "VRAM" THEN 0 ELSE memory[r]

(* The registers are copied; the line ends at once if LCDC is zero (the    *)
(* bit that switches the LCD is extracted, but the whole byte is tested).  *)
LoadSettings ==
  /\ rsp = "settings"
  /\ line' = [line EXCEPT !["HRAM"] = DmaIn("HRAM")]
  /\ rsp' \in {"background", "lift"}
  /\ UNCHANGED <<cpuVars, memory, ready, busy, claimed, served>>

(* Background and window copy their tiles from VRAM one at a time, all of  *)
(* them at or after the moment taken here.                                 *)
ProcessBackground ==
  /\ rsp = "background"
  /\ line' = [line EXCEPT !["VRAM"] = DmaIn("VRAM")]
  /\ rsp' = "sprites"
  /\ UNCHANGED <<cpuVars, memory, ready, busy, claimed, served>>

ProcessSprites ==
  /\ rsp = "sprites"
  /\ line' = [line EXCEPT !["OAM"] = DmaIn("OAM")]
  /\ rsp' = "draw"
  /\ UNCHANGED <<cpuVars, memory, ready, busy, claimed, served>>

(* The line is sent to the RDP.                                            *)
DrawLine ==
  /\ rsp = "draw"
  /\ rsp' = "lift"
  /\ UNCHANGED <<cpuVars, memory, ready, busy, line, claimed, served>>

(* Mutant: the flag is lowered when the line is done, with BUSY.           *)
MainContinueLowering ==
  /\ rsp = "lift"
  /\ busy' = FALSE /\ ready' = FALSE
  /\ served' = line["HRAM"]
  /\ rsp' = "wait"
  /\ UNCHANGED <<cpuVars, memory, line, claimed>>

(* main_continue: BUSY is lifted and the loop starts again.                *)
MainContinue ==
  /\ rsp = "lift"
  /\ busy' = FALSE
  /\ served' = line["HRAM"]
  /\ rsp' = "wait"
  /\ UNCHANGED <<cpuVars, memory, ready, line, claimed>>

RspStep ==
  \/ Poll
  \/ Claim
  \/ LoadSettings
  \/ ProcessBackground
  \/ ProcessSprites
  \/ DrawLine
  \/ MainContinue

PictureNext ==
  \/ CpuStep
  \/ \E r \in Regions : Evict(r)
  \/ RspStep

PictureSpec == PictureInit /\ [][PictureNext]_pictureVars

(* The RSP executes its loop whatever the CPU does, and ppuInit waits for  *)
(* nothing between reloading the RSP and starting it.                      *)
FairSpec ==
  PictureSpec /\ WF_pictureVars(RspStep) /\ WF_pictureVars(RunUcode)

-----------------------------------------------------------------------------
(***************************************************************************)
(* Properties.                                                             *)
(***************************************************************************)

Versions == [Regions -> Nat]

(* Only lines of the screen are announced, and memory is never ahead of    *)
(* the cache, nor what the RSP holds ahead of memory.                      *)
PictureTypeOK ==
  /\ cached \in Versions /\ memory \in Versions /\ line \in Versions
  /\ announced \in Versions /\ claimed \in Versions /\ served \in Nat
  /\ isVramDirty \in BOOLEAN /\ ready \in BOOLEAN /\ busy \in BOOLEAN
  /\ written \in Nat
  /\ cpu \in {"line", "OAM", "HRAM", "VRAM", "announce", "hblank", "reset",
              "restart"}
  /\ rsp \in {"wait", "claim", "settings", "background", "sprites", "draw",
              "lift"}
  /\ \A r \in Regions : line[r] <= memory[r] /\ memory[r] <= cached[r]
  /\ CurrentLine(announced["HRAM"]) < Height

(* No announcement is lost between the two processors although the flag    *)
(* is written by both and the CPU never waits: whenever the RSP goes back  *)
(* to waiting and finds the flag down, its last turn used registers at     *)
(* least as new as those announced last.  Only a reset takes the last line *)
(* from an RSP it reloads while that is drawing it.                        *)
NoAnnouncementLost ==
  rsp = "wait" /\ ~ready /\ cpu # "restart" => served >= announced["HRAM"]

(* A line is never drawn with sprites, tiles or registers older than the   *)
(* game had written them when the line was announced: all of it is in      *)
(* memory before the flag is raised, VRAM included, which is written back  *)
(* only if it is dirty.  Two things a reset does are outside of this: what *)
(* it clears may not be written back, and the line in flight when the RSP  *)
(* is reloaded is drawn from zeros.                                        *)
NeverStale ==
  rsp = "draw" /\ cpu # "restart" => \A r \in Regions : line[r] >= claimed[r]

(* A line that was announced is served, itself or by one that replaced it, *)
(* unless the game is reset first.                                         *)
LinesServed ==
  \A v \in 0..MaxLines :
    announced["HRAM"] = v ~> (served >= v \/ announced["HRAM"] < v)
=============================================================================
