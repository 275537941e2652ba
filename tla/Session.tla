------------------------------ MODULE Session ------------------------------
(***************************************************************************)
(* The program around the emulator: the main loop of transferboy.c, the    *)
(* loading of cartridges (init.c), the frame-level part of playLogic       *)
(* (play.c), the menu (menu.c), the options (options.c, state.c) and the   *)
(* cartridge saves that all of them touch.                                 *)
(*                                                                         *)
(* One turn of the loop is three actions: the controller may be read, the  *)
(* logic of the active mode runs, the screen may be painted.  Between them *)
(* the player releases buttons, swaps cartridges and plugs controllers.    *)
(***************************************************************************)
EXTENDS Integers, Sequences

CONSTANTS
  FreeButtons,   (* those RESERVED_BUTTONS leaves free, in N64Button order *)
  KeySets,       (* sets of buttons that one scan may report released *)
  Carts,         (* the player's cartridges *)
  MaxIterations  (* turns between scans: GB_LCD_FRAME_CLKS / 2 *)

Free == {FreeButtons[i] : i \in DOMAIN FreeButtons}
Reserved == {"A", "B", "Up", "Down", "Left", "Right"}
Buttons == Free \cup Reserved

(* L, R and Start are never reserved; no two opposite directions are ever  *)
(* reported together (getPressedButtons).                                  *)
ASSUME ButtonsAssumption ==
  /\ FreeButtons \in Seq(Free)
  /\ \A i, j \in DOMAIN FreeButtons : i # j => FreeButtons[i] # FreeButtons[j]
  /\ {"L", "R", "Start"} \subseteq Free /\ Free \cap Reserved = {}
  /\ KeySets \subseteq SUBSET Buttons /\ {} \in KeySets
  /\ \A K \in KeySets : ~({"Up", "Down"} \subseteq K)
                          /\ ~({"Left", "Right"} \subseteq K)

ASSUME CartsAssumption ==
  MaxIterations \in Nat /\ Carts \cap {"none", "internal"} = {}

VARIABLES
  phase,                 (* "read", "logic" or "draw" *)
  mode,                  (* modes[0]: the mode whose logic ran last *)
  ActiveMode, InitState,
  MenuCursorRow, MenuCursorColumn, MenuLayout,
  OptionsCursorRow, AudioEnabled,
  SystemMenuButton, GbStartButton, GbSelectButton,
  ButtonMap,
  RequiresRepaint, RequiresControllerRead, iterations,
  KeysReleased,
  ControllersPresent,    (* whether the last scan saw a second controller *)
  screen,                (* what the lower part of the screen shows *)
  keysUsed,              (* whether the program has acted on KeysReleased *)
  loaded,                (* whose ROM is in memory: a cartridge, or *)
                         (* "internal", or "none" *)
  ram,                   (* whose RAM is at Ram.Data, or "none" *)
  unsaved,               (* whether it differs from its cartridge's *)
  isSRAMDirty,
  inserted,              (* the cartridge in the Transfer Pak, or "none" *)
  pulled,                (* whether the cartridge of the game in memory was *)
                         (* taken out of the Transfer Pak since it was loaded *)
  foreign                (* cartridges whose save was overwritten with *)
                         (* something else than their RAM *)

flags == <<RequiresRepaint, RequiresControllerRead>>
menuVars == <<MenuCursorRow, MenuCursorColumn, MenuLayout>>
buttonVars == <<SystemMenuButton, GbStartButton, GbSelectButton, ButtonMap>>
optionVars == <<OptionsCursorRow, AudioEnabled, buttonVars>>
scanVars == <<iterations, KeysReleased, ControllersPresent>>
saveVars == <<ram, unsaved, isSRAMDirty, foreign>>
cartVars == <<loaded, saveVars, inserted, pulled>>
vars == <<phase, mode, ActiveMode, InitState, menuVars, optionVars, flags,
          scanVars, screen, keysUsed, cartVars>>

Pressed(b) == b \in KeysReleased

(* Mutant: a handler asks for the screen only.                             *)
RequireRepaint(repaint, read) ==
  RequiresRepaint' = (RequiresRepaint \/ repaint) /\ UNCHANGED RequiresControllerRead

(* The two flags of rootState, or-ed with those a handler asks for.        *)
Require(repaint, read) ==
  /\ RequiresRepaint' = (RequiresRepaint \/ repaint)
  /\ RequiresControllerRead' = (RequiresControllerRead \/ read)

Blank == <<"blank">>

UseKeys == keysUsed' = TRUE
LeaveKeys == UNCHANGED keysUsed

-----------------------------------------------------------------------------
(* mainLoop, phase 1: read the controllers when asked to, or after a while.*)
ReadController ==
  /\ RequiresControllerRead \/ iterations > MaxIterations
  /\ KeysReleased' \in KeySets
  /\ ControllersPresent' \in BOOLEAN
  /\ RequiresRepaint' =
       (RequiresRepaint \/ ControllersPresent' # ControllersPresent)
  /\ RequiresControllerRead' = FALSE
  /\ iterations' = 0
  /\ keysUsed' = FALSE

SkipRead ==
  /\ ~RequiresControllerRead /\ iterations <= MaxIterations
  /\ iterations' = iterations + 1
  /\ UNCHANGED <<KeysReleased, ControllersPresent, flags, keysUsed>>

ReadPhase ==
  /\ phase = "read" /\ phase' = "logic"
  /\ ReadController \/ SkipRead
  /\ UNCHANGED <<mode, ActiveMode, InitState, menuVars, optionVars, screen,
                 cartVars>>

-----------------------------------------------------------------------------
(* initLogic.  In an error, or waiting for another cartridge: A or Start   *)
(* to retry, C-down for the game inside the program.                       *)
Retry ==
  /\ Pressed("A") \/ Pressed("Start")
  /\ InitState' = "InitRestarting"
  /\ Require(TRUE, TRUE) /\ UseKeys
  /\ UNCHANGED <<ActiveMode, loaded>>

(* The internal game replaces the ROM; Ram.Data and isSRAMDirty stay.      *)
LoadInternalRom ==
  /\ ~Pressed("A") /\ ~Pressed("Start") /\ Pressed("CDown")
  /\ loaded' = "internal"
  /\ InitState' = "InitLoaded" /\ ActiveMode' = "Play"
  /\ Require(TRUE, TRUE) /\ UseKeys

KeepWaiting(state, repaint) ==
  /\ ~Pressed("A") /\ ~Pressed("Start") /\ ~Pressed("CDown")
  /\ InitState' = state
  /\ Require(repaint, FALSE) /\ LeaveKeys
  /\ UNCHANGED <<ActiveMode, loaded>>

InitWaits ==
  /\ InitState \in {"InitError", "InitChanging"}
  /\ Retry \/ LoadInternalRom \/ KeepWaiting(InitState, FALSE)
  /\ UNCHANGED saveVars

(* The cartridge's header is read; when it can be, the message about       *)
(* loading is shown at once, or else the error and its keys apply at once. *)
InitReadsMetadata ==
  /\ InitState \in {"InitStart", "InitRestarting"}
  /\ \/ /\ inserted # "none"
        /\ InitState' = "InitLoading"
        /\ Require(TRUE, FALSE) /\ LeaveKeys
        /\ UNCHANGED <<ActiveMode, loaded>>
     \/ Retry
     \/ LoadInternalRom
     \/ KeepWaiting("InitError", InitState = "InitRestarting")
  /\ UNCHANGED saveVars

(* Mutant: a failed import is tried again without a word.                  *)
InitImportsRetrying ==
  /\ InitState = "InitLoading"
  /\ \/ /\ inserted # "none"
        /\ loaded' = inserted /\ ram' = inserted /\ unsaved' = FALSE
        /\ InitState' = "InitLoaded" /\ ActiveMode' = "Play"
        /\ UNCHANGED <<isSRAMDirty, foreign>>
     \/ UNCHANGED <<InitState, ActiveMode, loaded, saveVars>>
  /\ Require(TRUE, FALSE) /\ LeaveKeys

(* Mutant: the result of importCartridgeRam is ignored.                    *)
InitImportsRomOnly ==
  /\ InitState = "InitLoading"
  /\ \/ /\ inserted # "none"
        /\ loaded' = inserted
        /\ ram' \in {inserted, "none"} /\ unsaved' = FALSE
        /\ InitState' = "InitLoaded" /\ ActiveMode' = "Play"
        /\ UNCHANGED <<isSRAMDirty, foreign>>
     \/ /\ InitState' = "InitError"
        /\ UNCHANGED <<ActiveMode, loaded, saveVars>>
  /\ Require(TRUE, FALSE) /\ LeaveKeys

(* importCartridge: the ROM and the RAM of the cartridge are copied, or    *)
(* nothing when its header cannot be read again.  isSRAMDirty stays.       *)
InitImports ==
  /\ InitState = "InitLoading"
  /\ \/ /\ inserted # "none"
        /\ loaded' = inserted
        /\ ram' = inserted /\ unsaved' = FALSE
        /\ InitState' = "InitLoaded" /\ ActiveMode' = "Play"
        /\ UNCHANGED <<isSRAMDirty, foreign>>
     \/ /\ InitState' = "InitError"
        /\ UNCHANGED <<ActiveMode, loaded, saveVars>>
  /\ Require(TRUE, FALSE) /\ LeaveKeys

InitLogic ==
  /\ InitWaits \/ InitReadsMetadata \/ InitImports
  /\ UNCHANGED <<menuVars, optionVars, screen>>

-----------------------------------------------------------------------------
(* playLogic inside a frame: one instruction, which may write to cartridge *)
(* RAM.  An instruction takes at least four clocks, so that a frame has    *)
(* fewer of them than there are turns between two scans.                   *)
PlayInstruction ==
  /\ iterations < MaxIterations
  /\ \/ UNCHANGED saveVars
     \/ /\ loaded \in Carts
        /\ isSRAMDirty' = TRUE /\ unsaved' = TRUE
        /\ UNCHANGED <<ram, foreign>>
  /\ LeaveKeys
  /\ UNCHANGED <<ActiveMode, flags>>

(* Mutant: the flag is reset whether or not the cartridge is written.      *)
WriteSaveFileUnwritten ==
  isSRAMDirty' = FALSE /\ UNCHANGED <<ram, unsaved, foreign>>

(* Mutant: the flag is not reset.                                          *)
WriteSaveFileDirty ==
  /\ unsaved' = (unsaved /\ inserted # ram)
  /\ UNCHANGED <<ram, isSRAMDirty, foreign>>

(* exportCartridgeRam writes to whatever cartridge is in the Transfer Pak. *)
WriteSaveFile ==
  IF isSRAMDirty
  THEN /\ isSRAMDirty' = FALSE
       /\ unsaved' = (unsaved /\ inserted # ram)
       /\ foreign' = IF inserted \in Carts /\ inserted # ram
                     THEN foreign \cup {inserted} ELSE foreign
       /\ UNCHANGED ram
  ELSE UNCHANGED saveVars

(* At V-Blank the menu button leaves at once, before the save.             *)
PlayOpensMenu ==
  /\ Pressed(SystemMenuButton)
  /\ ActiveMode' = "Menu"
  /\ Require(TRUE, FALSE) /\ UseKeys
  /\ UNCHANGED saveVars

PlayEndsFrame ==
  /\ ~Pressed(SystemMenuButton)
  /\ WriteSaveFile
  /\ Require(TRUE, TRUE) /\ LeaveKeys
  /\ UNCHANGED ActiveMode

PlayLogic ==
  /\ PlayInstruction \/ PlayOpensMenu \/ PlayEndsFrame
  /\ UNCHANGED <<InitState, menuVars, optionVars, screen, loaded>>

-----------------------------------------------------------------------------
(* menuLogic.  The second column, Add Player and Add Game, exists when a   *)
(* second controller is plugged in.                                        *)
Layout == IF ControllersPresent THEN <<4, 2>> ELSE <<4, 0>>

Column == IF ControllersPresent THEN MenuCursorColumn ELSE 0

(* Mutant: the row is kept when the cursor changes columns.                *)
GetNewRowKept(oldRowCount, newRowCount, row) == row

(* The row keeps its relative position; moving to a larger column selects  *)
(* the first row of its group.                                             *)
GetNewRow(oldRowCount, newRowCount, row) ==
  LET ratio == ((row + 1) * newRowCount + oldRowCount - 1) \div oldRowCount
  IN IF oldRowCount > newRowCount THEN ratio - 1 ELSE ratio - 2

MoveTo(column, row) ==
  /\ MenuCursorColumn' = column /\ MenuCursorRow' = row
  /\ UNCHANGED <<ActiveMode, InitState, screen, loaded, saveVars>>

MenuFirst ==
  /\ MenuCursorRow = -1
  /\ MoveTo(Column, 0)
  /\ Require(TRUE, TRUE) /\ LeaveKeys

MenuUp ==
  /\ Pressed("Up")
  /\ MoveTo(Column, IF MenuCursorRow > 0 THEN MenuCursorRow - 1
                                         ELSE Layout[Column + 1] - 1)
  /\ Require(TRUE, TRUE) /\ UseKeys

MenuDown ==
  /\ Pressed("Down")
  /\ MoveTo(Column, IF MenuCursorRow < Layout[Column + 1] - 1
                    THEN MenuCursorRow + 1 ELSE 0)
  /\ Require(TRUE, TRUE) /\ UseKeys

(* With two columns left and right are the same, with one they do nothing. *)
MenuSideways ==
  /\ Pressed("Left") \/ Pressed("Right")
  /\ IF Column = 0 /\ Layout[2] = 0
     THEN /\ MoveTo(Column, MenuCursorRow)
          /\ UNCHANGED flags /\ LeaveKeys
     ELSE /\ MoveTo(1 - Column, GetNewRow(Layout[Column + 1],
                                          Layout[2 - Column], MenuCursorRow))
          /\ Require(TRUE, TRUE) /\ UseKeys

ResumePlay ==
  /\ MenuCursorRow' = -1 /\ MenuCursorColumn' = Column
  /\ ActiveMode' = "Play"
  /\ UNCHANGED <<InitState, loaded, saveVars>>

(* Reset: the emulator starts again with the same RAM.                     *)
ResetGame ==
  /\ ActiveMode' = "Play"
  /\ MenuCursorColumn' = Column
  /\ screen' = Blank
  /\ UNCHANGED <<InitState, MenuCursorRow, loaded, saveVars>>

(* Change cart: "Dump Save RAM first, or nah?"                             *)
ChangeGame ==
  /\ loaded' = "none" /\ ram' = "none" /\ unsaved' = FALSE
  /\ ActiveMode' = "Init" /\ InitState' = "InitChanging"
  /\ MenuCursorRow' = -1 /\ MenuCursorColumn' = Column
  /\ screen' = Blank
  /\ UNCHANGED <<isSRAMDirty, foreign>>

ShowOptionsMenu ==
  /\ ActiveMode' = "Options"
  /\ MenuCursorRow' = -1 /\ MenuCursorColumn' = Column
  /\ UNCHANGED <<InitState, screen, loaded, saveVars>>

(* Add Player and Add Game: there are already MAX_PLAYERS, which is one.   *)
AddPlayerOrGame ==
  /\ MenuCursorColumn' = Column
  /\ screen' = Blank
  /\ UNCHANGED <<ActiveMode, InitState, MenuCursorRow, loaded, saveVars>>

(* Items are numbered down the first column, then down the second.         *)
Item(column, row) == column * Layout[1] + row

ExecuteMenuItem ==
  LET item == Item(Column, MenuCursorRow)
  IN \/ item = 0 /\ ResumePlay /\ screen' = Blank
     \/ item = 1 /\ ResetGame
     \/ item = 2 /\ ChangeGame
     \/ item = 3 /\ ShowOptionsMenu
     \/ item \in 4..5 /\ AddPlayerOrGame

Moves == {"Up", "Down", "Left", "Right"}

MenuLogic ==
  /\ MenuLayout' = Layout
  /\ \/ MenuFirst
     \/ /\ MenuCursorRow # -1
        /\ \/ MenuUp \/ MenuDown
           \/ ~Pressed("Up") /\ ~Pressed("Down") /\ MenuSideways
           \/ /\ KeysReleased \cap Moves = {}
              /\ Pressed("B") \/ Pressed(SystemMenuButton)
              /\ ResumePlay /\ UNCHANGED screen
              /\ Require(TRUE, TRUE) /\ UseKeys
           \/ /\ KeysReleased \cap (Moves \cup {"B", SystemMenuButton}) = {}
              /\ Pressed("A")
              /\ ExecuteMenuItem
              /\ Require(TRUE, TRUE) /\ UseKeys
           \/ /\ KeysReleased \cap (Moves \cup {"A", "B", SystemMenuButton}) = {}
              /\ MoveTo(Column, MenuCursorRow)
              /\ UNCHANGED flags /\ LeaveKeys
  /\ UNCHANGED optionVars

-----------------------------------------------------------------------------
(* optionsLogic: audio, Start, Select and the menu button, in this order.  *)
OptionsEnd == 4

Neighbour(button, isMovingLeft) ==
  LET n == Len(FreeButtons)
      i == CHOOSE j \in 1..n : FreeButtons[j] = button
  IN FreeButtons[IF isMovingLeft THEN ((i + n - 2) % n) + 1 ELSE (i % n) + 1]

SelectNextButton(button) == Neighbour(button, Pressed("Left"))

SelectOption ==
  \/ /\ OptionsCursorRow = 0
     /\ AudioEnabled' = ~AudioEnabled
     /\ UNCHANGED buttonVars
  \/ /\ OptionsCursorRow = 1
     /\ GbStartButton' = SelectNextButton(GbStartButton)
     /\ UNCHANGED <<AudioEnabled, SystemMenuButton, GbSelectButton, ButtonMap>>
  \/ /\ OptionsCursorRow = 2
     /\ GbSelectButton' = SelectNextButton(GbSelectButton)
     /\ UNCHANGED <<AudioEnabled, SystemMenuButton, GbStartButton, ButtonMap>>
  \/ /\ OptionsCursorRow = 3
     /\ SystemMenuButton' = SelectNextButton(SystemMenuButton)
     /\ UNCHANGED <<AudioEnabled, GbStartButton, GbSelectButton, ButtonMap>>

(* Mutant: the function is not taken from its old button.                  *)
SetButtonToMapKeepingOld(map, gbButton, n64Button) ==
  [map EXCEPT ![n64Button] = gbButton]

SetButtonToMap(map, gbButton, n64Button) ==
  [b \in Buttons |-> IF b = n64Button THEN gbButton
                     ELSE IF map[b] = gbButton THEN "GbNoButton" ELSE map[b]]

ConfirmOptions ==
  LET menu == SetButtonToMap(ButtonMap, "GbSystemMenu", SystemMenuButton)
      start == SetButtonToMap(menu, "GbStart", GbStartButton)
  IN ButtonMap' = SetButtonToMap(start, "GbSelect", GbSelectButton)

MoveToOption(row) ==
  /\ OptionsCursorRow' = row
  /\ UNCHANGED <<ActiveMode, MenuCursorRow, AudioEnabled, buttonVars, screen>>

OptionsFirst ==
  /\ OptionsCursorRow = -1
  /\ MoveToOption(0)
  /\ Require(TRUE, TRUE) /\ LeaveKeys

OptionsUp ==
  /\ Pressed("Up")
  /\ MoveToOption(IF OptionsCursorRow > 0 THEN OptionsCursorRow - 1
                                          ELSE OptionsEnd - 1)

OptionsDown ==
  /\ Pressed("Down")
  /\ MoveToOption(IF OptionsCursorRow < OptionsEnd - 1
                  THEN OptionsCursorRow + 1 ELSE OptionsEnd - 1)

OptionsSideways ==
  /\ Pressed("Left") \/ Pressed("Right")
  /\ SelectOption
  /\ UNCHANGED <<OptionsCursorRow, ActiveMode, MenuCursorRow, screen>>

LeaveOptions(to, row) ==
  /\ ConfirmOptions
  /\ ActiveMode' = to
  /\ MenuCursorRow' = row /\ OptionsCursorRow' = -1
  /\ UNCHANGED <<AudioEnabled, SystemMenuButton, GbStartButton, GbSelectButton>>

ShowMainMenu == LeaveOptions("Menu", 0) /\ UNCHANGED screen

ResumePlayFromOptions == LeaveOptions("Play", -1) /\ screen' = Blank

OptionsLogic ==
  /\ \/ OptionsFirst
     \/ /\ OptionsCursorRow # -1
        /\ \/ OptionsUp \/ OptionsDown
           \/ ~Pressed("Up") /\ ~Pressed("Down") /\ OptionsSideways
           \/ KeysReleased \cap Moves = {} /\ Pressed("B") /\ ShowMainMenu
           \/ /\ KeysReleased \cap (Moves \cup {"B"}) = {}
              /\ Pressed("Start") \/ Pressed(SystemMenuButton)
              /\ ResumePlayFromOptions
        /\ Require(TRUE, TRUE) /\ UseKeys
     \/ /\ OptionsCursorRow # -1
        /\ KeysReleased
             \cap (Moves \cup {"B", "Start", SystemMenuButton}) = {}
        /\ MoveToOption(OptionsCursorRow)
        /\ UNCHANGED flags /\ LeaveKeys
  /\ UNCHANGED <<InitState, MenuCursorColumn, MenuLayout, loaded, saveVars>>

-----------------------------------------------------------------------------
LogicPhase ==
  /\ phase = "logic" /\ phase' = "draw"
  /\ mode' = ActiveMode
  /\ \/ ActiveMode = "Init" /\ InitLogic
     \/ ActiveMode = "Play" /\ PlayLogic
     \/ ActiveMode = "Menu" /\ MenuLogic
     \/ ActiveMode = "Options" /\ OptionsLogic
  /\ pulled' = (pulled /\ loaded' \in Carts)
  /\ UNCHANGED <<scanVars, inserted>>

(* What menuDraw and optionsDraw show.                                     *)
MenuScreen == <<"Menu", MenuCursorRow, MenuCursorColumn, MenuLayout>>
OptionsScreen == <<"Options", OptionsCursorRow, AudioEnabled, GbStartButton,
                   GbSelectButton, SystemMenuButton>>

(* Mutant: a mode that has just been left does not ask to be painted over. *)
DrawOnce ==
  /\ RequiresRepaint' = FALSE
  /\ screen' = IF mode = "Menu" /\ ActiveMode = "Menu" THEN MenuScreen
               ELSE IF mode = "Options" /\ ActiveMode = "Options"
                    THEN OptionsScreen
               ELSE IF mode \in {"Menu", "Options"} THEN Blank ELSE screen

(* mainLoop, phase 3: paint the mode whose logic ran.  menuDraw and        *)
(* optionsDraw clear their part of the screen, and when their mode was     *)
(* just left ask for the next one to be painted.                           *)
Draw ==
  LET drawsMenu == mode \in {"Menu", "Options"}
  IN /\ RequiresRepaint' = (drawsMenu /\ mode # ActiveMode)
     /\ screen' = IF ~drawsMenu THEN screen
                  ELSE IF mode # ActiveMode THEN Blank
                  ELSE IF mode = "Menu" THEN MenuScreen ELSE OptionsScreen

DrawPhase ==
  /\ phase = "draw" /\ phase' = "read"
  /\ IF RequiresRepaint THEN Draw ELSE UNCHANGED <<RequiresRepaint, screen>>
  /\ UNCHANGED <<mode, ActiveMode, InitState, menuVars, optionVars,
                 RequiresControllerRead, scanVars, keysUsed, cartVars>>

MainLoop == ReadPhase \/ LogicPhase \/ DrawPhase

(* The player takes a cartridge out or puts one in, whatever the program   *)
(* is doing: nothing in it notices.                                        *)
SwapCartridge ==
  /\ phase = "read"
  /\ inserted' \in (Carts \cup {"none"}) \ {inserted}
  /\ pulled' = (loaded \in Carts)
  /\ UNCHANGED <<phase, mode, ActiveMode, InitState, menuVars, optionVars,
                 flags, scanVars, screen, keysUsed, loaded, saveVars>>

FirstMap ==
  [b \in Buttons |->
     IF b \in Reserved THEN [A |-> "GbA", B |-> "GbB", Up |-> "GbUp",
                             Down |-> "GbDown", Left |-> "GbLeft",
                             Right |-> "GbRight"][b]
     ELSE IF b = "Start" THEN "GbStart"
     ELSE IF b = "R" THEN "GbSelect"
     ELSE IF b = "L" THEN "GbSystemMenu" ELSE "GbNoButton"]

(* generatePlayerState; what it leaves out is static storage.              *)
Init ==
  /\ phase = "read" /\ mode = "Init"
  /\ ActiveMode = "Init" /\ InitState = "InitStart"
  /\ MenuCursorRow = -1 /\ MenuCursorColumn = 0 /\ MenuLayout = <<0, 0>>
  /\ OptionsCursorRow = 0 /\ AudioEnabled = TRUE
  /\ SystemMenuButton = "L" /\ GbStartButton = "Start" /\ GbSelectButton = "R"
  /\ ButtonMap = FirstMap
  /\ RequiresRepaint = TRUE /\ RequiresControllerRead = TRUE
  /\ iterations = 0 /\ KeysReleased = {} /\ ControllersPresent = FALSE
  /\ screen = Blank /\ keysUsed = FALSE
  /\ loaded = "none" /\ ram = "none" /\ unsaved = FALSE
  /\ isSRAMDirty = FALSE /\ foreign = {}
  /\ inserted \in Carts \cup {"none"} /\ pulled = FALSE

Next == MainLoop \/ SwapCartridge

Spec == Init /\ [][Next]_vars

(* The main loop runs for ever.                                            *)
FairSpec == Spec /\ WF_vars(MainLoop)

-----------------------------------------------------------------------------
(***************************************************************************)
(* Properties.                                                             *)
(***************************************************************************)

(* Every variable of the program's state stays in its range.               *)
TypeOK ==
  /\ phase \in {"read", "logic", "draw"}
  /\ {mode, ActiveMode} \subseteq {"Init", "Play", "Menu", "Options"}
  /\ InitState \in {"InitStart", "InitLoading", "InitLoaded", "InitError",
                    "InitRestarting", "InitChanging"}
  /\ MenuCursorRow \in -1..3 /\ MenuCursorColumn \in 0..1
  /\ MenuLayout \in {<<0, 0>>, <<4, 0>>, <<4, 2>>}
  /\ OptionsCursorRow \in -1..OptionsEnd - 1
  /\ {SystemMenuButton, GbStartButton, GbSelectButton} \subseteq Free
  /\ ButtonMap \in [Buttons -> {"GbNoButton", "GbA", "GbB", "GbUp", "GbDown",
                                "GbLeft", "GbRight", "GbStart", "GbSelect",
                                "GbSystemMenu"}]
  /\ {RequiresRepaint, RequiresControllerRead, AudioEnabled,
      ControllersPresent, keysUsed, unsaved, isSRAMDirty, pulled} \subseteq BOOLEAN
  /\ iterations \in 0..MaxIterations + 1 /\ KeysReleased \in KeySets
  /\ loaded \in Carts \cup {"none", "internal"}
  /\ {ram, inserted} \subseteq Carts \cup {"none"} /\ foreign \subseteq Carts

(* All variables stay in their ranges, and while the menu is open its      *)
(* cursor is on an item that exists, whatever the columns it crosses and   *)
(* the controllers plugged in and out.                                     *)
CursorOnItem ==
  /\ TypeOK
  /\ phase = "draw" /\ mode = "Menu" /\ ActiveMode = "Menu" =>
       MenuCursorRow \in 0..MenuLayout[MenuCursorColumn + 1] - 1

(* When nothing is waiting to be painted, the screen shows the menu or the *)
(* options as they are, and nothing of them remains in a game, if buttons  *)
(* are released one at a time.                                             *)
ScreenCurrent ==
  phase = "read" /\ mode = ActiveMode /\ ~RequiresRepaint =>
    /\ ActiveMode = "Menu" => screen = MenuScreen
    /\ ActiveMode = "Options" => screen = OptionsScreen
    /\ ActiveMode = "Play" => screen = Blank

(* No function of the Game Boy or of the program is ever on two buttons,   *)
(* and A, B and the directions keep theirs, whatever the options chosen.   *)
OneButtonEach ==
  /\ \A b, c \in Buttons :
       b # c /\ ButtonMap[b] = ButtonMap[c] => ButtonMap[b] = "GbNoButton"
  /\ \A b \in Reserved : ButtonMap[b] = FirstMap[b]

(* Outside the menu the release of a button acts once: no mode acts on     *)
(* what another mode, or the same one, has already acted on.               *)
ReleasesActOnce ==
  [][phase = "logic" /\ keysUsed =>
       ActiveMode = "Menu" \/ UNCHANGED <<ActiveMode, InitState, optionVars>>]_vars

(* A save goes to the cartridge whose RAM it is, through loads that fail,  *)
(* swaps while loading and a dirty flag left over from the game before.    *)
(* Two saves are exempt, because the code sends them anywhere: those of    *)
(* the internal game, and those made after the player took the game's      *)
(* cartridge out.                                                          *)
ExportsOwnRam ==
  [][isSRAMDirty /\ ~isSRAMDirty' =>
       \/ inserted = loaded /\ ram = loaded
       \/ loaded = "internal"
       \/ pulled]_vars

(* Progress that is only in memory is announced by the dirty flag, through *)
(* menus, resets and changes of cartridge, as long as the cartridge stays  *)
(* in: a save that fails resets the flag like one that succeeds.           *)
DirtyWhenUnsaved == unsaved /\ ~pulled => isSRAMDirty

(* A game that goes on is saved.                                           *)
SaveHappens == isSRAMDirty /\ ActiveMode = "Play" ~>
                 ~isSRAMDirty \/ ActiveMode = "Menu"

Loading == ActiveMode = "Init" /\ InitState \notin {"InitError", "InitChanging"}

(* Once the player stops asking for it again, loading ends in the game or  *)
(* in an error.                                                            *)
LoadEnds ==
  <>[](~Pressed("A") /\ ~Pressed("Start")) => (Loading ~> ~Loading)

(* "Write save file back to the cartridge": its own, and nothing else.     *)
SavesKeepTheirGame == foreign = {}
=============================================================================
