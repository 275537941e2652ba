---------------------------- MODULE SessionProofs ----------------------------
(***************************************************************************)
(* Cursor, buttons, saves and screen of Session, for every set of          *)
(* buttons, releases and cartridges.                                       *)
(***************************************************************************)
EXTENDS Session, TLAPS

-----------------------------------------------------------------------------
(* The cursor.                                                             *)

(* The second column is shorter than the first.                            *)
RowInColumn == MenuCursorColumn = 1 => MenuCursorRow <= 1

CInv == CursorOnItem /\ RowInColumn

(* The row that a move to the other column selects is one of its rows.     *)
LEMMA NewRows ==
  /\ \A row \in 0..3 : GetNewRow(4, 2, row) \in 0..1
  /\ \A row \in 0..1 : GetNewRow(2, 4, row) \in 0..3
<1>1. ASSUME NEW row \in 0..3
      PROVE  GetNewRow(4, 2, row) \in 0..1
  <2>1. GetNewRow(4, 2, row) = (((row + 1) * 2 + 4 - 1) \div 4) - 1
    BY DEF GetNewRow
  <2>2. row = 0 \/ row = 1 \/ row = 2 \/ row = 3
    OBVIOUS
  <2> QED
    BY <2>1, <2>2
<1>2. ASSUME NEW row \in 0..1
      PROVE  GetNewRow(2, 4, row) \in 0..3
  <2>1. GetNewRow(2, 4, row) = (((row + 1) * 4 + 2 - 1) \div 2) - 2
    BY DEF GetNewRow
  <2>2. row = 0 \/ row = 1
    OBVIOUS
  <2> QED
    BY <2>1, <2>2
<1> QED
  BY <1>1, <1>2

(* With no second controller there is one column, of four items, and with  *)
(* one there are two.                                                      *)
LEMMA Layouts ==
  ASSUME TypeOK, RowInColumn
  PROVE  \/ Layout = <<4, 0>> /\ Column = 0
         \/ Layout = <<4, 2>> /\ Column = 0
         \/ Layout = <<4, 2>> /\ Column = 1 /\ MenuCursorRow <= 1
BY DEF TypeOK, RowInColumn, Layout, Column

(* A neighbour of a button that may be assigned is one too.                *)
LEMMA NeighbourIsFree ==
  ASSUME NEW button \in Free, NEW isMovingLeft \in BOOLEAN
  PROVE  Neighbour(button, isMovingLeft) \in Free
<1> DEFINE n == Len(FreeButtons)
           i == CHOOSE j \in 1..n : FreeButtons[j] = button
           k == IF isMovingLeft THEN ((i + n - 2) % n) + 1 ELSE (i % n) + 1
<1>1. n \in Nat /\ DOMAIN FreeButtons = 1..n
  BY ButtonsAssumption
<1>2. \E j \in 1..n : FreeButtons[j] = button
  BY <1>1 DEF Free
<1>3. i \in 1..n
  BY <1>2
<1> HIDE DEF i
<1>4. k \in 1..n
  BY <1>1, <1>3
<1>5. FreeButtons[k] \in Free
  BY <1>1, <1>4 DEF Free
<1> QED
  BY <1>5 DEF Neighbour, i

(* TypeOK by the parts of the state that are written together.             *)
PhaseTypes ==
  /\ phase \in {"read", "logic", "draw"}
  /\ mode \in {"Init", "Play", "Menu", "Options"}
ModeTypes ==
  /\ ActiveMode \in {"Init", "Play", "Menu", "Options"}
  /\ InitState \in {"InitStart", "InitLoading", "InitLoaded", "InitError",
                    "InitRestarting", "InitChanging"}
MenuTypes ==
  /\ MenuCursorRow \in -1..3 /\ MenuCursorColumn \in 0..1
  /\ MenuLayout \in {<<0, 0>>, <<4, 0>>, <<4, 2>>}
OptionTypes ==
  /\ OptionsCursorRow \in -1..3 /\ AudioEnabled \in BOOLEAN
  /\ SystemMenuButton \in Free /\ GbStartButton \in Free
  /\ GbSelectButton \in Free
  /\ ButtonMap \in [Buttons -> {"GbNoButton", "GbA", "GbB", "GbUp", "GbDown",
                                "GbLeft", "GbRight", "GbStart", "GbSelect",
                                "GbSystemMenu"}]
FlagTypes ==
  RequiresRepaint \in BOOLEAN /\ RequiresControllerRead \in BOOLEAN
ScanTypes ==
  /\ iterations \in 0..MaxIterations + 1 /\ KeysReleased \in KeySets
  /\ ControllersPresent \in BOOLEAN
CartTypes ==
  /\ loaded \in Carts \cup {"none", "internal"}
  /\ ram \in Carts \cup {"none"} /\ inserted \in Carts \cup {"none"}
  /\ unsaved \in BOOLEAN /\ isSRAMDirty \in BOOLEAN /\ foreign \subseteq Carts

LEMMA TypesInParts ==
  TypeOK <=> /\ PhaseTypes /\ ModeTypes /\ MenuTypes /\ OptionTypes
             /\ FlagTypes /\ ScanTypes /\ CartTypes /\ keysUsed \in BOOLEAN
             /\ pulled \in BOOLEAN
BY DEF TypeOK, PhaseTypes, ModeTypes, MenuTypes, OptionTypes, FlagTypes,
       ScanTypes, CartTypes, OptionsEnd

LEMMA TypesInPartsNext ==
  TypeOK' <=> /\ PhaseTypes' /\ ModeTypes' /\ MenuTypes' /\ OptionTypes'
              /\ FlagTypes' /\ ScanTypes' /\ CartTypes' /\ keysUsed' \in BOOLEAN
              /\ pulled' \in BOOLEAN
BY DEF TypeOK, PhaseTypes, ModeTypes, MenuTypes, OptionTypes, FlagTypes,
       ScanTypes, CartTypes, OptionsEnd

(* A handler leaves the flags Booleans, and may use the keys.              *)
LEMMA RequireTypes ==
  ASSUME NEW repaint \in BOOLEAN, NEW read \in BOOLEAN, FlagTypes,
         Require(repaint, read)
  PROVE  FlagTypes'
BY Zenon DEF Require, FlagTypes

LEMMA KeysUsedTypes ==
  ASSUME keysUsed \in BOOLEAN, UseKeys \/ LeaveKeys
  PROVE  keysUsed' \in BOOLEAN
BY DEF UseKeys, LeaveKeys

LEMMA InitLogicTypes ==
  ASSUME ModeTypes, FlagTypes, CartTypes, keysUsed \in BOOLEAN, InitLogic,
         inserted' = inserted
  PROVE  ModeTypes' /\ FlagTypes' /\ CartTypes' /\ keysUsed' \in BOOLEAN
<1>1. CASE Retry /\ UNCHANGED saveVars
  <2>1. FlagTypes' /\ keysUsed' \in BOOLEAN
    BY <1>1, RequireTypes, KeysUsedTypes DEF Retry
  <2>2. ModeTypes' /\ CartTypes'
    BY <1>1 DEF Retry, ModeTypes, CartTypes, saveVars
  <2> QED
    BY <2>1, <2>2
<1>2. CASE LoadInternalRom /\ UNCHANGED saveVars
  <2>1. FlagTypes' /\ keysUsed' \in BOOLEAN
    BY <1>2, RequireTypes, KeysUsedTypes DEF LoadInternalRom
  <2>2. ModeTypes' /\ CartTypes'
    BY <1>2 DEF LoadInternalRom, ModeTypes, CartTypes, saveVars
  <2> QED
    BY <2>1, <2>2
<1>3. ASSUME NEW state \in {"InitError", "InitChanging"},
             NEW repaint \in BOOLEAN, KeepWaiting(state, repaint),
             UNCHANGED saveVars
      PROVE  ModeTypes' /\ FlagTypes' /\ CartTypes' /\ keysUsed' \in BOOLEAN
  <2>1. FlagTypes' /\ keysUsed' \in BOOLEAN
    BY <1>3, RequireTypes, KeysUsedTypes DEF KeepWaiting
  <2>2. ModeTypes' /\ CartTypes'
    BY <1>3 DEF KeepWaiting, ModeTypes, CartTypes, saveVars
  <2> QED
    BY <2>1, <2>2
<1>4. CASE InitWaits
  BY <1>1, <1>2, <1>3, <1>4 DEF InitWaits
<1>5. CASE InitReadsMetadata
  <2>1. CASE /\ InitState' = "InitLoading" /\ Require(TRUE, FALSE) /\ LeaveKeys
             /\ UNCHANGED <<ActiveMode, loaded, saveVars>>
    <3>1. FlagTypes' /\ keysUsed' \in BOOLEAN
      BY <2>1, RequireTypes, KeysUsedTypes
    <3>2. ModeTypes' /\ CartTypes'
      BY <2>1 DEF ModeTypes, CartTypes, saveVars
    <3> QED
      BY <3>1, <3>2
  <2>2. (InitState = "InitRestarting") \in BOOLEAN
    OBVIOUS
  <2> QED
    BY <1>1, <1>2, <1>3, <1>5, <2>1, <2>2 DEF InitReadsMetadata
<1>6. CASE InitImports
  <2>1. FlagTypes' /\ keysUsed' \in BOOLEAN
    BY <1>6, RequireTypes, KeysUsedTypes DEF InitImports
  <2>2. ModeTypes' /\ CartTypes'
    BY <1>6 DEF InitImports, ModeTypes, CartTypes, saveVars
  <2> QED
    BY <2>1, <2>2
<1> QED
  BY <1>4, <1>5, <1>6 DEF InitLogic

LEMMA PlayLogicTypes ==
  ASSUME ModeTypes, FlagTypes, CartTypes, keysUsed \in BOOLEAN, PlayLogic,
         inserted' = inserted
  PROVE  ModeTypes' /\ FlagTypes' /\ CartTypes' /\ keysUsed' \in BOOLEAN
<1>1. CASE PlayInstruction
  <2>1. FlagTypes' /\ keysUsed' \in BOOLEAN
    BY <1>1, KeysUsedTypes DEF PlayInstruction, flags, FlagTypes
  <2>2. ModeTypes' /\ CartTypes'
    BY <1>1 DEF PlayLogic, PlayInstruction, ModeTypes, CartTypes, saveVars
  <2> QED
    BY <2>1, <2>2
<1>2. CASE PlayOpensMenu
  <2>1. FlagTypes' /\ keysUsed' \in BOOLEAN
    BY <1>2, RequireTypes, KeysUsedTypes DEF PlayOpensMenu
  <2>2. ModeTypes' /\ CartTypes'
    BY <1>2 DEF PlayLogic, PlayOpensMenu, ModeTypes, CartTypes, saveVars
  <2> QED
    BY <2>1, <2>2
<1>3. CASE PlayEndsFrame
  <2>1. FlagTypes' /\ keysUsed' \in BOOLEAN
    BY <1>3, RequireTypes, KeysUsedTypes DEF PlayEndsFrame
  <2>2. isSRAMDirty' \in BOOLEAN /\ unsaved' \in BOOLEAN
    BY <1>3, Zenon DEF PlayEndsFrame, WriteSaveFile, CartTypes, saveVars
  <2>3. ModeTypes' /\ CartTypes'
    BY <1>3, <2>2 DEF PlayLogic, PlayEndsFrame, WriteSaveFile, ModeTypes,
                      CartTypes, saveVars
  <2> QED
    BY <2>1, <2>3
<1> QED
  BY <1>1, <1>2, <1>3 DEF PlayLogic

(* Where the cursor is after menuLogic.                                    *)
CursorNext ==
  /\ MenuCursorRow' \in -1..3 /\ MenuCursorColumn' \in 0..1
  /\ MenuCursorColumn' = 1 => MenuCursorRow' <= 1
  /\ ActiveMode' = "Menu" =>
       MenuCursorRow' \in 0..MenuLayout'[MenuCursorColumn' + 1] - 1

(* A handler that puts the cursor on an item of the layout.                *)
LEMMA MovedTo ==
  ASSUME TypeOK, RowInColumn, MenuLayout' = Layout,
         NEW column \in 0..1, NEW row \in Int,
         column = 1 => Layout = <<4, 2>>,
         row \in 0..Layout[column + 1] - 1, MoveTo(column, row)
  PROVE  CursorNext
<1>1. row \in 0..3 /\ (column = 1 => row <= 1)
  BY Layouts
<1> QED
  BY <1>1 DEF MoveTo, CursorNext

(* Every handler leaves the cursor on an item, or the menu.                *)
LEMMA MenuCursor ==
  ASSUME TypeOK, RowInColumn, MenuLogic
  PROVE  CursorNext
<1> USE DEF MenuLogic
<1>1. /\ MenuLayout' = Layout /\ Column \in 0..1
      /\ Column = 1 => Layout = <<4, 2>>
      /\ Layout[Column + 1] \in {2, 4}
  BY Layouts
<1>2. MenuCursorRow # -1 => MenuCursorRow \in 0..Layout[Column + 1] - 1
  BY Layouts DEF TypeOK
<1>3. CASE MenuFirst
  BY <1>1, <1>3, MovedTo DEF MenuFirst
<1>4. CASE MenuCursorRow # -1 /\ MenuUp
  <2> DEFINE row == IF MenuCursorRow > 0 THEN MenuCursorRow - 1
                                         ELSE Layout[Column + 1] - 1
  <2>1. row \in Int /\ row \in 0..Layout[Column + 1] - 1
    BY <1>1, <1>2, <1>4
  <2>2. MoveTo(Column, row)
    BY <1>4 DEF MenuUp
  <2> HIDE DEF row
  <2> QED
    BY <1>1, <2>1, <2>2, MovedTo
<1>5. CASE MenuCursorRow # -1 /\ MenuDown
  <2> DEFINE row == IF MenuCursorRow < Layout[Column + 1] - 1
                    THEN MenuCursorRow + 1 ELSE 0
  <2>1. row \in Int /\ row \in 0..Layout[Column + 1] - 1
    BY <1>1, <1>2, <1>5
  <2>2. MoveTo(Column, row)
    BY <1>5 DEF MenuDown
  <2> HIDE DEF row
  <2> QED
    BY <1>1, <2>1, <2>2, MovedTo
<1>6. CASE MenuCursorRow # -1 /\ MoveTo(Column, MenuCursorRow)
  BY <1>1, <1>2, <1>6, MovedTo
<1>7. CASE MenuCursorRow # -1 /\ MenuSideways
  <2>1. CASE Column = 0 /\ Layout[2] = 0
    BY <1>6, <1>7, <2>1 DEF MenuSideways
  <2>2. CASE ~(Column = 0 /\ Layout[2] = 0)
    <3> DEFINE row == GetNewRow(Layout[Column + 1], Layout[2 - Column],
                                MenuCursorRow)
    <3>1. Layout = <<4, 2>>
      BY <2>2, Layouts
    <3>2. CASE Column = 0
      <4>1. row \in 0..1
        BY <1>2, <1>7, <3>1, <3>2, NewRows
      <4> QED
        BY <1>7, <2>2, <3>1, <3>2, <4>1, <1>1, MovedTo DEF MenuSideways
    <3>3. CASE Column = 1
      <4>1. row \in 0..3
        BY <1>2, <1>7, <3>1, <3>3, NewRows
      <4> QED
        BY <1>7, <2>2, <3>1, <3>3, <4>1, <1>1, MovedTo DEF MenuSideways
    <3> QED
      BY <1>1, <3>2, <3>3
  <2> QED
    BY <2>1, <2>2
<1>8. CASE ResumePlay
  BY <1>1, <1>8 DEF ResumePlay, CursorNext
<1>9. CASE MenuCursorRow # -1 /\ ExecuteMenuItem
  <2>1. MenuCursorRow \in 0..3 /\ (Column = 1 => MenuCursorRow <= 1)
    BY <1>1, <1>2, <1>9
  <2> QED
    BY <1>1, <1>2, <1>8, <1>9, <2>1
       DEF ExecuteMenuItem, ResetGame, ChangeGame, ShowOptionsMenu,
           AddPlayerOrGame, CursorNext
<1> QED
  BY <1>3, <1>4, <1>5, <1>6, <1>7, <1>8, <1>9

LEMMA MenuLogicTypes ==
  ASSUME TypeOK, RowInColumn, MenuLogic, inserted' = inserted
  PROVE  /\ ModeTypes' /\ MenuTypes' /\ OptionTypes' /\ FlagTypes' /\ CartTypes'
         /\ keysUsed' \in BOOLEAN
<1> USE DEF MenuLogic
<1>1. OptionTypes'
  BY DEF OptionTypes, TypeOK, optionVars, buttonVars, OptionsEnd
<1>2. MenuTypes'
  BY MenuCursor, Layouts DEF CursorNext, MenuTypes
<1>3. FlagTypes' /\ keysUsed' \in BOOLEAN
  <2>1. FlagTypes /\ keysUsed \in BOOLEAN
    BY TypesInParts
  <2>2. CASE Require(TRUE, TRUE) /\ (UseKeys \/ LeaveKeys)
    BY <2>1, <2>2, RequireTypes, KeysUsedTypes
  <2>3. CASE UNCHANGED flags /\ LeaveKeys
    BY <2>1, <2>3, KeysUsedTypes DEF flags, FlagTypes
  <2> QED
    BY <2>2, <2>3 DEF MenuFirst, MenuUp, MenuDown, MenuSideways
<1>4. ModeTypes' /\ CartTypes'
  BY DEF TypeOK, ModeTypes, CartTypes, MenuFirst, MenuUp, MenuDown,
         MenuSideways, MoveTo, ResumePlay, ExecuteMenuItem, ResetGame,
         ChangeGame, ShowOptionsMenu, AddPlayerOrGame, saveVars
<1> QED
  BY <1>1, <1>2, <1>3, <1>4

(* What a button does is moved with its function.                          *)
LEMMA MapTypes ==
  ASSUME NEW Functions, "GbNoButton" \in Functions,
         NEW map \in [Buttons -> Functions], NEW gbButton \in Functions,
         NEW n64Button \in Buttons
  PROVE  SetButtonToMap(map, gbButton, n64Button) \in [Buttons -> Functions]
BY DEF SetButtonToMap

LEMMA ConfirmTypes ==
  ASSUME OptionTypes, ConfirmOptions
  PROVE  ButtonMap' \in [Buttons -> {"GbNoButton", "GbA", "GbB", "GbUp",
                            "GbDown", "GbLeft", "GbRight", "GbStart",
                            "GbSelect", "GbSystemMenu"}]
<1> DEFINE F == {"GbNoButton", "GbA", "GbB", "GbUp", "GbDown", "GbLeft",
                 "GbRight", "GbStart", "GbSelect", "GbSystemMenu"}
           menu == SetButtonToMap(ButtonMap, "GbSystemMenu", SystemMenuButton)
           start == SetButtonToMap(menu, "GbStart", GbStartButton)
<1>1. {SystemMenuButton, GbStartButton, GbSelectButton} \subseteq Buttons
  BY DEF OptionTypes, Buttons
<1>2. menu \in [Buttons -> F]
  BY <1>1, MapTypes DEF OptionTypes
<1> HIDE DEF menu
<1>3. start \in [Buttons -> F]
  BY <1>1, <1>2, MapTypes
<1> HIDE DEF start
<1>4. SetButtonToMap(start, "GbSelect", GbSelectButton) \in [Buttons -> F]
  BY <1>1, <1>3, MapTypes
<1> QED
  BY <1>4 DEF ConfirmOptions, start, menu

LEMMA OptionsLogicTypes ==
  ASSUME TypeOK, RowInColumn, OptionsLogic, inserted' = inserted
  PROVE  /\ ModeTypes' /\ MenuTypes' /\ OptionTypes' /\ FlagTypes' /\ CartTypes'
         /\ keysUsed' \in BOOLEAN /\ RowInColumn'
<1> USE DEF OptionsLogic
<1>1. OptionTypes /\ MenuTypes /\ ModeTypes /\ CartTypes /\ FlagTypes
  BY TypesInParts
<1>2. FlagTypes' /\ keysUsed' \in BOOLEAN
  <2>1. keysUsed \in BOOLEAN
    BY TypesInParts
  <2>2. CASE Require(TRUE, TRUE) /\ (UseKeys \/ LeaveKeys)
    BY <1>1, <2>1, <2>2, RequireTypes, KeysUsedTypes
  <2>3. CASE UNCHANGED flags /\ LeaveKeys
    BY <1>1, <2>1, <2>3, KeysUsedTypes DEF flags, FlagTypes
  <2> QED
    BY <2>2, <2>3 DEF OptionsFirst
<1>3. ASSUME NEW row \in -1..3, MoveToOption(row)
      PROVE  /\ ActiveMode' = ActiveMode /\ MenuCursorRow' = MenuCursorRow
             /\ OptionTypes'
  BY <1>1, <1>3 DEF MoveToOption, OptionTypes, buttonVars
<1>4. CASE OptionsFirst
  BY <1>1, <1>2, <1>3, <1>4
     DEF OptionsFirst, ModeTypes, MenuTypes, CartTypes, RowInColumn, saveVars
<1>5. CASE MoveToOption(OptionsCursorRow)
  BY <1>1, <1>2, <1>3, <1>5
     DEF OptionTypes, ModeTypes, MenuTypes, CartTypes, RowInColumn, saveVars
<1>6. CASE OptionsCursorRow # -1 /\ (OptionsUp \/ OptionsDown)
  <2>1. PICK row \in -1..3 : MoveToOption(row)
    BY <1>1, <1>6 DEF OptionsUp, OptionsDown, OptionTypes, OptionsEnd
  <2> QED
    BY <1>1, <1>2, <1>3, <2>1
       DEF ModeTypes, MenuTypes, CartTypes, RowInColumn, saveVars
<1>7. CASE OptionsSideways
  <2>1. \A b \in Free : SelectNextButton(b) \in Free
    <3>1. Pressed("Left") \in BOOLEAN
      BY DEF Pressed
    <3> QED
      BY <3>1, NeighbourIsFree DEF SelectNextButton
  <2>2. AudioEnabled' \in BOOLEAN
    BY <1>1, <1>7, Zenon DEF OptionsSideways, SelectOption, OptionTypes
  <2>3. /\ SystemMenuButton' \in Free /\ GbStartButton' \in Free
        /\ GbSelectButton' \in Free /\ ButtonMap' = ButtonMap
    BY <1>1, <1>7, <2>1
       DEF OptionsSideways, SelectOption, OptionTypes, buttonVars
  <2>4. OptionTypes'
    BY <1>1, <1>7, <2>2, <2>3 DEF OptionsSideways, OptionTypes
  <2> QED
    BY <1>1, <1>2, <1>7, <2>4
       DEF OptionsSideways, ModeTypes, MenuTypes, CartTypes, RowInColumn,
           saveVars
<1>8. ASSUME NEW to \in {"Menu", "Play"}, NEW row \in {0, -1},
             LeaveOptions(to, row)
      PROVE  /\ ModeTypes' /\ MenuTypes' /\ OptionTypes' /\ CartTypes'
             /\ RowInColumn'
  <2>1. OptionTypes'
    BY <1>1, <1>8, ConfirmTypes DEF LeaveOptions, OptionTypes
  <2> QED
    BY <1>1, <1>8, <2>1
       DEF LeaveOptions, ModeTypes, MenuTypes, CartTypes, RowInColumn, saveVars
<1>9. CASE ShowMainMenu \/ ResumePlayFromOptions
  BY <1>2, <1>8, <1>9 DEF ShowMainMenu, ResumePlayFromOptions
<1> QED
  BY <1>4, <1>5, <1>6, <1>7, <1>9

LEMMA ReadPhaseTypes ==
  ASSUME ScanTypes, FlagTypes, keysUsed \in BOOLEAN, ReadPhase
  PROVE  ScanTypes' /\ FlagTypes' /\ keysUsed' \in BOOLEAN
<1> USE DEF ReadPhase
<1>1. CASE ReadController
  <2>1. FlagTypes' /\ keysUsed' \in BOOLEAN
    BY <1>1, Zenon DEF ReadController, FlagTypes
  <2>2. iterations' \in 0..MaxIterations + 1
    BY <1>1, CartsAssumption DEF ReadController
  <2> QED
    BY <1>1, <2>1, <2>2 DEF ReadController, ScanTypes
<1>2. CASE SkipRead
  <2>1. iterations' \in 0..MaxIterations + 1
    BY <1>2, CartsAssumption DEF SkipRead, ScanTypes
  <2> QED
    BY <1>2, <2>1 DEF SkipRead, ScanTypes, FlagTypes, flags
<1> QED
  BY <1>1, <1>2

LEMMA DrawPhaseTypes ==
  ASSUME FlagTypes, DrawPhase
  PROVE  FlagTypes'
BY Zenon DEF FlagTypes, DrawPhase, Draw

LEMMA LogicPhaseInduction ==
  ASSUME TypeOK, RowInColumn, LogicPhase
  PROVE  TypeOK' /\ RowInColumn'
<1> USE DEF LogicPhase
<1>1. /\ PhaseTypes /\ ModeTypes /\ MenuTypes /\ OptionTypes /\ FlagTypes
      /\ ScanTypes /\ CartTypes /\ keysUsed \in BOOLEAN
  BY TypesInParts
<1>2. PhaseTypes' /\ ScanTypes' /\ pulled' \in BOOLEAN
  <2>1. PhaseTypes' /\ ScanTypes'
    BY <1>1 DEF PhaseTypes, ModeTypes, ScanTypes, scanVars
  <2>2. pulled' \in BOOLEAN
    BY Zenon
  <2> QED
    BY <2>1, <2>2
<1>3. ASSUME UNCHANGED <<menuVars, optionVars>>
      PROVE  MenuTypes' /\ OptionTypes' /\ RowInColumn'
  BY <1>1, <1>3 DEF MenuTypes, OptionTypes, RowInColumn, menuVars, optionVars,
                    buttonVars
<1>4. CASE InitLogic
  BY <1>1, <1>2, <1>3, <1>4, InitLogicTypes, TypesInPartsNext DEF InitLogic
<1>5. CASE PlayLogic
  BY <1>1, <1>2, <1>3, <1>5, PlayLogicTypes, TypesInPartsNext DEF PlayLogic
<1>6. CASE MenuLogic
  BY <1>2, <1>6, MenuLogicTypes, MenuCursor, TypesInPartsNext
     DEF CursorNext, RowInColumn
<1>7. CASE OptionsLogic
  BY <1>2, <1>7, OptionsLogicTypes, TypesInPartsNext
<1> QED
  BY <1>4, <1>5, <1>6, <1>7

(* The buttons' first functions, one by one.                               *)
LEMMA FirstMapValues ==
  /\ FirstMap["A"] = "GbA" /\ FirstMap["B"] = "GbB" /\ FirstMap["Up"] = "GbUp"
  /\ FirstMap["Down"] = "GbDown" /\ FirstMap["Left"] = "GbLeft"
  /\ FirstMap["Right"] = "GbRight" /\ FirstMap["Start"] = "GbStart"
  /\ FirstMap["R"] = "GbSelect" /\ FirstMap["L"] = "GbSystemMenu"
  /\ \A b \in Buttons \ (Reserved \cup {"Start", "R", "L"}) :
       FirstMap[b] = "GbNoButton"
<1>1. /\ {"L", "R", "Start"} \subseteq Buttons
      /\ {"L", "R", "Start"} \cap Reserved = {}
  BY ButtonsAssumption DEF Buttons
<1> QED
  BY <1>1 DEF FirstMap, Buttons, Reserved

LEMMA InitTypes ==
  ASSUME Init
  PROVE  TypeOK /\ RowInColumn
<1>1. /\ "L" \in Free /\ "Start" \in Free /\ "R" \in Free
      /\ {} \in KeySets /\ 0 \in 0..MaxIterations + 1
  BY ButtonsAssumption, CartsAssumption
<1>2. FirstMap \in [Buttons -> {"GbNoButton", "GbA", "GbB", "GbUp", "GbDown",
                                "GbLeft", "GbRight", "GbStart", "GbSelect",
                                "GbSystemMenu"}]
  <2>1. FirstMap = [b \in Buttons |-> FirstMap[b]]
    BY DEF FirstMap
  <2> QED
    BY <2>1, FirstMapValues DEF Reserved
<1>3. PhaseTypes /\ ModeTypes
  BY DEF Init, PhaseTypes, ModeTypes
<1>4. MenuTypes /\ RowInColumn
  BY DEF Init, MenuTypes, RowInColumn
<1>5. FlagTypes /\ keysUsed \in BOOLEAN
  BY Zenon DEF Init, FlagTypes
<1>6. OptionTypes
  BY <1>1, <1>2 DEF Init, OptionTypes
<1>7. ScanTypes /\ CartTypes /\ pulled \in BOOLEAN
  BY <1>1 DEF Init, ScanTypes, CartTypes
<1> QED
  BY <1>3, <1>4, <1>5, <1>6, <1>7, TypesInParts

LEMMA CursorInduction ==
  ASSUME CInv, [Next]_vars
  PROVE  CInv'
<1> USE DEF CInv
<1>1. /\ PhaseTypes /\ ModeTypes /\ MenuTypes /\ OptionTypes /\ FlagTypes
      /\ ScanTypes /\ CartTypes /\ keysUsed \in BOOLEAN /\ TypeOK
      /\ pulled \in BOOLEAN
  BY TypesInParts DEF CursorOnItem
<1>2. ASSUME UNCHANGED <<ActiveMode, InitState, menuVars, optionVars>>
      PROVE  ModeTypes' /\ MenuTypes' /\ OptionTypes' /\ RowInColumn'
  BY <1>1, <1>2 DEF ModeTypes, MenuTypes, OptionTypes, RowInColumn, menuVars,
                    optionVars, buttonVars
<1>3. ASSUME UNCHANGED cartVars
      PROVE  CartTypes' /\ pulled' \in BOOLEAN
  BY <1>1, <1>3 DEF CartTypes, cartVars, saveVars
<1>4. CASE ReadPhase
  BY <1>1, <1>2, <1>3, <1>4, ReadPhaseTypes, TypesInPartsNext
     DEF ReadPhase, PhaseTypes, CursorOnItem
<1>5. CASE LogicPhase
  <2>1. MenuLogic => CursorNext
    BY <1>1, MenuCursor
  <2> QED
    BY <1>1, <1>5, <2>1, LogicPhaseInduction
       DEF CursorOnItem, LogicPhase, CursorNext
<1>6. CASE DrawPhase
  BY <1>1, <1>2, <1>3, <1>6, DrawPhaseTypes, TypesInPartsNext
     DEF DrawPhase, PhaseTypes, ScanTypes, scanVars, CursorOnItem
<1>7. CASE SwapCartridge
  <2>1. CartTypes'
    BY <1>1, <1>7 DEF SwapCartridge, CartTypes, saveVars
  <2>2. pulled' \in BOOLEAN
    <3>1. pulled' = (loaded \in Carts)
      BY <1>7 DEF SwapCartridge
    <3> QED
      BY <3>1
  <2>3. /\ PhaseTypes' /\ ScanTypes' /\ FlagTypes' /\ keysUsed' \in BOOLEAN
        /\ ModeTypes' /\ MenuTypes' /\ OptionTypes' /\ RowInColumn'
    BY <1>1, <1>2, <1>7
       DEF SwapCartridge, PhaseTypes, ScanTypes, scanVars, FlagTypes, flags
  <2>4. TypeOK'
    BY <2>1, <2>2, <2>3, TypesInPartsNext
  <2> QED
    BY <1>7, <2>3, <2>4 DEF SwapCartridge, CursorOnItem
<1>8. CASE UNCHANGED vars
  <2>1. pulled' \in BOOLEAN /\ CartTypes'
    BY <1>3, <1>8 DEF vars
  <2> QED
    BY <1>1, <1>2, <1>8, <2>1, TypesInPartsNext
       DEF vars, PhaseTypes, ScanTypes, scanVars, FlagTypes, flags,
           CursorOnItem, menuVars
<1> QED
  BY <1>4, <1>5, <1>6, <1>7, <1>8 DEF Next, MainLoop

(* The menu's cursor is on an item that exists, however many buttons are   *)
(* released at once and whenever controllers come and go (menuLogic,       *)
(* getNewRow).                                                             *)
THEOREM CursorCorrectness == Spec => []CursorOnItem
<1>1. Init => CInv
  BY InitTypes DEF CInv, CursorOnItem, Init
<1>2. CInv /\ [Next]_vars => CInv'
  BY CursorInduction
<1>3. CInv => CursorOnItem
  BY DEF CInv
<1> QED
  BY <1>1, <1>2, <1>3, PTL DEF Spec

(* What the other invariants build on.                                     *)
LEMMA Typing == Spec => [](TypeOK /\ RowInColumn)
<1>1. Init => CInv
  BY InitTypes DEF CInv, CursorOnItem, Init
<1>2. CInv /\ [Next]_vars => CInv'
  BY CursorInduction
<1>3. CInv => TypeOK /\ RowInColumn
  BY DEF CInv, CursorOnItem
<1> QED
  BY <1>1, <1>2, <1>3, PTL DEF Spec

-----------------------------------------------------------------------------
(* The buttons.                                                            *)

MapOK(map) ==
  /\ \A b, c \in Buttons : b # c /\ map[b] = map[c] => map[b] = "GbNoButton"
  /\ \A b \in Reserved : map[b] = FirstMap[b]

(* Moving one of the functions that may be moved keeps each on one button. *)
LEMMA SetButtonKeepsOrder ==
  ASSUME NEW map, MapOK(map), NEW n64Button \in Free,
         NEW gbButton \in {"GbSystemMenu", "GbStart", "GbSelect"}
  PROVE  MapOK(SetButtonToMap(map, gbButton, n64Button))
<1> DEFINE new == SetButtonToMap(map, gbButton, n64Button)
<1>1. \A b \in Buttons :
        new[b] = IF b = n64Button THEN gbButton
                 ELSE IF map[b] = gbButton THEN "GbNoButton" ELSE map[b]
  BY DEF SetButtonToMap
<1>2. n64Button \in Buttons /\ n64Button \notin Reserved
  BY ButtonsAssumption DEF Buttons
<1>3. \A b \in Reserved : b \in Buttons /\ map[b] # gbButton
  BY FirstMapValues DEF MapOK, Reserved, Buttons
<1> HIDE DEF new
<1>4. \A b \in Reserved : new[b] = FirstMap[b]
  BY <1>1, <1>2, <1>3 DEF MapOK
<1>5. ASSUME NEW b \in Buttons, NEW c \in Buttons, b # c, new[b] = new[c],
             new[b] # "GbNoButton"
      PROVE  FALSE
  BY <1>1, <1>2, <1>5 DEF MapOK
<1> QED
  BY <1>4, <1>5 DEF MapOK, new

(* However the options are set, no function of the Game Boy or of the      *)
(* program is on two buttons, and the reserved buttons keep theirs         *)
(* (confirmOptions, setButtonToMap).                                       *)
THEOREM OneButtonPerFunction == Spec => []OneButtonEach
<1>1. Init => OneButtonEach
  <2>1. \A b \in Buttons : FirstMap[b] # "GbNoButton" =>
          b \in {"A", "B", "Up", "Down", "Left", "Right", "Start", "R", "L"}
    BY FirstMapValues DEF Reserved
  <2>2. \A b, c \in Buttons :
          b # c /\ FirstMap[b] = FirstMap[c] => FirstMap[b] = "GbNoButton"
    BY <2>1, FirstMapValues
  <2> QED
    BY <2>2 DEF Init, OneButtonEach
<1>2. OneButtonEach /\ TypeOK /\ [Next]_vars => OneButtonEach'
  <2> SUFFICES ASSUME OneButtonEach, TypeOK, [Next]_vars
               PROVE  OneButtonEach'
    OBVIOUS
  <2>1. CASE ButtonMap' = ButtonMap
    BY <2>1 DEF OneButtonEach
  <2>2. CASE ConfirmOptions
    <3> DEFINE menu == SetButtonToMap(ButtonMap, "GbSystemMenu",
                                      SystemMenuButton)
               start == SetButtonToMap(menu, "GbStart", GbStartButton)
    <3>1. MapOK(ButtonMap)
      BY DEF MapOK, OneButtonEach
    <3>2. /\ SystemMenuButton \in Free /\ GbStartButton \in Free
          /\ GbSelectButton \in Free
      BY DEF TypeOK
    <3>3. MapOK(menu)
      BY <3>1, <3>2, SetButtonKeepsOrder
    <3> HIDE DEF menu
    <3>4. MapOK(start)
      BY <3>2, <3>3, SetButtonKeepsOrder
    <3> HIDE DEF start
    <3>5. MapOK(ButtonMap')
      BY <2>2, <3>2, <3>4, SetButtonKeepsOrder DEF ConfirmOptions, start, menu
    <3> QED
      BY <3>5 DEF MapOK, OneButtonEach
  <2>3. ButtonMap' = ButtonMap \/ ConfirmOptions
    <3>1. CASE LogicPhase
      BY <3>1
         DEF LogicPhase, InitLogic, PlayLogic, MenuLogic, OptionsLogic,
             OptionsFirst, OptionsUp, OptionsDown, OptionsSideways,
             MoveToOption, SelectOption, ShowMainMenu, ResumePlayFromOptions,
             LeaveOptions, optionVars, buttonVars
    <3>2. CASE ReadPhase \/ DrawPhase \/ SwapCartridge \/ UNCHANGED vars
      BY <3>2 DEF ReadPhase, DrawPhase, SwapCartridge, vars, optionVars,
                  buttonVars
    <3> QED
      BY <3>1, <3>2 DEF Next, MainLoop
  <2> QED
    BY <2>1, <2>2, <2>3
<1> QED
  BY <1>1, <1>2, Typing, PTL DEF Spec

-----------------------------------------------------------------------------
(* The saves.                                                              *)

(* A game is in memory with its own RAM, and its cartridge in the Transfer *)
(* Pak unless it was pulled; only then is there something to save.         *)
OwnRam ==
  /\ ActiveMode = "Init" <=> loaded = "none"
  /\ loaded \in Carts => ram = loaded
  /\ loaded \in Carts /\ ~pulled => inserted = loaded
  /\ unsaved => loaded \in Carts

SInv == OwnRam /\ DirtyWhenUnsaved

OwnSave ==
  isSRAMDirty /\ ~isSRAMDirty' =>
    \/ inserted = loaded /\ ram = loaded
    \/ loaded = "internal"
    \/ pulled

LEMMA SaveInduction ==
  ASSUME SInv, TypeOK, [Next]_vars
  PROVE  SInv' /\ OwnSave
<1> USE DEF SInv, OwnRam, DirtyWhenUnsaved, OwnSave
<1>1. /\ "none" \notin Carts /\ "internal" \notin Carts
      /\ loaded \in Carts \cup {"none", "internal"}
  BY CartsAssumption DEF TypeOK
<1>2. ASSUME UNCHANGED <<ActiveMode, loaded, inserted, pulled, saveVars>>
      PROVE  SInv' /\ OwnSave
  BY <1>2 DEF saveVars
<1> DEFINE Stays == inserted' = inserted /\ (pulled' <=> pulled /\ loaded' \in Carts)
<1>3. CASE ActiveMode = "Init" /\ InitLogic /\ Stays
  <2>1. CASE InitState = "InitLoading" /\ InitImports
    <3>2. CASE inserted # "none" /\ InitState' = "InitLoaded"
      <4>1. /\ loaded' = inserted /\ ram' = inserted /\ ~unsaved'
            /\ ActiveMode' = "Play" /\ isSRAMDirty' = isSRAMDirty
        BY <2>1, <3>2 DEF InitImports
      <4> QED
        BY <1>1, <1>3, <3>2, <4>1 DEF TypeOK
    <3>3. CASE UNCHANGED <<ActiveMode, loaded, saveVars>>
      BY <1>1, <1>3, <3>3 DEF saveVars
    <3> QED
      BY <2>1, <3>2, <3>3 DEF InitImports
  <2>2. CASE InitWaits \/ InitReadsMetadata
    <3>1. UNCHANGED saveVars /\ ~unsaved
      BY <1>1, <1>3, <2>2 DEF InitWaits, InitReadsMetadata
    <3>2. \/ UNCHANGED <<ActiveMode, loaded>>
          \/ ActiveMode' = "Play" /\ loaded' = "internal"
      BY <2>2 DEF InitWaits, InitReadsMetadata, Retry, LoadInternalRom,
                  KeepWaiting
    <3> QED
      BY <1>1, <1>3, <3>1, <3>2 DEF saveVars
  <2> QED
    BY <1>3, <2>1, <2>2 DEF InitLogic, InitImports
<1>4. CASE ActiveMode = "Play" /\ PlayLogic /\ Stays
  <2>1. CASE PlayInstruction
    BY <1>4, <2>1 DEF PlayLogic, PlayInstruction, saveVars
  <2>2. CASE PlayOpensMenu
    BY <1>4, <2>2 DEF PlayLogic, PlayOpensMenu, saveVars
  <2>3. CASE PlayEndsFrame
    <3>1. loaded' = loaded /\ ram' = ram /\ ActiveMode' = "Play"
      BY <1>4, <2>3 DEF PlayLogic, PlayEndsFrame, WriteSaveFile, saveVars
    <3>2. CASE isSRAMDirty
      <4>1. /\ ~isSRAMDirty'
            /\ unsaved' => unsaved /\ inserted # ram
        BY <2>3, <3>2 DEF PlayEndsFrame, WriteSaveFile
      <4>2. unsaved' => pulled
        BY <4>1
      <4> QED
        BY <1>1, <1>4, <3>1, <4>1, <4>2
    <3>3. CASE ~isSRAMDirty
      BY <1>4, <2>3, <3>1, <3>3 DEF PlayEndsFrame, WriteSaveFile, saveVars
    <3> QED
      BY <3>2, <3>3
  <2> QED
    BY <1>4, <2>1, <2>2, <2>3 DEF PlayLogic
<1>5. CASE ActiveMode = "Menu" /\ MenuLogic /\ Stays
  <2>1. CASE ChangeGame
    BY <1>1, <2>1 DEF ChangeGame
  <2>2. CASE UNCHANGED <<loaded, saveVars>> /\ ActiveMode' # "Init"
    BY <1>5, <2>2 DEF saveVars
  <2> QED
    BY <1>5, <2>1, <2>2
       DEF MenuLogic, MenuFirst, MenuUp, MenuDown, MenuSideways, MoveTo,
           ResumePlay, ExecuteMenuItem, ResetGame, ShowOptionsMenu,
           AddPlayerOrGame
<1>6. CASE ActiveMode = "Options" /\ OptionsLogic /\ Stays
  <2>1. UNCHANGED <<loaded, saveVars>> /\ ActiveMode' # "Init"
    BY <1>6 DEF OptionsLogic, OptionsFirst, OptionsUp, OptionsDown,
                OptionsSideways, MoveToOption, ShowMainMenu,
                ResumePlayFromOptions, LeaveOptions
  <2> QED
    BY <1>6, <2>1 DEF saveVars
<1>7. CASE SwapCartridge
  BY <1>1, <1>7 DEF SwapCartridge, saveVars
<1>8. CASE ReadPhase \/ DrawPhase \/ UNCHANGED vars
  BY <1>2, <1>8 DEF ReadPhase, DrawPhase, vars, cartVars
<1>9. LogicPhase => Stays
  BY Zenon DEF LogicPhase
<1> QED
  BY <1>3, <1>4, <1>5, <1>6, <1>7, <1>8, <1>9 DEF Next, MainLoop, LogicPhase

LEMMA SaveInvariance == Spec => []SInv
<1>1. Init => SInv
  BY CartsAssumption DEF Init, SInv, OwnRam, DirtyWhenUnsaved
<1>2. SInv /\ TypeOK /\ [Next]_vars => SInv'
  BY SaveInduction
<1> QED
  BY <1>1, <1>2, Typing, PTL DEF Spec

(* Progress that is only in memory is announced by the dirty flag, through *)
(* menus, resets and changes of cartridge (play.c:233, resetPlayState), as *)
(* long as the player leaves the cartridge in.                             *)
THEOREM ProgressIsAnnounced == Spec => []DirtyWhenUnsaved
<1>1. SInv => DirtyWhenUnsaved
  BY DEF SInv
<1> QED
  BY <1>1, SaveInvariance, PTL

(* A save of a cartridge's game goes to this cartridge unless the player   *)
(* has taken it out, however often loading failed before and whatever was  *)
(* played before (importCartridge, exportCartridgeRam).                    *)
THEOREM SavesAreOwn == Spec => ExportsOwnRam
<1>1. SInv /\ TypeOK /\ [Next]_vars => [OwnSave]_vars
  BY SaveInduction
<1> QED
  BY <1>1, SaveInvariance, Typing, PTL DEF Spec, ExportsOwnRam, OwnSave

-----------------------------------------------------------------------------
(* The screen.                                                             *)

(* Buttons are released one at a time.  If the menu's button is released   *)
(* together with Left or Right, after a reset, the menu is not painted.    *)
OneRelease == \A K \in KeySets : \A b, c \in K : b = c

(* Which mode may have run before the active one.                          *)
Predecessors ==
  /\ ActiveMode = "Menu" => mode \in {"Play", "Menu", "Options"}
  /\ ActiveMode = "Options" => mode \in {"Menu", "Options"}

(* Only Reset leaves the menu with its cursor on an item.  The buttons are *)
(* then read again before the game can open the menu, and when it does are *)
(* not read before the menu has seen its own button released.              *)
CursorKept ==
  /\ ActiveMode \in {"Init", "Options"} => MenuCursorRow = -1
  /\ phase = "logic" => ~RequiresControllerRead
  /\ ActiveMode = "Play" /\ MenuCursorRow # -1 =>
       IF phase = "logic" THEN iterations <= MaxIterations
       ELSE RequiresControllerRead \/ iterations < MaxIterations
  /\ ActiveMode = "Menu" /\ mode = "Play" /\ MenuCursorRow # -1 =>
       /\ Pressed(SystemMenuButton)
       /\ phase # "logic" => iterations <= MaxIterations
                               /\ ~RequiresControllerRead

(* A mode with a screen of its own that is left asks to be cleared, and    *)
(* is; the others find the screen blank.                                   *)
Cleared ==
  /\ mode \in {"Menu", "Options"} /\ ActiveMode # mode =>
       RequiresRepaint /\ (phase # "draw" => screen = Blank)
  /\ mode \in {"Init", "Play"} => screen = Blank

(* The columns are those of the controllers plugged in.                    *)
LayoutCurrent ==
  mode = "Menu" /\ ActiveMode = "Menu" /\ (phase = "logic" => ~RequiresRepaint) =>
    MenuLayout = Layout /\ (MenuCursorColumn = 1 => ControllersPresent)

(* What is shown, in every phase.                                          *)
Shown ==
  mode = ActiveMode /\ ~RequiresRepaint =>
    /\ mode = "Menu" => screen = MenuScreen
    /\ mode = "Options" => screen = OptionsScreen

VInv == Predecessors /\ CursorKept /\ Cleared /\ LayoutCurrent /\ Shown

LEMMA RequireEffect ==
  ASSUME NEW repaint, NEW read, Require(repaint, read)
  PROVE  /\ repaint \/ RequiresRepaint => RequiresRepaint'
         /\ read => RequiresControllerRead'
         /\ ~read /\ ~RequiresControllerRead => ~RequiresControllerRead'
BY Zenon DEF Require

LEMMA ReadPhaseScreen ==
  ASSUME VInv, TypeOK, ReadPhase
  PROVE  VInv'
<1> USE DEF VInv
<1>1. /\ phase = "read" /\ phase' = "logic"
      /\ UNCHANGED <<mode, ActiveMode, menuVars, optionVars, screen>>
      /\ UNCHANGED <<MenuCursorRow, MenuCursorColumn, MenuLayout>>
      /\ SystemMenuButton' = SystemMenuButton
      /\ MenuScreen' = MenuScreen /\ OptionsScreen' = OptionsScreen
  BY DEF ReadPhase, menuVars, optionVars, buttonVars, MenuScreen, OptionsScreen
<1>2. /\ ~RequiresControllerRead'
      /\ RequiresRepaint => RequiresRepaint'
      /\ ~RequiresRepaint' => ControllersPresent' = ControllersPresent
  <2>1. CASE ReadController
    BY <2>1, Zenon DEF ReadController
  <2>2. CASE SkipRead
    BY <2>2 DEF SkipRead, flags
  <2> QED
    BY <2>1, <2>2 DEF ReadPhase
<1>3. /\ RequiresControllerRead \/ iterations < MaxIterations =>
           iterations' <= MaxIterations
      /\ ~RequiresControllerRead /\ iterations <= MaxIterations =>
           KeysReleased' = KeysReleased
  BY CartsAssumption DEF ReadPhase, ReadController, SkipRead, TypeOK
<1>4. Predecessors' /\ Cleared'
  BY <1>1, <1>2 DEF Predecessors, Cleared
<1>5. CursorKept'
  BY <1>1, <1>2, <1>3 DEF CursorKept, Pressed
<1>6. LayoutCurrent'
  BY <1>1, <1>2 DEF LayoutCurrent, Layout
<1>7. Shown'
  BY <1>1, <1>2 DEF Shown
<1> QED
  BY <1>4, <1>5, <1>6, <1>7

LEMMA DrawPhaseScreen ==
  ASSUME VInv, TypeOK, DrawPhase
  PROVE  VInv'
<1> USE DEF VInv
<1>1. /\ phase = "draw" /\ phase' = "read"
      /\ UNCHANGED <<mode, ActiveMode, RequiresControllerRead>>
      /\ UNCHANGED <<MenuCursorRow, MenuCursorColumn, MenuLayout>>
      /\ UNCHANGED <<iterations, KeysReleased, ControllersPresent>>
      /\ SystemMenuButton' = SystemMenuButton
      /\ MenuScreen' = MenuScreen /\ OptionsScreen' = OptionsScreen
  BY DEF DrawPhase, menuVars, optionVars, buttonVars, scanVars, MenuScreen,
         OptionsScreen
<1>2. CASE RequiresRepaint
  <2>1. /\ mode \in {"Menu", "Options"} /\ mode # ActiveMode =>
             RequiresRepaint' /\ screen' = Blank
        /\ mode = ActiveMode /\ mode = "Menu" => screen' = MenuScreen
        /\ mode = ActiveMode /\ mode = "Options" => screen' = OptionsScreen
        /\ mode \in {"Init", "Play"} => screen' = screen
    BY <1>2 DEF DrawPhase, Draw
  <2> QED
    BY <1>1, <2>1 DEF Predecessors, CursorKept, Cleared, LayoutCurrent, Shown,
                      Pressed, Layout, TypeOK
<1>3. CASE ~RequiresRepaint
  <2>1. screen' = screen /\ RequiresRepaint' = RequiresRepaint
    BY <1>3 DEF DrawPhase
  <2> QED
    BY <1>1, <1>3, <2>1 DEF Predecessors, CursorKept, Cleared, LayoutCurrent,
                            Shown, Pressed, Layout, TypeOK
<1> QED
  BY <1>2, <1>3

LEMMA InitScreen ==
  ASSUME VInv, TypeOK, LogicPhase, ActiveMode = "Init", InitLogic
  PROVE  VInv'
<1> USE DEF VInv
<1>1. /\ phase = "logic" /\ phase' = "draw" /\ mode' = "Init"
      /\ screen' = Blank /\ MenuCursorRow' = -1
      /\ ActiveMode' \in {"Init", "Play"}
  BY DEF LogicPhase, InitLogic, Cleared, Predecessors, CursorKept, TypeOK,
         menuVars, InitWaits, InitReadsMetadata, InitImports, Retry,
         LoadInternalRom, KeepWaiting
<1> QED
  BY <1>1 DEF Predecessors, CursorKept, Cleared, LayoutCurrent, Shown

LEMMA PlayScreen ==
  ASSUME VInv, TypeOK, LogicPhase, ActiveMode = "Play", PlayLogic
  PROVE  VInv'
<1> USE DEF VInv
<1>1. /\ phase = "logic" /\ phase' = "draw" /\ mode' = "Play"
      /\ screen' = Blank /\ MenuCursorRow' = MenuCursorRow
      /\ SystemMenuButton' = SystemMenuButton
      /\ UNCHANGED <<iterations, KeysReleased, ControllersPresent>>
      /\ ~RequiresControllerRead
      /\ MenuCursorRow # -1 => iterations <= MaxIterations
  BY DEF LogicPhase, PlayLogic, Cleared, Predecessors, CursorKept, TypeOK,
         menuVars, optionVars, buttonVars, scanVars
<1>2. CASE PlayInstruction
  BY <1>1, <1>2
     DEF PlayInstruction, flags, Predecessors, CursorKept, Cleared,
         LayoutCurrent, Shown
<1>3. CASE PlayOpensMenu
  <2>1. /\ ActiveMode' = "Menu" /\ Pressed(SystemMenuButton)'
        /\ ~RequiresControllerRead'
    BY <1>1, <1>3, RequireEffect DEF PlayOpensMenu, Pressed
  <2> QED
    BY <1>1, <2>1
       DEF Predecessors, CursorKept, Cleared, LayoutCurrent, Shown
<1>4. CASE PlayEndsFrame
  <2>1. ActiveMode' = "Play" /\ RequiresControllerRead'
    BY <1>4, RequireEffect DEF PlayEndsFrame
  <2> QED
    BY <1>1, <2>1
       DEF Predecessors, CursorKept, Cleared, LayoutCurrent, Shown
<1> QED
  BY <1>2, <1>3, <1>4 DEF PlayLogic

(* When the menu does nothing it shows what it showed.                     *)
LEMMA MenuIdle ==
  ASSUME VInv, TypeOK, LogicPhase, ActiveMode = "Menu", MenuLogic, OneRelease,
         ~RequiresRepaint, MenuCursorRow # -1, UNCHANGED flags,
         MoveTo(Column, MenuCursorRow),
         MenuSideways \/ ~Pressed(SystemMenuButton)
  PROVE  screen' = MenuScreen'
<1> USE DEF VInv
<1>1. phase = "logic"
  BY DEF LogicPhase
<1>2. mode # "Play"
  <2>1. SUFFICES ASSUME mode = "Play" PROVE FALSE
    OBVIOUS
  <2>2. Pressed(SystemMenuButton)
    BY <2>1 DEF CursorKept
  <2>3. Pressed("Left") \/ Pressed("Right")
    BY <2>2 DEF MenuSideways
  <2>4. SystemMenuButton \in {"Left", "Right"}
    BY <2>2, <2>3 DEF OneRelease, Pressed, TypeOK
  <2> QED
    BY <2>4, ButtonsAssumption DEF TypeOK, Reserved
<1>3. mode = "Menu"
  BY <1>2 DEF Predecessors, Cleared
<1>4. /\ screen = MenuScreen /\ MenuLayout = Layout
      /\ MenuCursorColumn = 1 => ControllersPresent
  BY <1>1, <1>3 DEF Shown, LayoutCurrent
<1>5. Column = MenuCursorColumn
  BY <1>4 DEF Column, TypeOK
<1> QED
  BY <1>4, <1>5 DEF MoveTo, MenuScreen, MenuLogic

LEMMA MenuScreens ==
  ASSUME VInv, TypeOK, RowInColumn, LogicPhase, ActiveMode = "Menu", MenuLogic,
         OneRelease
  PROVE  VInv'
<1> USE DEF VInv
<1>1. /\ phase = "logic" /\ phase' = "draw" /\ mode' = "Menu"
      /\ UNCHANGED <<iterations, KeysReleased, ControllersPresent>>
      /\ MenuLayout' = Layout /\ Layout' = Layout
  BY DEF LogicPhase, MenuLogic, scanVars, Layout
<1>2. MenuCursorColumn' = 1 => ControllersPresent'
  <2> SUFFICES ASSUME ~ControllersPresent PROVE MenuCursorColumn' # 1
    BY <1>1
  <2>1. Column = 0 /\ Layout[2] = 0
    BY DEF Column, Layout
  <2>2. MenuCursorColumn' = Column
    BY <2>1
       DEF MenuLogic, MenuFirst, MenuUp, MenuDown, MenuSideways, MoveTo,
           ResumePlay, ExecuteMenuItem, ResetGame, ChangeGame,
           ShowOptionsMenu, AddPlayerOrGame
  <2> QED
    BY <2>1, <2>2
<1>3. LayoutCurrent'
  BY <1>1, <1>2 DEF LayoutCurrent
<1>4. CASE Require(TRUE, TRUE)
  <2>1. RequiresRepaint' /\ RequiresControllerRead'
    BY <1>4, RequireEffect
  <2>2. ActiveMode' \in {"Menu", "Play", "Init", "Options"}
    BY LogicPhaseInduction DEF TypeOK
  <2>3. ActiveMode' \in {"Init", "Options"} => MenuCursorRow' = -1
    BY DEF MenuLogic, MenuFirst, MenuUp, MenuDown, MenuSideways, MoveTo,
           ResumePlay, ExecuteMenuItem, ResetGame, ChangeGame,
           ShowOptionsMenu, AddPlayerOrGame
  <2> QED
    BY <1>1, <1>3, <2>1, <2>2, <2>3
       DEF Predecessors, CursorKept, Cleared, Shown
<1>5. CASE /\ UNCHANGED flags /\ MenuCursorRow # -1
           /\ MoveTo(Column, MenuCursorRow)
           /\ MenuSideways \/ ~Pressed(SystemMenuButton)
  <2>1. ActiveMode' = "Menu" /\ RequiresRepaint' = RequiresRepaint
    BY <1>5 DEF MoveTo, flags
  <2>2. ~RequiresRepaint' => screen' = MenuScreen'
    BY <1>5, <2>1, MenuIdle
  <2> QED
    BY <1>1, <1>3, <2>1, <2>2 DEF Predecessors, CursorKept, Cleared, Shown
<1>6. Require(TRUE, TRUE)
        \/ /\ UNCHANGED flags /\ MenuCursorRow # -1
           /\ MoveTo(Column, MenuCursorRow)
           /\ MenuSideways \/ ~Pressed(SystemMenuButton)
  <2>1. KeysReleased \cap (Moves \cup {"A", "B", SystemMenuButton}) = {} =>
          ~Pressed(SystemMenuButton)
    BY DEF Pressed
  <2>2. CASE MenuFirst
    BY <2>2 DEF MenuFirst
  <2>3. CASE MenuCursorRow # -1 /\ MenuSideways
    BY <2>3 DEF MenuSideways
  <2> QED
    BY <2>1, <2>2, <2>3 DEF MenuLogic, MenuUp, MenuDown
<1> QED
  BY <1>4, <1>5, <1>6

LEMMA OptionsScreens ==
  ASSUME VInv, TypeOK, RowInColumn, LogicPhase, ActiveMode = "Options",
         OptionsLogic
  PROVE  VInv'
<1> USE DEF VInv
<1>1. /\ phase = "logic" /\ phase' = "draw" /\ mode' = "Options"
      /\ UNCHANGED <<iterations, KeysReleased, ControllersPresent>>
      /\ MenuCursorRow = -1
  BY DEF LogicPhase, scanVars, CursorKept
<1>2. CASE Require(TRUE, TRUE)
  <2>1. RequiresRepaint' /\ RequiresControllerRead'
    BY <1>2, RequireEffect
  <2>2. /\ ActiveMode' \in {"Menu", "Play", "Options"}
        /\ ActiveMode' = "Options" => MenuCursorRow' = -1
    BY <1>1 DEF OptionsLogic, OptionsFirst, OptionsUp, OptionsDown,
                OptionsSideways, MoveToOption, ShowMainMenu,
                ResumePlayFromOptions, LeaveOptions
  <2> QED
    BY <1>1, <2>1, <2>2
       DEF Predecessors, CursorKept, Cleared, LayoutCurrent, Shown
<1>3. CASE UNCHANGED flags /\ MoveToOption(OptionsCursorRow)
  <2>1. /\ ActiveMode' = "Options" /\ RequiresRepaint' = RequiresRepaint
        /\ MenuCursorRow' = -1 /\ screen' = screen
        /\ OptionsScreen' = OptionsScreen
    BY <1>1, <1>3 DEF MoveToOption, flags, buttonVars, OptionsScreen
  <2>2. ~RequiresRepaint => screen = OptionsScreen
    BY <1>1 DEF Predecessors, Cleared, Shown
  <2> QED
    BY <1>1, <2>1, <2>2
       DEF Predecessors, CursorKept, Cleared, LayoutCurrent, Shown
<1>4. Require(TRUE, TRUE)
        \/ (UNCHANGED flags /\ MoveToOption(OptionsCursorRow))
  BY DEF OptionsLogic, OptionsFirst
<1> QED
  BY <1>2, <1>3, <1>4

(* When nothing is waiting to be painted, the screen shows the menu or the *)
(* options as they are and nothing of them remains in a game, for players  *)
(* who release one button at a time (mainLoop, menuDraw, optionsDraw).     *)
THEOREM ScreenCorrectness ==
  ASSUME OneRelease
  PROVE  Spec => []ScreenCurrent
<1>1. Init => VInv
  BY DEF Init, VInv, Predecessors, CursorKept, Cleared, LayoutCurrent, Shown
<1>2. VInv /\ TypeOK /\ RowInColumn /\ [Next]_vars => VInv'
  <2> SUFFICES ASSUME VInv, TypeOK, RowInColumn, [Next]_vars
               PROVE  VInv'
    OBVIOUS
  <2>1. CASE LogicPhase
    BY <2>1, InitScreen, PlayScreen, MenuScreens, OptionsScreens, OneRelease
       DEF LogicPhase
  <2>2. CASE UNCHANGED <<phase, mode, ActiveMode, InitState, menuVars,
                         optionVars, flags, scanVars, screen>>
    <3>1. /\ UNCHANGED <<phase, mode, ActiveMode, screen, iterations>>
          /\ UNCHANGED <<KeysReleased, ControllersPresent>>
          /\ UNCHANGED <<MenuCursorRow, MenuCursorColumn, MenuLayout>>
          /\ UNCHANGED <<RequiresRepaint, RequiresControllerRead>>
          /\ SystemMenuButton' = SystemMenuButton
          /\ MenuScreen' = MenuScreen /\ OptionsScreen' = OptionsScreen
      BY <2>2 DEF menuVars, optionVars, buttonVars, flags, scanVars,
                  MenuScreen, OptionsScreen
    <3> QED
      BY <3>1 DEF VInv, Predecessors, CursorKept, Cleared, LayoutCurrent,
                  Shown, Pressed, Layout
  <2> QED
    BY <2>1, <2>2, ReadPhaseScreen, DrawPhaseScreen
       DEF Next, MainLoop, SwapCartridge, vars
<1>3. VInv => ScreenCurrent
  BY DEF VInv, Cleared, Shown, ScreenCurrent
<1> QED
  BY <1>1, <1>2, <1>3, Typing, PTL DEF Spec

-----------------------------------------------------------------------------
(* The releases.                                                           *)

(* What has been acted on is read again before another mode's logic runs.  *)
KeysFresh ==
  keysUsed /\ ActiveMode # "Menu" => phase # "logic" /\ RequiresControllerRead

(* Outside the menu the release of a button acts once (mainLoop,           *)
(* initLogic, playLogic, optionsLogic).                                    *)
THEOREM ReleasesOnce == Spec => ReleasesActOnce
<1>1. Init => KeysFresh
  BY DEF Init, KeysFresh
<1>2. KeysFresh /\ TypeOK /\ [Next]_vars => KeysFresh'
  <2> SUFFICES ASSUME KeysFresh, TypeOK, [Next]_vars
               PROVE  KeysFresh'
    OBVIOUS
  <2>1. CASE ReadPhase
    <3>1. CASE ReadController
      BY <3>1 DEF ReadController, KeysFresh
    <3>2. CASE SkipRead
      BY <2>1, <3>2 DEF ReadPhase, SkipRead, KeysFresh
    <3> QED
      BY <2>1, <3>1, <3>2 DEF ReadPhase
  <2>2. CASE LogicPhase
    <3>1. phase = "logic" /\ phase' = "draw"
      BY <2>2 DEF LogicPhase
    <3>2. CASE Require(TRUE, TRUE)
      <4>1. RequiresControllerRead'
        BY <3>2, RequireEffect
      <4> QED
        BY <3>1, <4>1 DEF KeysFresh
    <3>3. CASE ActiveMode' = "Menu"
      BY <3>3 DEF KeysFresh
    <3>4. CASE ActiveMode # "Menu" /\ LeaveKeys
      BY <3>1, <3>4 DEF KeysFresh, LeaveKeys
    <3>5. InitLogic => Require(TRUE, TRUE) \/ LeaveKeys
      BY DEF InitLogic, InitWaits, InitReadsMetadata, InitImports, Retry,
             LoadInternalRom, KeepWaiting
    <3>6. PlayLogic => LeaveKeys \/ ActiveMode' = "Menu"
      BY DEF PlayLogic, PlayInstruction, PlayOpensMenu, PlayEndsFrame
    <3>7. MenuLogic /\ ActiveMode = "Menu" =>
            Require(TRUE, TRUE) \/ ActiveMode' = "Menu"
      BY DEF MenuLogic, MenuFirst, MenuUp, MenuDown, MenuSideways, MoveTo
    <3>8. OptionsLogic => Require(TRUE, TRUE) \/ LeaveKeys
      BY DEF OptionsLogic, OptionsFirst
    <3> QED
      BY <2>2, <3>2, <3>3, <3>4, <3>5, <3>6, <3>7, <3>8 DEF LogicPhase
  <2>3. CASE DrawPhase \/ SwapCartridge \/ UNCHANGED vars
    <3>1. /\ UNCHANGED <<keysUsed, ActiveMode, RequiresControllerRead>>
          /\ phase' = "logic" => phase = "logic"
      BY <2>3 DEF DrawPhase, SwapCartridge, flags, vars
    <3> QED
      BY <3>1 DEF KeysFresh
  <2> QED
    BY <2>1, <2>2, <2>3 DEF Next, MainLoop
<1>3. KeysFresh => [phase = "logic" /\ keysUsed =>
                      ActiveMode = "Menu"
                        \/ UNCHANGED <<ActiveMode, InitState, optionVars>>]_vars
  BY DEF KeysFresh
<1> QED
  BY <1>1, <1>2, <1>3, Typing, PTL DEF Spec, ReleasesActOnce
=============================================================================
