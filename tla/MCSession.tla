----------------------------- MODULE MCSession -----------------------------
(***************************************************************************)
(* Buttons, releases and cartridges to check Session with.                 *)
(***************************************************************************)
EXTENDS Session

(* The buttons the functions start on, and the one of the internal game.   *)
FourButtons == <<"L", "R", "Start", "CDown">>
ThreeButtons == <<"L", "R", "Start">>

OneCart == {"red"}
TwoCarts == {"red", "blue"}

Alone(S) == {{b} : b \in S} \cup {{}}

(* Moving the cursor, and leaving with the buttons that may be assigned.   *)
MenuKeys == Alone(Reserved \cup {"L", "R", "Start"})

(* Loading, opening the menu, moving down to an item, and executing it.    *)
SaveKeys == Alone({"A", "L", "Down", "CDown"})

(* The saves and the cartridges are the subject of other runs.             *)
NothingToSave == ~isSRAMDirty /\ ~pulled
=============================================================================
