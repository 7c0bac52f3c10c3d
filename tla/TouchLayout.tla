------------------------------ MODULE TouchLayout ------------------------------
(***************************************************************************)
(* Where the touch controls of the browser client are                       *)
(* (apps/web_alpha/session_transport.js): moved by sliders or by dragging,  *)
(* saved as presets under a name, clamped to the window, and read back from *)
(* the browser's storage at the next visit.                                 *)
(*                                                                         *)
(* A place is its distance to the nearer edge of the window.                *)
(***************************************************************************)
EXTENDS Integers, FiniteSets

CONSTANTS Controls,    \* controlGroups
          LayoutNames, \* names of presets
          Spots,      \* where a control is dragged to
          WideMargin, NarrowMargin \* the least distance, in a wide and in a narrow window

ASSUME TouchAssumption ==
  /\ Spots \subseteq Nat /\ {WideMargin, NarrowMargin} \subseteq Nat /\ WideMargin <= NarrowMargin
  /\ "" \notin LayoutNames

VARIABLES yWindow,  \* the margin in the window
          yLayout,  \* activeTouchLayout
          yName,    \* touchLayoutState.activeName
          yPresets, \* touchPresets
          yStored,  \* localStorage
          yMode,    \* touchLayoutEditing, and if with the editor
          yDrag     \* controls that are dragged

yVars == <<yWindow, yLayout, yName, yPresets, yStored, yMode, yDrag>>

NoLayout == [c \in {} |-> 0]
NoPresets == [n \in LayoutNames |-> NoLayout]
Default == [c \in Controls |-> NarrowMargin]

\* validTouchLayout and applyTouchLayout
Confined(layout, margin) ==
  [c \in DOMAIN layout |-> IF layout[c] < margin THEN margin ELSE layout[c]]

TouchInit ==
  /\ yWindow \in {WideMargin, NarrowMargin} /\ yLayout = NoLayout /\ yName = "" /\ yPresets = NoPresets
  /\ yStored = [name |-> "", layout |-> NoLayout, presets |-> NoPresets]
  /\ yMode = "locked" /\ yDrag = {}

\* persistTouchLayout, after the layout, its name and the presets have been changed
Persisted == yStored' = [name |-> yName', layout |-> yLayout', presets |-> yPresets']

\* What a page that is loaded begins with
Restored(margin) ==
  Confined(IF yStored.name # "" /\ yStored.presets[yStored.name] # NoLayout
          THEN yStored.presets[yStored.name] ELSE yStored.layout, margin)

Reload ==
  /\ yWindow' \in {WideMargin, NarrowMargin} /\ yLayout' = Restored(yWindow')
  /\ yName' = yStored.name /\ yPresets' = yStored.presets
  /\ yMode' = "locked" /\ yDrag' = {} /\ UNCHANGED yStored

\* Mutant: the controls stay where they are.
UnclampedAt(margin) == yLayout

ClampedAt(margin) == Confined(yLayout, margin)

WindowResized ==
  /\ yWindow' \in {WideMargin, NarrowMargin} \ {yWindow} /\ UNCHANGED <<yName, yPresets, yMode, yDrag>>
  /\ yLayout' = ClampedAt(yWindow')
  /\ IF yLayout = NoLayout THEN UNCHANGED yStored ELSE Persisted

-----------------------------------------------------------------------------
(* A control is moved. *)

\* Mutant: the layout is still that of the preset.
NameKept == yName' = yName

NameDropped == yName' = ""

Moved(c, place) ==
  /\ LET layout == IF yLayout = NoLayout THEN Confined(Default, yWindow) ELSE yLayout
     IN yLayout' = Confined([layout EXCEPT ![c] = place], yWindow)
  /\ NameDropped /\ UNCHANGED yPresets /\ Persisted

\* updateLayoutPoint
SliderMoves ==
  /\ yMode = "editor" /\ UNCHANGED <<yWindow, yMode, yDrag>>
  /\ \E c \in Controls, place \in Spots : Moved(c, place)

DragStarts ==
  /\ yMode # "locked" /\ \E c \in Controls : yDrag' = yDrag \cup {c}
  /\ UNCHANGED <<yWindow, yLayout, yName, yPresets, yStored, yMode>>

\* A drag goes on when the controls are locked meanwhile.
DragMoves ==
  /\ UNCHANGED <<yWindow, yMode, yDrag>>
  /\ \E c \in yDrag, place \in Spots : Moved(c, place)

DragEnds ==
  /\ \E c \in yDrag : yDrag' = yDrag \ {c}
  /\ UNCHANGED <<yWindow, yLayout, yName, yPresets, yStored, yMode>>

-----------------------------------------------------------------------------
(* The editor. *)

SavePreset ==
  /\ yMode = "editor" /\ yLayout # NoLayout /\ UNCHANGED <<yWindow, yMode, yDrag>>
  /\ \E n \in LayoutNames : yPresets' = [yPresets EXCEPT ![n] = Confined(yLayout, yWindow)] /\ yName' = n
  /\ yLayout' = Confined(yLayout, yWindow) /\ Persisted

LoadPreset ==
  /\ yMode = "editor" /\ UNCHANGED <<yWindow, yPresets, yMode, yDrag>>
  /\ \E n \in LayoutNames :
       yPresets[n] # NoLayout /\ yName' = n /\ yLayout' = Confined(yPresets[n], yWindow)
  /\ Persisted

ResetLayout ==
  /\ yMode = "editor" /\ yLayout' = NoLayout /\ yName' = "" /\ UNCHANGED <<yWindow, yPresets, yMode, yDrag>>
  /\ Persisted

\* setTouchLayoutEditing: begun without, ended with saving
SetTouchLayoutEditing ==
  /\ \E mode \in {"locked", "free", "editor"} :
       /\ yMode' = mode
       /\ IF mode = "locked" THEN yMode # "locked" /\ UNCHANGED <<yLayout, yName, yPresets>> /\ Persisted
          ELSE /\ mode = "free" => yMode = "locked"
               /\ yLayout' = Confined(IF yLayout = NoLayout THEN Default ELSE yLayout, yWindow)
               /\ UNCHANGED <<yName, yPresets, yStored>>
  /\ UNCHANGED <<yWindow, yDrag>>

TouchNext ==
  \/ Reload \/ WindowResized \/ SliderMoves \/ DragStarts \/ DragMoves \/ DragEnds
  \/ SavePreset \/ LoadPreset \/ ResetLayout \/ SetTouchLayoutEditing

TouchSpec == TouchInit /\ [][TouchNext]_yVars

-----------------------------------------------------------------------------
(* Properties. *)

\* A visit in the same window has the controls where they are now, also while a drag is
\* going on; or where the preset has them, if only a window too small for it has moved
\* them; or nowhere, if the player has just begun to edit.
ReloadKeepsLayout ==
  LET next == Restored(yWindow)
  IN \/ next = yLayout
     \/ yName # "" /\ next = Confined(yPresets[yName], yWindow) /\ yLayout = Confined(next, NarrowMargin)
     \/ yMode # "locked" /\ next = NoLayout /\ yLayout = Confined(Default, yWindow)

\* No control is outside the window, whatever its size was when the layout was made.
ControlsOnScreen == \A c \in DOMAIN yLayout : yLayout[c] >= yWindow

\* The controls stay where they were put, within reach.
TouchInv == ReloadKeepsLayout /\ ControlsOnScreen
=============================================================================
