------------------------------- MODULE MCTools -------------------------------
(***************************************************************************)
(* What two agents reach from their own threads at the same time: HTTP       *)
(* services, a file and the display.  These share no state, so that in a     *)
(* behaviour one of them is used, the one in focus, and the others stay as   *)
(* they are.                                                                 *)
(***************************************************************************)
EXTENDS HttpCalls, TLC

CONSTANTS
  Inodes, None, Directory, MaxReadBytes, CreateParents,
  Points, Beyond, Center,
  MaxToolCalls, MaxEdits, MaxNudges     \* bounds: per caller; of somebody else

ASSUME ToolsAssumption ==
  /\ Inodes # {} /\ None \notin Inodes /\ Directory \notin Inodes
  /\ MaxReadBytes \in Nat /\ Center \in Points /\ Points \cap Beyond = {}

Agents == Permutations(Workers)

VARIABLES
  focus,
  path, data, parent, filePc, mode, handle, buffer, good, output, fileResult,   \* Files
  fileCalls, edits, before, alone, overwritten,
  pointer, guiPc, request, effects, guiResult, guiCalls, nudges, disturbed      \* Gui

Files == INSTANCE FileTools WITH
  Callers <- Workers, MaxCalls <- MaxToolCalls,
  pc <- filePc, result <- fileResult, calls <- fileCalls
Gui == INSTANCE GuiActions WITH
  Callers <- Workers, MaxCalls <- MaxToolCalls,
  pc <- guiPc, result <- guiResult, calls <- guiCalls

fileVars == <<path, data, parent, filePc, mode, handle, buffer, good, output, fileResult,
              fileCalls, edits, before, alone, overwritten>>
guiVars == <<pointer, guiPc, request, effects, guiResult, guiCalls, nudges, disturbed>>
MCVars == <<focus, vars, fileVars, guiVars>>

(* Out of focus there is no file yet.                                        *)
MCInit ==
  /\ focus \in {"http", "files", "gui"}
  /\ Init /\ Files!Init /\ Gui!Init
  /\ focus # "files" => parent = FALSE

(* Everything but what is in focus stays.                                    *)
Focus(component) ==
  /\ focus = component
  /\ focus' = focus
  /\ IF focus = "http" THEN TRUE ELSE UNCHANGED vars
  /\ IF focus = "files" THEN TRUE ELSE UNCHANGED fileVars
  /\ IF focus = "gui" THEN TRUE ELSE UNCHANGED guiVars

MCNext ==
  \/ Focus("http") /\ Next
  \/ Focus("files") /\ Files!Next
  \/ Focus("gui") /\ Gui!Next

MCSpec == MCInit /\ [][MCNext]_MCVars

-----------------------------------------------------------------------------
(* A write that reports success is on the disk, and a read that does returns *)
(* the start of the file within the limit (FileTools).                       *)
SuccessIsStored == Files!SuccessIsStored
(* Appends through one path do not overwrite each other (FileTools).         *)
AppendsAreKept == Files!AppendsAreKept
(* What a GUI action reports is what it did to the display, the place of a   *)
(* position beyond the screen excepted (GuiActions).                         *)
ReportIsTrue == Gui!ReportIsTrue
=============================================================================
