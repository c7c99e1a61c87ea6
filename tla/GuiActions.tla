------------------------------ MODULE GuiActions ------------------------------
(***************************************************************************)
(* gui_action (tools/gui_action_tool.cpp) over ActionExecutor                *)
(* (gui/action_executor.cpp): an action is one or more requests to the X     *)
(* server, each of which may fail, on a display that other callers and the   *)
(* person in front of it use at the same time.  The size of the screen is    *)
(* nobody's argument: a position beyond it is accepted, and the server moves *)
(* the pointer to somewhere on the screen instead (libxdo and the X server   *)
(* are external).                                                            *)
(***************************************************************************)
EXTENDS Naturals, Sequences

CONSTANTS
  Callers,     \* tool calls that may be under way together
  Points,      \* the positions on the screen
  Beyond,      \* positions with x and y not negative that are not on it
  Center,      \* where the pointer is at first
  MaxCalls, MaxNudges   \* bounds: calls per caller, pointer moves of a person

Arguments == {"missing", "malformed"}   \* not there; not a number in full
NoPoint == "negative"                   \* an x or y below zero
Buttons == {"0", "1", "5", "6"}         \* the first and last button, and the next

(* x and y together, button and text as execute() gets them.                 *)
Requests ==
  [action : {"move_mouse", "click"}, at : Arguments \cup {NoPoint} \cup Points \cup Beyond,
   button : Arguments \cup Buttons, text : {"missing"}]
  \cup [action : {"type_text", "key_press"}, at : {"missing"}, button : {"missing"},
        text : {"missing", "empty", "given"}]
  \cup [action : {"missing", "other"}, at : {"missing"}, button : {"missing"},
        text : {"missing"}]

VARIABLES
  pointer,     \* where the pointer is
  pc,          \* 0 when idle, else the request to the X server that is next
  request,     \* the arguments of the caller's call, once they are accepted
  effects,     \* what the call has done to the display, and where
  result,      \* "none", "ok" or "failed"
  calls, nudges,
  disturbed    \* history: the pointer was moved since the caller moved it

vars == <<pointer, pc, request, effects, result, calls, nudges, disturbed>>

NoRequest == [action |-> "missing", at |-> "missing", button |-> "missing",
              text |-> "missing"]

Init ==
  /\ pointer = Center
  /\ pc = [c \in Callers |-> 0] /\ request = [c \in Callers |-> NoRequest]
  /\ effects = [c \in Callers |-> <<>>] /\ result = [c \in Callers |-> "none"]
  /\ calls = [c \in Callers |-> 0] /\ nudges = 0
  /\ disturbed = [c \in Callers |-> FALSE]

-----------------------------------------------------------------------------
(* A button that is not given is the first.                                  *)
ButtonAccepted(b) == b \in {"missing", "1", "5"}
Defaulted(r) ==
  IF r.action = "click" /\ r.button = "missing" THEN [r EXCEPT !.button = "1"] ELSE r

(* The checks of gui_action and of ActionExecutor that precede the first     *)
(* request to the X server.                                                  *)
Accepted(r) ==
  CASE r.action = "move_mouse" -> r.at \in Points \cup Beyond
    [] r.action = "click" -> r.at \in Points \cup Beyond /\ ButtonAccepted(r.button)
    [] r.action \in {"type_text", "key_press"} -> r.text = "given"
    [] OTHER -> FALSE
Acceptable == {r \in Requests : Accepted(r)}

(* The requests an action makes; "window" only asks for the active window,   *)
(* and xdo_click_window presses the button and then releases it.             *)
Plan(r) ==
  CASE r.action = "move_mouse" -> <<"move">>
    [] r.action = "click" -> <<"move", "window", "down", "up">>
    [] r.action = "type_text" -> <<"window", "type">>
    [] OTHER -> <<"window", "key">>

Return(c, outcome) ==
  /\ pc' = [pc EXCEPT ![c] = 0]
  /\ result' = [result EXCEPT ![c] = outcome]

Call(c) ==
  /\ pc[c] = 0 /\ calls[c] < MaxCalls
  /\ calls' = [calls EXCEPT ![c] = @ + 1]
  /\ effects' = [effects EXCEPT ![c] = <<>>]
  /\ disturbed' = [disturbed EXCEPT ![c] = FALSE]
  /\ \/ \E r \in Acceptable :
          /\ request' = [request EXCEPT ![c] = Defaulted(r)]
          /\ pc' = [pc EXCEPT ![c] = 1]
          /\ result' = [result EXCEPT ![c] = "none"]
     \/ /\ Acceptable # Requests
        /\ request' = [request EXCEPT ![c] = NoRequest]
        /\ Return(c, "failed")
  /\ UNCHANGED <<pointer, nudges>>

(* Where the server puts a pointer that is told to go to a position.         *)
Landings(at) == IF at \in Points THEN {at} ELSE Points

(* The request at hand takes effect, at the place where the pointer is; the  *)
(* action goes on, or succeeds after the last one.                           *)
XSucceeds(c) ==
  /\ pc[c] # 0
  /\ LET plan == Plan(request[c])
         what == plan[pc[c]]
     IN /\ pointer' \in IF what = "move" THEN Landings(request[c].at) ELSE {pointer}
        /\ effects' = [effects EXCEPT ![c] =
                         IF what = "window" THEN @ ELSE Append(@, <<what, pointer'>>)]
        /\ disturbed' = [d \in Callers |-> IF what # "move" THEN disturbed[d] ELSE d # c]
        /\ IF pc[c] = Len(plan) THEN Return(c, "ok")
           ELSE pc' = [pc EXCEPT ![c] = @ + 1] /\ UNCHANGED result
  /\ UNCHANGED <<request, calls, nudges>>

XFailsUnnoticed(c) ==          \* click() does not look at the move's result
  /\ pc[c] # 0
  /\ IF pc[c] < Len(Plan(request[c]))
       THEN pc' = [pc EXCEPT ![c] = @ + 1] /\ UNCHANGED result
       ELSE Return(c, "failed")
  /\ UNCHANGED <<pointer, request, effects, calls, nudges, disturbed>>

(* The request fails; of a text, some characters may have been typed.        *)
XFails(c) ==
  /\ pc[c] # 0
  /\ Return(c, "failed")
  /\ \/ UNCHANGED effects
     \/ /\ Plan(request[c])[pc[c]] = "type"
        /\ effects' = [effects EXCEPT ![c] = Append(@, <<"some", pointer>>)]
  /\ UNCHANGED <<pointer, request, calls, nudges, disturbed>>

(* The person moves the mouse.                                               *)
Nudge ==
  /\ nudges < MaxNudges /\ nudges' = nudges + 1
  /\ pointer' \in Points \ {pointer}
  /\ disturbed' = [c \in Callers |-> TRUE]
  /\ UNCHANGED <<pc, request, effects, result, calls>>

Terminated == \A c \in Callers : pc[c] = 0 /\ calls[c] = MaxCalls

Next ==
  \/ \E c \in Callers : Call(c) \/ XSucceeds(c) \/ XFails(c)
  \/ Nudge
  \/ Terminated /\ UNCHANGED vars

Spec == Init /\ [][Next]_vars

-----------------------------------------------------------------------------
(* What a call did to the display, without the places.                       *)
Done(c) == [i \in 1..Len(effects[c]) |-> effects[c][i][1]]

(* All of what an action is.                                                 *)
Whole(action) ==
  CASE action = "move_mouse" -> <<"move">>
    [] action = "click" -> <<"move", "down", "up">>
    [] action = "type_text" -> <<"type">>
    [] OTHER -> <<"key">>

(* The report of a call is true: a success has done all of what the action   *)
(* is, and pressed and released where it was told to if that is on the       *)
(* screen, unless somebody moved the pointer after the call had (told to go  *)
(* beyond the screen, it says the same of a place that it never reached); a  *)
(* failure has done nothing, or of a click has moved the pointer, and        *)
(* perhaps left the button down, or has typed part of a text.                *)
ReportIsTrue ==
  \A c \in Callers :
    /\ result[c] = "ok" =>
         /\ Done(c) = Whole(request[c].action)
         /\ (/\ request[c].action \in {"move_mouse", "click"}
             /\ request[c].at \in Points /\ ~disturbed[c]) =>
              \A i \in 1..Len(effects[c]) : effects[c][i][2] = request[c].at
    /\ result[c] = "failed" =>
         \/ Done(c) = <<>>
         \/ request[c].action = "click" /\ Done(c) \in {<<"move">>, <<"move", "down">>}
         \/ request[c].action = "type_text" /\ Done(c) = <<"some">>

=============================================================================
