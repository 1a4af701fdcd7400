------------------------------ MODULE Painting ------------------------------
(***************************************************************************)
(* The glow of the buttons (main_window::OnPaint and _interpolate in       *)
(* src/source/src/main.cpp), painted by the main thread while the          *)
(* monitor's thread changes extra_info (keys_manager.hpp).                 *)
(*                                                                         *)
(* keys_manager::m orders the events and the change of the layout, but the *)
(* paint reads extra_info without it: each read of a field is a step.  An  *)
(* event is stamped by the monitor before it is delivered.                 *)
(***************************************************************************)
EXTENDS Integers

CONSTANTS
  Buttons,  \* of the layout in use
  MaxTime   \* bound: the clock

VARIABLES
  clock,          \* external: the steady clock
  down, previous_down, previous_up, \* extra_info; time_point{} is 0
  update,         \* the event under way, NoUpdate otherwise
  paint,          \* OnPaint: the next step, and the button
  now, down_alpha_param, up_alpha_param, \* its locals
  overtaken       \* history: an event was written since the paint read the clock

info == <<down, previous_down, previous_up>>
locals == <<now, down_alpha_param, up_alpha_param>>
paintVars == <<clock, info, update, paint, locals, overtaken>>

NoUpdate == [at |-> "none"]
Update == [at : {"stamped", "flagged"}, button : Buttons, isDown : BOOLEAN, time : Nat]

PaintInit ==
  /\ clock = 1
  /\ down = [i \in Buttons |-> FALSE]
  /\ previous_down = [i \in Buttons |-> 0]
  /\ previous_up = [i \in Buttons |-> 0]
  /\ update = NoUpdate
  /\ paint = [at |-> "none"]
  /\ now = 0 /\ down_alpha_param = 0 /\ up_alpha_param = 0
  /\ overtaken = FALSE

Tick ==
  /\ clock < MaxTime
  /\ clock' = clock + 1
  /\ UNCHANGED <<info, update, paint, locals, overtaken>>

-----------------------------------------------------------------------------
\* The monitor reads the clock, then calls back; update_on_key_down writes the flag and
\* the time of a button whose key it is.
OnKey(i, isDown) ==
  /\ update = NoUpdate
  /\ update' = [at |-> "stamped", button |-> i, isDown |-> isDown, time |-> clock]
  /\ UNCHANGED <<clock, info, paint, locals, overtaken>>

UpdateFlag ==
  /\ update.at = "stamped"
  /\ down' = [down EXCEPT ![update.button] = update.isDown]
  /\ update' = [update EXCEPT !.at = "flagged"]
  /\ UNCHANGED <<clock, previous_down, previous_up, paint, locals, overtaken>>

UpdateTime ==
  /\ update.at = "flagged"
  /\ IF update.isDown
     THEN previous_down' = [previous_down EXCEPT ![update.button] = update.time] /\ UNCHANGED previous_up
     ELSE previous_up' = [previous_up EXCEPT ![update.button] = update.time] /\ UNCHANGED previous_down
  /\ update' = NoUpdate
  /\ overtaken' = TRUE
  /\ UNCHANGED <<clock, down, paint, locals>>

\* set_button_count, between two paints and two events.
SetButtonCount ==
  /\ paint.at = "none" /\ update.at \in {"none", "stamped"}
  /\ down' = [i \in Buttons |-> FALSE]
  /\ previous_down' = [i \in Buttons |-> 0]
  /\ previous_up' = [i \in Buttons |-> 0]
  /\ UNCHANGED <<clock, update, paint, locals, overtaken>>

-----------------------------------------------------------------------------
\* OnPaint for one button: the clock, the two times, _interpolate for the press, the
\* flag, and _interpolate for the release if the button is up.
ReadClock(i) ==
  /\ paint.at = "none"
  /\ now' = clock
  /\ overtaken' = FALSE
  /\ paint' = [at |-> "clock", button |-> i]
  /\ UNCHANGED <<clock, info, update, down_alpha_param, up_alpha_param>>

ReadPreviousDown ==
  /\ paint.at = "clock"
  /\ down_alpha_param' = now - previous_down[paint.button]
  /\ paint' = [paint EXCEPT !.at = "down"]
  /\ UNCHANGED <<clock, info, update, now, up_alpha_param, overtaken>>

ReadPreviousUp ==
  /\ paint.at = "down"
  /\ up_alpha_param' = now - previous_up[paint.button]
  /\ paint' = [paint EXCEPT !.at = "up"]
  /\ UNCHANGED <<clock, info, update, now, down_alpha_param, overtaken>>

\* _interpolate throws for a negative parameter; nothing catches it.
Interpolated(param, next) ==
  paint' = IF param < 0 THEN [at |-> "thrown"] ELSE next

PressColor ==
  /\ paint.at = "up"
  /\ Interpolated(down_alpha_param, [paint EXCEPT !.at = "pressed"])
  /\ UNCHANGED <<clock, info, update, locals, overtaken>>

ReleaseColor ==
  /\ paint.at = "pressed"
  /\ IF down[paint.button] THEN paint' = [at |-> "none"]
     ELSE Interpolated(up_alpha_param, [at |-> "none"])
  /\ UNCHANGED <<clock, info, update, locals, overtaken>>

Monitor == (\E i \in Buttons, isDown \in BOOLEAN : OnKey(i, isDown)) \/ UpdateFlag \/ UpdateTime
PaintButton ==
  \/ \E i \in Buttons : ReadClock(i)
  \/ ReadPreviousDown \/ ReadPreviousUp \/ PressColor \/ ReleaseColor

PaintNext == paint.at # "thrown" /\ (Tick \/ Monitor \/ SetButtonCount \/ PaintButton)
PaintSpec == PaintInit /\ [][PaintNext]_paintVars

-----------------------------------------------------------------------------
(* Properties *)

\* _interpolate demands that its parameter be no negative number (main.cpp line 636);
\* given one, it throws out of the window procedure.
ParamsNotNegative == paint.at # "thrown"

\* Only a paint that an event overtook can throw.
ThrowsOnlyIfOvertaken == paint.at = "thrown" => overtaken
=============================================================================
