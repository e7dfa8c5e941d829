----------------------------- MODULE FlowWindow -----------------------------
(***************************************************************************)
(* Operations on a flow-control window (window.rs).  A window is an i32,   *)
(* it can be negative after a change of SETTINGS_INITIAL_WINDOW_SIZE.      *)
(***************************************************************************)
EXTENDS Integers

\* Window::window_size()
WindowSize(w) == IF w < 0 THEN 0 ELSE w

\* mutant: data that is not consumed yet is given back to the peer
AvailableAll(w, cap, max) == max - w

\* what a WINDOW_UPDATE frame may add to the window
Available(w, cap, max) == max - w - cap

\* mutant: the window is updated only when it is empty
UpdateDueEmpty(w, cap, max, threshold) == w = 0 /\ Available(w, cap, max) >= threshold

\* Window::update() returns an increment
UpdateDue(w, cap, max, threshold) == w < max /\ Available(w, cap, max) >= threshold

\* The window after Window::update()
Updated(w, cap, max, threshold) ==
    IF UpdateDue(w, cap, max, threshold) THEN w + Available(w, cap, max) ELSE w

\* Window::inc() overflows
Overflows(w, sz, limit) == w + sz > limit
=============================================================================
