---------------------------- MODULE MCLiveScreen -----------------------------
(* Instances of LiveScreen for TLC.                                          *)
EXTENDS LiveScreen, TLC

\* a tab with one screen under the key notifications: of the two hints of a change,
\* the community's concerns screens the tab does not show, and the personal one this
OneScreen == {"screen"}
OneScreenKeys == ("gate" :> {}) @@ ("notifications" :> OneScreen)
AnySubset == SUBSET OneScreen

\* the screen has a safety net or belongs to the tab's mutation, one of the two
Either == (net = {}) = (ownKeys # {})
=============================================================================
