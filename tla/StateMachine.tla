---------------------------- MODULE StateMachine ----------------------------
(* The transition gate every service shares (app/core/state_machine.py).     *)
(* A transition map is a function from states to the set of states that may  *)
(* follow; a terminal state maps to the empty set.                           *)

\* can_transition: a declared move
CanTransition(current, target, allowed) ==
  /\ current \in DOMAIN allowed
  /\ target \in allowed[current]

\* is_terminal: nothing may follow
IsTerminal(state, allowed) ==
  state \in DOMAIN allowed => allowed[state] = {}

\* ensure_transition: TRUE where the code returns, FALSE where it raises.  A
\* state without successors fails CanTransition, so the code's separate
\* "terminal" branch only chooses another message.
EnsureTransition(current, target, allowed, allowNoop) ==
  IF current = target THEN allowNoop
                      ELSE CanTransition(current, target, allowed)
=============================================================================
