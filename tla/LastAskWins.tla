---------------------------- MODULE LastAskWins ----------------------------
(***************************************************************************)
(* What the hosts screen promises about connecting, without tasks, timers  *)
(* or view models.  Asks to connect are numbered.  At most one ask is      *)
(* being worked on, a new one replaces it, and the session that becomes    *)
(* live is always the one of the ask being worked on: an ask that was      *)
(* replaced or given up can never come back.                               *)
(***************************************************************************)
EXTENDS Naturals

VARIABLES
    asks,   \* how many asks were made
    ask,    \* the ask being worked on, or 0
    live    \* the ask whose session is live, or 0

Init == asks = 0 /\ ask = 0 /\ live = 0

(* A new ask, which may also give up the session that is live.             *)
Ask ==
    /\ asks' = asks + 1
    /\ ask' = asks'
    /\ live' \in {0, live}

Adopt ==
    /\ ask # 0
    /\ live' = ask
    /\ ask' = 0
    /\ UNCHANGED asks

(* The ask fails or is dropped, the live session is ended, or both.        *)
Forget ==
    /\ ask' \in {0, ask}
    /\ live' \in {0, live}
    /\ UNCHANGED asks

Next == Ask \/ Adopt \/ Forget

Spec == Init /\ [][Next]_<<asks, ask, live>>

=============================================================================
