------------------------------ MODULE BlockLog ------------------------------
(***************************************************************************)
(* What the block list promises its host: a log of finished commands that  *)
(* only grows, in the order of their numbers, and at most one command that *)
(* is not finished.  A finished entry never changes, no number is used     *)
(* twice, and only clearing the whole log removes an entry.                *)
(***************************************************************************)
EXTENDS Naturals, Sequences

CONSTANTS
    None,    \* the exit code of a command that ended without one
    Codes    \* exit codes

VARIABLES
    log,     \* the finished commands: number and exit code
    active,  \* number of the command not finished, or 0
    next     \* the next number

Init == log = << >> /\ active = 0 /\ next = 1

Closed(code) == Append(log, [id |-> active, exit_code |-> code])

(* A new command; the one still active is finished without an exit code.   *)
Begin ==
    /\ active' = next
    /\ next' = next + 1
    /\ log' = IF active = 0 THEN log ELSE Closed(None)

Finish ==
    /\ active # 0
    /\ \E code \in Codes : log' = Closed(code)
    /\ active' = 0
    /\ UNCHANGED next

Clear ==
    /\ log' = << >>
    /\ active' = 0
    /\ UNCHANGED next

Next == Begin \/ Finish \/ Clear

Spec == Init /\ [][Next]_<<log, active, next>>

=============================================================================
