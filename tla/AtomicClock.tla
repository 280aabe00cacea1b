---------------------------- MODULE AtomicClock -----------------------------
(***************************************************************************)
(* What a node's clock promises the threads that share it: raising it to a *)
(* version read elsewhere and drawing the next value are single steps.     *)
(* DSTMTransaction takes the clock in this form.                           *)
(***************************************************************************)
EXTENDS Naturals

CONSTANTS Caller, Version, MaxCalls  \* as in LocalClock

VARIABLES clock,  \* the clock
          seen,   \* the newest version each caller has raised the clock to
          drawn   \* the values drawn: by whom, in which call, knowing what

vars == <<clock, seen, drawn>>

Init == clock = 0 /\ seen = [c \in Caller |-> 0] /\ drawn = {}

Max2(x, y) == IF x > y THEN x ELSE y

Raise(c, v) ==
    /\ clock' = Max2(v, clock)
    /\ seen' = [seen EXCEPT ![c] = Max2(v, @)]
    /\ UNCHANGED drawn

Draw(c, k) ==
    /\ clock' = clock + 1
    /\ drawn' = drawn \cup {[by |-> c, call |-> k, value |-> clock + 1,
                             seen |-> seen[c]]}
    /\ UNCHANGED seen

Next == \E c \in Caller : \/ \E v \in Version : Raise(c, v)
                          \/ \E k \in 1..MaxCalls : Draw(c, k)

Spec == Init /\ [][Next]_vars
=============================================================================
