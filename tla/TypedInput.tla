----------------------------- MODULE TypedInput -----------------------------
(***************************************************************************)
(* What the input queue of a terminal promises (src/terminal.rs:           *)
(* TerminalInputQueue, TerminalInputReceiver): what is accepted is typed   *)
(* into the terminal in the order it was accepted, each message at most    *)
(* once, until the terminal stops taking input; from then on nothing is    *)
(* accepted and nothing is typed.  TerminalInput implements it.            *)
(***************************************************************************)
EXTENDS Naturals, Sequences

CONSTANT Numbers      \* the numbers of messages

VARIABLES
    line,       \* accepted and not yet typed
    typed,      \* what reached the terminal
    broken      \* the terminal takes no more input

typedVars == <<line, typed, broken>>

Init == line = <<>> /\ typed = <<>> /\ broken = FALSE

\* A message is accepted: nothing that was accepted before has its number.
Accept ==
    \E n \in Numbers :
        /\ ~broken
        /\ \A i \in DOMAIN line : line[i] < n
        /\ \A i \in DOMAIN typed : typed[i] < n
        /\ line' = Append(line, n)
        /\ UNCHANGED <<typed, broken>>

Type ==
    /\ line # <<>>
    /\ typed' = Append(typed, Head(line))
    /\ line' = Tail(line)
    /\ UNCHANGED broken

Break ==
    /\ ~broken
    /\ broken' = TRUE
    /\ line' = <<>>
    /\ UNCHANGED typed

Next == Accept \/ Type \/ Break

Spec == Init /\ [][Next]_typedVars
=============================================================================
