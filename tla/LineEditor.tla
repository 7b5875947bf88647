------------------------------ MODULE LineEditor ------------------------------
(***************************************************************************)
(* A line being edited: what stands before and after its cursor.  What     *)
(* PromptCapture promises to keep of the keys a user sends to a program.   *)
(***************************************************************************)
EXTENDS Naturals, Sequences, SequencesExt

CONSTANTS Characters, Blank, MaxCharacters

VARIABLES before, after, sent

Init == before = <<>> /\ after = <<>> /\ sent = <<>>

Line == before \o after

\* Moves the cursor n characters towards the start or the end, or to either.
Left(n)  == /\ before' = SubSeq(before, 1, Len(before) - n)
            /\ after' = SubSeq(before, Len(before) - n + 1, Len(before)) \o after
            /\ sent' = sent
Right(n) == /\ before' = before \o SubSeq(after, 1, n)
            /\ after' = SubSeq(after, n + 1, Len(after))
            /\ sent' = sent

Insert(c) == /\ Len(Line) < MaxCharacters
             /\ before' = Append(before, c) /\ after' = after /\ sent' = sent

\* Characters go from either side of the cursor, a blank-ended word with the
\* blanks that follow it, everything after the cursor, or the whole line.
Rubout == before # <<>> /\ before' = Front(before) /\ after' = after /\ sent' = sent
Delete == after # <<>> /\ after' = Tail(after) /\ before' = before /\ sent' = sent
Word == \E k \in 0..Len(before), m \in 0..Len(before) :
           /\ k <= m
           /\ \A i \in m + 1..Len(before) : before[i] = Blank
           /\ \A i \in k + 1..m : before[i] # Blank
           /\ m = 0 \/ before[m] # Blank
           /\ k = 0 \/ before[k] = Blank
           /\ before' = SubSeq(before, 1, k) /\ after' = after /\ sent' = sent
Cut    == after' = <<>> /\ before' = before /\ sent' = sent
Clear  == before' = <<>> /\ after' = <<>> /\ sent' = sent

Submit == sent' = Line /\ before' = <<>> /\ after' = <<>>

Next == \/ \E n \in 0..Len(before) : Left(n)
        \/ \E n \in 0..Len(after) : Right(n)
        \/ \E c \in Characters : Insert(c)
        \/ Rubout \/ Delete \/ Word \/ Cut \/ Clear \/ Submit

Spec == Init /\ [][Next]_<<before, after, sent>>
=============================================================================
