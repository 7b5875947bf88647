---------------------------- MODULE SessionProofs ----------------------------
(***************************************************************************)
(* Proofs about what the clients and the threads of a terminal session     *)
(* share: its input queue (TerminalInput), its size (ClientViewports) and  *)
(* its locks (SessionLocks), for every set of callers, clients and threads *)
(* and every capacity.                                                     *)
(***************************************************************************)
EXTENDS TerminalInput, ClientViewports, SessionLocks, SequenceTheorems,
        WellFoundedInduction, TLAPS

-----------------------------------------------------------------------------
(***************************************************************************)
(* The input queue: what callers are told is so, the writer never sleeps   *)
(* on work, and the queue implements TypedInput.                           *)
(*                                                                         *)
(* AnswersTrue says something of answers that were given long ago; it      *)
(* holds because numbers only grow along the way from the queue through    *)
(* the writer to the terminal (Numbered), and because nothing is queued    *)
(* any more once the writer has failed (Settled).                          *)
(***************************************************************************)

\* Messages are typed, held and queued in the order of their numbers.
Numbered ==
    /\ \A i \in DOMAIN messages : messages[i].n <= accepted
    /\ \A i, j \in DOMAIN messages : i < j => messages[i].n < messages[j].n
    /\ \A k \in DOMAIN typed : typed[k] <= accepted
    /\ \A k \in DOMAIN typed, i \in DOMAIN messages : typed[k] < messages[i].n
    /\ thread = "writing" /\ current.n # 0 =>
           /\ current.n <= accepted
           /\ \A i \in DOMAIN messages : current.n < messages[i].n
           /\ \A k \in DOMAIN typed : typed[k] < current.n

\* What the writer's state says of the queue and of the message it holds.
Settled ==
    /\ failed => thread \in {"failing", "stopped"}
    /\ thread = "failing" => failed /\ ~WasTyped(current.n)
    /\ thread = "confirming" /\ current.n # 0 => WasTyped(current.n)
    /\ thread \in {"failing", "stopped"} => messages = <<>> /\ responses = <<>>
    /\ thread = "stopped" => closed \/ failed

\* A caller waits for a message while it is in write_confirmed, and its channel
\* holds the truth.
SlotsTrue ==
    \A c \in Callers :
        /\ call[c] = "waiting" <=> awaits[c] # 0
        /\ slot[c] # "empty" => awaits[c] # 0
        /\ slot[c] = "ok" => WasTyped(awaits[c])
        /\ slot[c] = "error" => failed /\ ~WasTyped(awaits[c])

ErrorsFinal == \A answer \in told : answer[2] = "error" => failed

IInv == /\ TypeOK
        /\ InputSound
        /\ Numbered
        /\ Settled
        /\ SlotsTrue
        /\ ErrorsFinal

LEMMA InitEstablishes == Init => IInv
<1> SUFFICES ASSUME Init PROVE IInv
  OBVIOUS
<1>1. TypeOK
  <2>1. /\ Nothing \in Response /\ <<>> \in Seq(Message)
        /\ <<>> \in Seq(Response) /\ <<>> \in Seq(1..MaxAccepted)
    BY EmptySeq DEF Nothing, Response
  <2>2. 0 \in 0..MaxAccepted
    BY InputAssumption
  <2> QED  BY <2>1, <2>2 DEF Init, TypeOK
<1>2. InputSound /\ Numbered /\ Settled /\ SlotsTrue /\ ErrorsFinal
  BY DEF Init, InputSound, AnswersTrue, WriterAwake, Numbered, Settled,
     SlotsTrue, ErrorsFinal, WasTyped, Nothing
<1> QED  BY <1>1, <1>2 DEF IInv

-----------------------------------------------------------------------------
(* The types.                                                              *)

LEMMA TypesKept == ASSUME TypeOK, SlotsTrue, [Next]_inputVars PROVE TypeOK'
<1> USE DEF queueVars, writerVars, callVars
<1>1. Exits => TypeOK'
  BY DEF Exits, TypeOK
<1>2. CloseQueue => TypeOK'
  BY DEF CloseQueue, Woken, TypeOK
<1>3. ASSUME NEW c \in Callers, CheckRunning(c) \/ Refused(c)
      PROVE  TypeOK'
  BY <1>3 DEF CheckRunning, Refused, TypeOK
<1>4. ASSUME NEW c \in Callers, TimesOut(c) PROVE TypeOK'
  BY <1>4, InputAssumption DEF TimesOut, TypeOK
<1>5. ASSUME NEW c \in Callers, Hear(c) PROVE TypeOK'
  <2>1. <<awaits[c], slot[c]>> \in (1..MaxAccepted) \X {"ok", "error"}
    BY <1>5, InputAssumption DEF Hear, SlotsTrue, TypeOK
  <2>2. awaits' \in [Callers -> 0..MaxAccepted]
    BY <1>5, InputAssumption DEF Hear, TypeOK
  <2> QED  BY <1>5, <2>1, <2>2 DEF Hear, TypeOK
<1>6. ASSUME NEW c \in Callers, NEW size \in Sizes, NEW confirmed \in BOOLEAN,
             Submit(c, size, confirmed)
      PROVE  TypeOK'
  <2> DEFINE m == [n |-> accepted + 1, size |-> size,
                   caller |-> IF confirmed THEN c ELSE None]
  <2>1. accepted + 1 \in 1..MaxAccepted
    BY <1>6, InputAssumption DEF Submit, TypeOK
  <2>2. m \in Message
    BY <2>1 DEF Message
  <2>3. messages' = Append(messages, m) /\ thread' = Woken
    BY <1>6 DEF Submit, Enqueue
  <2>4. messages' \in Seq(Message)
    BY <2>2, <2>3, AppendProperties DEF TypeOK
  <2>5. /\ accepted' \in 0..MaxAccepted
        /\ awaits' \in [Callers -> 0..MaxAccepted]
    BY <1>6, <2>1, InputAssumption DEF Submit, TypeOK
  <2> QED  BY <1>6, <2>3, <2>4, <2>5 DEF Submit, Woken, TypeOK
<1>7. ASSUME NEW size \in Sizes, Respond(size) PROVE TypeOK'
  <2>1. [Nothing EXCEPT !.size = size] \in Response
    BY DEF Nothing, Response
  <2>2. responses' \in Seq(Response)
    BY <1>7, <2>1, AppendProperties DEF Respond, TypeOK
  <2> QED  BY <1>7, <2>2 DEF Respond, Woken, TypeOK
<1>8. Take => TypeOK'
  <2> SUFFICES ASSUME Take PROVE TypeOK'
    OBVIOUS
  <2>1. CASE responses # <<>>
    <3>1. Head(responses) \in Response /\ Tail(responses) \in Seq(Response)
      BY <2>1, HeadTailProperties DEF TypeOK
    <3> QED  BY <2>1, <3>1 DEF Take, TypeOK
  <2>2. CASE responses = <<>>
    <3>1. Head(messages) \in Message /\ Tail(messages) \in Seq(Message)
      BY <2>2, HeadTailProperties DEF Take, TypeOK
    <3> QED  BY <2>2, <3>1 DEF Take, TypeOK
  <2> QED  BY <2>1, <2>2
<1>9. WaitOrStop => TypeOK'
  BY DEF WaitOrStop, TypeOK
<1>10. Write => TypeOK'
  <2> SUFFICES ASSUME Write PROVE TypeOK'
    OBVIOUS
  <2>1. current.n = 0 \/ current.n \in 1..MaxAccepted
    BY DEF TypeOK, Message, Response
  <2>2. typed' \in Seq(1..MaxAccepted)
    BY <2>1, AppendProperties DEF Write, TypeOK
  <2> QED  BY <2>2 DEF Write, TypeOK
<1>11. WriteFails => TypeOK'
  <2>1. <<>> \in Seq(Message) /\ <<>> \in Seq(Response)
    BY EmptySeq
  <2> QED  BY <2>1 DEF WriteFails, TypeOK
<1>12. Tell => TypeOK'
  <2>1. Nothing \in Response
    BY DEF Nothing, Response
  <2> QED  BY <2>1 DEF Tell, Answered, TypeOK
<1>13. UNCHANGED inputVars => TypeOK'
  BY DEF inputVars, TypeOK
<1> QED
  BY <1>1, <1>2, <1>3, <1>4, <1>5, <1>6, <1>7, <1>8, <1>9, <1>10, <1>11,
     <1>12, <1>13 DEF Next

\* The numbers of messages are numbers.
LEMMA NumbersNatural ==
    ASSUME TypeOK
    PROVE  /\ \A k \in DOMAIN typed : typed[k] \in Nat \ {0}
           /\ \A i \in DOMAIN messages : messages[i].n \in Nat \ {0}
<1>1. ASSUME NEW k \in DOMAIN typed PROVE typed[k] \in Nat \ {0}
  <2>1. typed \in Seq(1..MaxAccepted)
    BY DEF TypeOK
  <2>2. k \in 1..Len(typed)
    BY <2>1, <1>1, LenProperties
  <2>3. typed[k] \in 1..MaxAccepted
    BY <2>1, <2>2, ElementOfSeq
  <2> QED  BY <2>3, InputAssumption
<1>2. ASSUME NEW i \in DOMAIN messages PROVE messages[i].n \in Nat \ {0}
  <2>1. messages \in Seq(Message)
    BY DEF TypeOK
  <2>2. i \in 1..Len(messages)
    BY <2>1, <1>2, LenProperties
  <2>3. messages[i] \in Message
    BY <2>1, <2>2, ElementOfSeq
  <2> QED  BY <2>3, InputAssumption DEF Message
<1> QED  BY <1>1, <1>2

-----------------------------------------------------------------------------
(* The steps.  Most leave the line alone (Same).                           *)

Same == UNCHANGED <<messages, current, accepted, typed>>

LEMMA SameNumbers ==
    ASSUME IInv, Same, thread' = thread \/ thread' # "writing"
    PROVE  Numbered'
  BY DEF IInv, Same, Numbered

\* The end of the shell and the close of the queue.
LEMMA SessionKeeps ==
    ASSUME IInv, Exits \/ CloseQueue
    PROVE  InputSound' /\ Numbered' /\ Settled' /\ SlotsTrue' /\ ErrorsFinal'
<1> USE DEF queueVars, writerVars, callVars
<1>1. Same /\ (thread' = thread \/ thread' # "writing")
  BY DEF Same, Exits, CloseQueue, Woken
<1>2. Numbered'
  BY <1>1, SameNumbers
<1>3. Settled' /\ WriterAwake'
  BY <1>1 DEF IInv, TypeOK, InputSound, WriterAwake, Settled, WasTyped, Same,
     Exits, CloseQueue, Woken
<1>4. SlotsTrue' /\ AnswersTrue' /\ ErrorsFinal'
  BY <1>1 DEF IInv, InputSound, AnswersTrue, ErrorsFinal, SlotsTrue, WasTyped,
     Same, Exits, CloseQueue
<1> QED  BY <1>2, <1>3, <1>4 DEF InputSound

\* A caller's own steps.
LEMMA CallersKeep ==
    ASSUME IInv, NEW c \in Callers,
           CheckRunning(c) \/ Refused(c) \/ Hear(c) \/ TimesOut(c)
    PROVE  InputSound' /\ Numbered' /\ Settled' /\ SlotsTrue' /\ ErrorsFinal'
<1> USE DEF queueVars, writerVars, callVars
<1>1. Same /\ (thread' = thread \/ thread' # "writing")
  BY DEF Same, CheckRunning, Refused, Hear, TimesOut
<1>2. Numbered'
  BY <1>1, SameNumbers
<1>3. Settled' /\ WriterAwake'
  BY <1>1 DEF IInv, TypeOK, InputSound, WriterAwake, Settled, WasTyped, Same,
     CheckRunning, Refused, Hear, TimesOut
<1>4. SlotsTrue'
  BY <1>1 DEF IInv, TypeOK, SlotsTrue, WasTyped, Same,
     CheckRunning, Refused, Hear, TimesOut
<1>5. AnswersTrue' /\ ErrorsFinal'
  <2>1. CASE Hear(c)
    <3>1. told' = told \cup {<<awaits[c], slot[c]>>}
      BY <2>1 DEF Hear
    <3>2. slot[c] = "ok" \/ slot[c] = "error"
      BY <2>1 DEF Hear, IInv, TypeOK
    <3>3. /\ slot[c] = "ok" => WasTyped(awaits[c])
          /\ slot[c] = "error" => failed /\ ~WasTyped(awaits[c])
      BY DEF IInv, SlotsTrue
    <3>4. typed' = typed /\ failed' = failed
      BY <2>1 DEF Hear
    <3> QED
      BY <3>1, <3>2, <3>3, <3>4
         DEF IInv, InputSound, AnswersTrue, ErrorsFinal, WasTyped
  <2>2. CASE ~Hear(c)
    <3>1. told' = told /\ typed' = typed /\ failed' = failed
      BY <2>2 DEF CheckRunning, Refused, TimesOut
    <3> QED
      BY <3>1 DEF IInv, InputSound, AnswersTrue, ErrorsFinal, WasTyped
  <2> QED  BY <2>1, <2>2
<1> QED  BY <1>2, <1>3, <1>4, <1>5 DEF InputSound

LEMMA SubmitKeeps ==
    ASSUME IInv, NEW c \in Callers, NEW size \in Sizes,
           NEW confirmed \in BOOLEAN, Submit(c, size, confirmed)
    PROVE  InputSound' /\ Numbered' /\ Settled' /\ SlotsTrue' /\ ErrorsFinal'
<1> DEFINE m == [n |-> accepted + 1, size |-> size,
                 caller |-> IF confirmed THEN c ELSE None]
<1> USE DEF callVars
<1>1. /\ accepted \in Nat /\ accepted + 1 \in 1..MaxAccepted
      /\ m \in Message /\ m.n = accepted + 1
  BY InputAssumption DEF IInv, TypeOK, Submit, Message
<1>2. /\ messages' = Append(messages, m) /\ thread' = Woken
      /\ UNCHANGED <<responses, closed, failed, current, typed, told>>
      /\ accepted' = accepted + 1 /\ ~failed /\ ~closed
  BY DEF Submit, Enqueue, CheckOpen
<1>3. /\ DOMAIN messages' = 1..(Len(messages) + 1)
      /\ \A i \in 1..Len(messages) : messages'[i] = messages[i]
      /\ messages'[Len(messages) + 1] = m
      /\ DOMAIN messages = 1..Len(messages) /\ Len(messages) \in Nat
  BY <1>1, <1>2, AppendProperties, LenProperties DEF IInv, TypeOK
<1>4. \A i \in DOMAIN messages : messages[i].n \in Nat
  BY NumbersNatural DEF IInv
<1>5. \A k \in DOMAIN typed : typed[k] \in Nat
  BY NumbersNatural DEF IInv
<1>6. current.n \in Nat
  BY DEF IInv, TypeOK, Message, Response
<1>7. Numbered'
  <2>1. \A i \in DOMAIN messages' : messages'[i].n <= accepted'
    BY <1>1, <1>2, <1>3, <1>4 DEF IInv, Numbered
  <2>2. \A i, j \in DOMAIN messages' : i < j => messages'[i].n < messages'[j].n
    BY <1>1, <1>3, <1>4 DEF IInv, Numbered
  <2>3. /\ \A k \in DOMAIN typed' : typed'[k] <= accepted'
        /\ \A k \in DOMAIN typed', i \in DOMAIN messages' :
               typed'[k] < messages'[i].n
    BY <1>1, <1>2, <1>3, <1>4, <1>5 DEF IInv, Numbered
  <2>4. thread' = "writing" => thread = "writing"
    BY <1>2 DEF Woken
  <2> QED
    BY <2>1, <2>2, <2>3, <2>4, <1>1, <1>2, <1>3, <1>4, <1>6
       DEF IInv, Numbered
<1>8. Settled' /\ WriterAwake'
  BY <1>2 DEF IInv, InputSound, Settled, WriterAwake, WasTyped, Woken
<1>9. AnswersTrue' /\ ErrorsFinal'
  BY <1>2 DEF IInv, InputSound, AnswersTrue, ErrorsFinal, WasTyped
<1>10. SlotsTrue'
  BY <1>1, <1>2, InputAssumption DEF Submit, IInv, TypeOK, SlotsTrue, WasTyped
<1> QED  BY <1>7, <1>8, <1>9, <1>10 DEF InputSound

LEMMA RespondKeeps ==
    ASSUME IInv, NEW size \in Sizes, Respond(size)
    PROVE  InputSound' /\ Numbered' /\ Settled' /\ SlotsTrue' /\ ErrorsFinal'
<1>1. /\ UNCHANGED <<messages, current, accepted, typed, closed, failed, told>>
      /\ UNCHANGED <<call, awaits, slot>>
      /\ thread' = Woken /\ ~failed /\ ~closed
  BY DEF Respond, CheckOpen, callVars
<1>2. Numbered'
  BY <1>1, SameNumbers DEF Same, Woken
<1>3. thread \notin {"stopped", "failing"}
  BY <1>1 DEF IInv, Settled
<1>4. Settled' /\ WriterAwake'
  BY <1>1, <1>3 DEF IInv, Settled, WriterAwake, WasTyped, Woken
<1>5. AnswersTrue' /\ ErrorsFinal'
  BY <1>1 DEF IInv, InputSound, AnswersTrue, ErrorsFinal, WasTyped
<1>6. SlotsTrue'
  BY <1>1 DEF IInv, SlotsTrue, WasTyped
<1> QED  BY <1>2, <1>4, <1>5, <1>6 DEF InputSound

LEMMA TakeKeeps ==
    ASSUME IInv, Take
    PROVE  InputSound' /\ Numbered' /\ Settled' /\ SlotsTrue' /\ ErrorsFinal'
<1>1. /\ UNCHANGED <<accepted, typed, closed, failed, told>>
      /\ UNCHANGED <<call, awaits, slot>>
      /\ thread = "looking" /\ thread' = "writing"
  BY DEF Take, callVars
<1>2. Numbered'
  <2>1. CASE responses # <<>>
    <3>1. current' = Head(responses) /\ messages' = messages
      BY <2>1 DEF Take
    <3>2. Head(responses) \in Response
      BY <2>1, HeadTailProperties DEF IInv, TypeOK
    <3>3. current'.n = 0
      BY <3>1, <3>2 DEF Response
    <3> QED  BY <1>1, <3>1, <3>3 DEF IInv, Numbered
  <2>2. CASE responses = <<>>
    <3>1. /\ messages # <<>> /\ current' = Head(messages)
          /\ messages' = Tail(messages)
      BY <2>2 DEF Take
    <3>2. messages \in Seq(Message)
      BY DEF IInv, TypeOK
    <3>3. /\ Len(messages) \in Nat /\ Len(messages) # 0
          /\ DOMAIN messages = 1..Len(messages)
          /\ current' = messages[1]
          /\ DOMAIN messages' = 1..(Len(messages) - 1)
          /\ \A i \in DOMAIN messages' :
                 i + 1 \in DOMAIN messages /\ messages'[i] = messages[i + 1]
      BY <3>1, <3>2, HeadTailProperties, EmptySeq, LenProperties
    <3> HIDE DEF Message
    <3>4. 1 \in DOMAIN messages /\ (\A i \in DOMAIN messages' : 1 < i + 1)
      BY <3>3
    <3>5. \A i, j \in DOMAIN messages' : i < j => i + 1 < j + 1
      BY <3>3
    <3>6. \A i \in DOMAIN messages' :
              /\ messages'[i].n <= accepted
              /\ current'.n < messages'[i].n
              /\ \A k \in DOMAIN typed : typed[k] < messages'[i].n
      BY <3>3, <3>4 DEF IInv, Numbered
    <3>7. \A i, j \in DOMAIN messages' :
              i < j => messages'[i].n < messages'[j].n
      BY <3>3, <3>5 DEF IInv, Numbered
    <3>8. /\ current'.n <= accepted
          /\ \A k \in DOMAIN typed : typed[k] < current'.n
          /\ \A k \in DOMAIN typed : typed[k] <= accepted
      BY <3>3, <3>4 DEF IInv, Numbered
    <3> QED  BY <1>1, <3>6, <3>7, <3>8 DEF Numbered
  <2> QED  BY <2>1, <2>2
<1>3. Settled' /\ WriterAwake'
  BY <1>1 DEF IInv, Settled, WriterAwake
<1>4. AnswersTrue' /\ ErrorsFinal'
  BY <1>1 DEF IInv, InputSound, AnswersTrue, ErrorsFinal, WasTyped
<1>5. SlotsTrue'
  BY <1>1 DEF IInv, SlotsTrue, WasTyped
<1> QED  BY <1>2, <1>3, <1>4, <1>5 DEF InputSound

LEMMA WaitOrStopKeeps ==
    ASSUME IInv, WaitOrStop
    PROVE  InputSound' /\ Numbered' /\ Settled' /\ SlotsTrue' /\ ErrorsFinal'
<1>1. /\ UNCHANGED <<messages, responses, current, accepted, typed>>
      /\ UNCHANGED <<closed, failed, told, call, awaits, slot>>
      /\ messages = <<>> /\ responses = <<>>
      /\ thread' = IF closed \/ failed THEN "stopped" ELSE "parked"
      /\ thread = "looking"
  BY DEF WaitOrStop, callVars, queueVars
<1>2. Numbered'
  BY <1>1, SameNumbers DEF Same
<1>3. Settled' /\ WriterAwake'
  BY <1>1 DEF IInv, Settled, WriterAwake
<1>4. AnswersTrue' /\ ErrorsFinal'
  BY <1>1 DEF IInv, InputSound, AnswersTrue, ErrorsFinal, WasTyped
<1>5. SlotsTrue'
  BY <1>1 DEF IInv, SlotsTrue, WasTyped
<1> QED  BY <1>2, <1>3, <1>4, <1>5 DEF InputSound

\* A message written joins the end of what was typed: it was written once, and
\* no error was told of it, for an error is told only after the last write.
LEMMA WriteKeeps ==
    ASSUME IInv, Write
    PROVE  InputSound' /\ Numbered' /\ Settled' /\ SlotsTrue' /\ ErrorsFinal'
<1>1. /\ UNCHANGED <<messages, responses, current, accepted>>
      /\ UNCHANGED <<closed, failed, told, call, awaits, slot>>
      /\ thread = "writing" /\ thread' = "confirming" /\ ~failed
      /\ typed' = IF current.n = 0 THEN typed ELSE Append(typed, current.n)
  BY DEF Write, callVars, queueVars, IInv, Settled
<1>2. /\ typed \in Seq(1..MaxAccepted)
      /\ current.n = 0 \/ current.n \in 1..MaxAccepted
  BY DEF IInv, TypeOK, Message, Response
<1>3. CASE current.n # 0
  <2>1. /\ DOMAIN typed' = 1..(Len(typed) + 1) /\ Len(typed) \in Nat
        /\ DOMAIN typed = 1..Len(typed)
        /\ \A k \in 1..Len(typed) : typed'[k] = typed[k]
        /\ typed'[Len(typed) + 1] = current.n
    BY <1>1, <1>2, <1>3, AppendProperties, LenProperties
  <2>2. \A n : WasTyped(n) => WasTyped(n)'
    BY <2>1 DEF WasTyped
  <2>3. WasTyped(current.n)'
    <3>1. Len(typed) + 1 \in DOMAIN typed'
      BY <2>1
    <3> QED  BY <1>1, <2>1, <3>1 DEF WasTyped
  <2>4. Numbered'
    <3>1. \A k \in DOMAIN typed' : k \in DOMAIN typed \/ k = Len(typed) + 1
      BY <2>1
    <3>2. \A k \in DOMAIN typed' :
              /\ typed'[k] <= accepted
              /\ \A i \in DOMAIN messages : typed'[k] < messages[i].n
      BY <1>1, <1>3, <2>1, <3>1 DEF IInv, Numbered
    <3> QED  BY <1>1, <3>2 DEF IInv, Numbered
  <2>5. Settled' /\ WriterAwake'
    BY <1>1, <2>3 DEF IInv, Settled, WriterAwake
  <2>6. AnswersTrue' /\ ErrorsFinal'
    BY <1>1, <2>2 DEF IInv, TypeOK, InputSound, AnswersTrue, ErrorsFinal
  <2>7. SlotsTrue'
    BY <1>1, <2>2 DEF IInv, SlotsTrue
  <2> QED  BY <2>4, <2>5, <2>6, <2>7 DEF InputSound
<1>4. CASE current.n = 0
  <2>1. typed' = typed
    BY <1>1, <1>4
  <2>2. Numbered'
    BY <1>1, <2>1, SameNumbers DEF Same
  <2>3. Settled' /\ WriterAwake'
    BY <1>1, <1>4 DEF IInv, Settled, WriterAwake
  <2>4. AnswersTrue' /\ ErrorsFinal'
    BY <1>1, <2>1 DEF IInv, InputSound, AnswersTrue, ErrorsFinal, WasTyped
  <2>5. SlotsTrue'
    BY <1>1, <2>1 DEF IInv, SlotsTrue, WasTyped
  <2> QED  BY <2>2, <2>3, <2>4, <2>5 DEF InputSound
<1> QED  BY <1>3, <1>4

\* What is queued when a write fails was never typed: its number is above every
\* number that was.
LEMMA WriteFailsKeeps ==
    ASSUME IInv, WriteFails
    PROVE  InputSound' /\ Numbered' /\ Settled' /\ SlotsTrue' /\ ErrorsFinal'
<1>1. /\ UNCHANGED <<current, accepted, typed, closed, told, call, awaits>>
      /\ messages' = <<>> /\ responses' = <<>> /\ failed' = TRUE
      /\ thread = "writing" /\ thread' = "failing" /\ ~failed
  BY DEF WriteFails, callVars, queueVars, IInv, Settled
<1>2. \A k \in DOMAIN typed : typed[k] \in Nat \ {0}
  BY NumbersNatural DEF IInv
<1>3. current.n \in Nat
  BY DEF IInv, TypeOK, Message, Response
<1>4. ~WasTyped(current.n)
  BY <1>1, <1>2, <1>3 DEF IInv, Numbered, WasTyped
<1>5. \A i \in DOMAIN messages : messages[i].n # 0 /\ ~WasTyped(messages[i].n)
  <2>1. \A i \in DOMAIN messages : messages[i].n \in Nat \ {0}
    BY NumbersNatural DEF IInv
  <2> QED  BY <1>2, <2>1 DEF IInv, Numbered, WasTyped
<1>6. Numbered'
  BY <1>1 DEF IInv, Numbered
<1>7. Settled' /\ WriterAwake'
  BY <1>1, <1>4 DEF Settled, WriterAwake, WasTyped
<1>8. AnswersTrue' /\ ErrorsFinal'
  BY <1>1 DEF IInv, InputSound, AnswersTrue, ErrorsFinal, WasTyped
<1>9. SlotsTrue'
  <2> SUFFICES ASSUME NEW c \in Callers
               PROVE  /\ (call[c] = "waiting" <=> awaits[c] # 0)'
                      /\ (slot[c] # "empty" => awaits[c] # 0)'
                      /\ (slot[c] = "ok" => WasTyped(awaits[c]))'
                      /\ (slot[c] = "error" =>
                              failed /\ ~WasTyped(awaits[c]))'
    BY DEF SlotsTrue
  <2>1. (call[c] = "waiting" <=> awaits[c] # 0)'
    BY <1>1 DEF IInv, SlotsTrue
  <2>2. CASE \E i \in DOMAIN messages :
                 messages[i].caller = c /\ awaits[c] = messages[i].n
    <3>1. slot'[c] = "error"
      BY <2>2 DEF WriteFails
    <3>2. awaits[c] # 0 /\ ~WasTyped(awaits[c])
      BY <2>2, <1>5
    <3> QED  BY <1>1, <2>1, <3>1, <3>2 DEF WasTyped
  <2>3. CASE ~ \E i \in DOMAIN messages :
                 messages[i].caller = c /\ awaits[c] = messages[i].n
    <3>1. slot'[c] = slot[c]
      BY <2>3 DEF WriteFails
    <3> QED  BY <1>1, <2>1, <3>1 DEF IInv, SlotsTrue, WasTyped
  <2> QED  BY <2>2, <2>3
<1> QED  BY <1>6, <1>7, <1>8, <1>9 DEF InputSound

LEMMA TellKeeps ==
    ASSUME IInv, Tell
    PROVE  InputSound' /\ Numbered' /\ Settled' /\ SlotsTrue' /\ ErrorsFinal'
<1>1. /\ UNCHANGED <<messages, responses, accepted, typed>>
      /\ UNCHANGED <<closed, failed, told, call, awaits>>
      /\ thread \in {"confirming", "failing"}
      /\ thread' = IF thread = "failing" THEN "stopped" ELSE "looking"
      /\ slot' = Answered(current, IF thread = "failing" THEN "error" ELSE "ok")
  BY DEF Tell, queueVars
<1>2. Numbered'
  BY <1>1 DEF IInv, Numbered
<1>3. Settled' /\ WriterAwake'
  BY <1>1 DEF IInv, Settled, WriterAwake, WasTyped
<1>4. AnswersTrue' /\ ErrorsFinal'
  BY <1>1 DEF IInv, InputSound, AnswersTrue, ErrorsFinal, WasTyped
<1>5. SlotsTrue'
  <2> SUFFICES ASSUME NEW c \in Callers
               PROVE  /\ (call[c] = "waiting" <=> awaits[c] # 0)'
                      /\ (slot[c] # "empty" => awaits[c] # 0)'
                      /\ (slot[c] = "ok" => WasTyped(awaits[c]))'
                      /\ (slot[c] = "error" =>
                              failed /\ ~WasTyped(awaits[c]))'
    BY DEF SlotsTrue
  <2>1. (call[c] = "waiting" <=> awaits[c] # 0)'
    BY <1>1 DEF IInv, SlotsTrue
  <2>2. CASE current.caller = c /\ awaits[c] = current.n
    <3>1. slot'[c] = IF thread = "failing" THEN "error" ELSE "ok"
      BY <1>1, <2>2 DEF Answered
    <3>2. current.n # 0
      <4>1. current \in Message \/ current \in Response
        BY DEF IInv, TypeOK
      <4>2. current \in Response => current.caller = None
        BY DEF Response
      <4>3. current \in Message => current.n # 0
        BY DEF Message
      <4> QED  BY <4>1, <4>2, <4>3, <2>2, InputAssumption
    <3> QED
      BY <1>1, <2>1, <2>2, <3>1, <3>2 DEF IInv, Settled, WasTyped
  <2>3. CASE ~(current.caller = c /\ awaits[c] = current.n)
    <3>1. slot'[c] = slot[c]
      BY <1>1, <2>3 DEF Answered
    <3> QED  BY <1>1, <2>1, <3>1 DEF IInv, SlotsTrue, WasTyped
  <2> QED  BY <2>2, <2>3
<1> QED  BY <1>2, <1>3, <1>4, <1>5 DEF InputSound

LEMMA StutterKeeps ==
    ASSUME IInv, UNCHANGED inputVars
    PROVE  InputSound' /\ Numbered' /\ Settled' /\ SlotsTrue' /\ ErrorsFinal'
  BY DEF inputVars, queueVars, writerVars, callVars, IInv, InputSound,
     AnswersTrue, WriterAwake, Numbered, Settled, SlotsTrue, ErrorsFinal,
     WasTyped

LEMMA StepKeeps == ASSUME IInv, [Next]_inputVars PROVE IInv'
<1>1. TypeOK'
  BY TypesKept DEF IInv
<1>2. CASE UNCHANGED inputVars
  BY <1>1, <1>2, StutterKeeps DEF IInv
<1>3. CASE Exits \/ CloseQueue
  BY <1>1, <1>3, SessionKeeps DEF IInv
<1>4. ASSUME NEW c \in Callers,
             CheckRunning(c) \/ Refused(c) \/ Hear(c) \/ TimesOut(c)
      PROVE  IInv'
  BY <1>1, <1>4, CallersKeep DEF IInv
<1>5. ASSUME NEW c \in Callers, NEW size \in Sizes, NEW confirmed \in BOOLEAN,
             Submit(c, size, confirmed)
      PROVE  IInv'
  BY <1>1, <1>5, SubmitKeeps DEF IInv
<1>6. ASSUME NEW size \in Sizes, Respond(size) PROVE IInv'
  BY <1>1, <1>6, RespondKeeps DEF IInv
<1>7. CASE Take \/ WaitOrStop
  BY <1>1, <1>7, TakeKeeps, WaitOrStopKeeps DEF IInv
<1>8. CASE Write \/ WriteFails \/ Tell
  BY <1>1, <1>8, WriteKeeps, WriteFailsKeeps, TellKeeps DEF IInv
<1> QED
  BY <1>2, <1>3, <1>4, <1>5, <1>6, <1>7, <1>8 DEF Next

-----------------------------------------------------------------------------
(* The theorems.                                                           *)

\* In every reachable state the strengthening holds.
THEOREM Invariance == Spec => []IInv
  BY InitEstablishes, StepKeeps, PTL DEF Spec

\* The variables of the queue, its writer and its callers keep their types.
THEOREM TypeCorrect == Spec => []TypeOK
<1>1. IInv => TypeOK
  BY DEF IInv
<1> QED  BY <1>1, Invariance, PTL

\* write_confirmed reports what happened, and the writer never sleeps on work.
THEOREM InputSoundHolds == Spec => []InputSound
<1>1. IInv => InputSound
  BY DEF IInv
<1> QED  BY <1>1, Invariance, PTL
-----------------------------------------------------------------------------
(* The refinement.                                                         *)

\* The line is a sequence of numbers: the one in hand, then those queued.
LineFits ==
    /\ InHand \in 0..1
    /\ Len(messages) \in Nat
    /\ Line \in Seq(1..MaxAccepted)
    /\ Len(Line) = InHand + Len(messages)
    /\ InHand = 1 <=> thread = "writing" /\ current.n # 0
    /\ InHand = 1 => Line[1] = current.n
    /\ DOMAIN messages = 1..Len(messages)
    /\ \A i \in 1..Len(messages) : Line[InHand + i] = messages[i].n

LEMMA LineShape == TypeOK => LineFits
<1> SUFFICES ASSUME TypeOK PROVE LineFits
  OBVIOUS
<1> DEFINE k == InHand + Len(messages)
<1>1. InHand \in 0..1 /\ (InHand = 1 <=> thread = "writing" /\ current.n # 0)
  BY DEF InHand
<1>2. Len(messages) \in Nat /\ DOMAIN messages = 1..Len(messages)
  BY LenProperties DEF TypeOK
<1>3. \A i \in 1..Len(messages) : messages[i].n \in 1..MaxAccepted
  <2>1. \A i \in 1..Len(messages) : messages[i] \in Message
    BY ElementOfSeq DEF TypeOK
  <2> QED  BY <2>1 DEF Message
<1>4. InHand = 1 => current.n \in 1..MaxAccepted
  BY <1>1 DEF TypeOK, Message, Response
<1>5. k \in Nat
  BY <1>1, <1>2
<1>6. Line = [i \in 1..k |-> IF i <= InHand THEN current.n
                             ELSE messages[i - InHand].n]
  BY DEF Line
<1>7. \A i \in 1..k : Line[i] \in 1..MaxAccepted
  BY <1>1, <1>2, <1>3, <1>4, <1>6
<1>8. Line \in [1..k -> 1..MaxAccepted]
  BY <1>6, <1>7
<1>9. Line \in Seq(1..MaxAccepted) /\ DOMAIN Line = 1..k
  BY <1>5, <1>8, SeqDef
<1>10. Len(Line) = k
  <2>1. Len(Line) \in Nat /\ DOMAIN Line = 1..Len(Line)
    BY <1>9, LenProperties
  <2> HIDE DEF k
  <2> QED  BY <1>5, <1>9, <2>1
<1>11. InHand = 1 => Line[1] = current.n
  BY <1>2, <1>5, <1>6
<1>12. \A i \in 1..Len(messages) : Line[InHand + i] = messages[i].n
  BY <1>1, <1>2, <1>6
<1> QED
  BY <1>1, <1>2, <1>9, <1>10, <1>11, <1>12 DEF LineFits

LEMMA LineShapeNext == TypeOK' => LineFits'
  BY LineShape, PTL

LEMMA LineStays ==
    ASSUME UNCHANGED <<messages, typed, failed>>, InHand' = InHand,
           InHand = 1 => current' = current
    PROVE  UNCHANGED Contract!typedVars
<1>1. Line' = Line
  <2>1. \A i : i <= InHand /\ i \in 1..(InHand + Len(messages)) => InHand = 1
    BY DEF InHand
  <2> QED  BY <2>1 DEF Line
<1> QED  BY <1>1 DEF Contract!typedVars

LEMMA AcceptRefines ==
    ASSUME IInv, TypeOK', NEW c \in Callers, NEW size \in Sizes,
           NEW confirmed \in BOOLEAN, Submit(c, size, confirmed)
    PROVE  Contract!Accept
<1> DEFINE n == accepted + 1
           m == [n |-> n, size |-> size, caller |-> IF confirmed THEN c ELSE None]
<1>1. /\ messages' = Append(messages, m) /\ ~failed
      /\ UNCHANGED <<current, typed, failed>> /\ thread' = Woken
      /\ n \in 1..MaxAccepted /\ m.n = n /\ m \in Message
  BY InputAssumption DEF Submit, Enqueue, CheckOpen, IInv, TypeOK, Message
<1>2. InHand' = InHand
  BY <1>1 DEF InHand, Woken
<1>3. /\ Len(messages') = Len(messages) + 1
      /\ \A i \in 1..Len(messages) : messages'[i] = messages[i]
      /\ messages'[Len(messages) + 1] = m
  BY <1>1, AppendProperties DEF IInv, TypeOK
<1>4. Line' = Append(Line, n)
  <2>1. TypeOK /\ TypeOK'
    BY DEF IInv
  <2>2. /\ Append(Line, n) \in Seq(1..MaxAccepted)
        /\ Len(Append(Line, n)) = Len(Line) + 1
        /\ \A i \in 1..Len(Line) : Append(Line, n)[i] = Line[i]
        /\ Append(Line, n)[Len(Line) + 1] = n
    BY <1>1, <2>1, LineShape, AppendProperties DEF LineFits
  <2>3. /\ Line' \in Seq(1..MaxAccepted)
        /\ Len(Line') = Len(Line) + 1
    BY <1>2, <1>3, <2>1, LineShape, LineShapeNext DEF LineFits
  <2>4. ASSUME NEW i \in 1..Len(Line') PROVE Line'[i] = Append(Line, n)[i]
    <3>1. CASE i <= InHand
      BY <1>1, <1>2, <2>1, <2>2, <2>3, <3>1, LineShape, LineShapeNext DEF LineFits
    <3>2. CASE i > InHand
      <4> DEFINE j == i - InHand
      <4>1. j \in 1..Len(messages') /\ i = InHand + j
        BY <1>2, <2>1, <2>3, <3>2, LineShape, LineShapeNext DEF LineFits
      <4>2. Line'[i] = messages'[j].n
        BY <1>2, <2>1, <4>1, LineShapeNext DEF LineFits
      <4>3. CASE j <= Len(messages)
        BY <1>3, <2>1, <2>2, <4>1, <4>2, <4>3, LineShape DEF LineFits
      <4>4. CASE j > Len(messages)
        <5>1. j = Len(messages) + 1 /\ i = Len(Line) + 1
          BY <1>3, <2>1, <4>1, <4>4, LineShape DEF LineFits
        <5> QED  BY <1>1, <1>3, <2>2, <4>2, <5>1
      <4>5. j <= Len(messages) \/ j > Len(messages)
        BY <4>1, <2>1, LineShape DEF LineFits
      <4> QED  BY <4>3, <4>4, <4>5
    <3>3. i <= InHand \/ i > InHand
      BY <2>1, <2>3, LineShape DEF LineFits
    <3> QED  BY <3>1, <3>2, <3>3
  <2> QED  BY <2>2, <2>3, <2>4, SeqEqual
<1>5. \A i \in DOMAIN Line : Line[i] < n
  <2>1. TypeOK
    BY DEF IInv
  <2>2. DOMAIN Line = 1..Len(Line)
    BY <2>1, LineShape, LenProperties DEF LineFits
  <2>3. ASSUME NEW i \in 1..Len(Line) PROVE Line[i] < n
    <3>1. CASE i <= InHand
      <4>1. InHand = 1 /\ Line[i] = current.n /\ thread = "writing"
        BY <2>1, <3>1, LineShape DEF LineFits
      <4>2. current.n # 0 /\ current.n <= accepted
        BY <2>1, <4>1, LineShape DEF LineFits, IInv, Numbered
      <4>3. current.n \in Nat /\ accepted \in Nat
        BY <2>1 DEF TypeOK, Message, Response
      <4> QED  BY <4>1, <4>2, <4>3
    <3>2. CASE i > InHand
      <4>1. i - InHand \in 1..Len(messages)
        BY <2>1, <3>2, LineShape DEF LineFits
      <4>2. Line[i] = messages[i - InHand].n
        BY <2>1, <4>1, LineShape DEF LineFits
      <4>3. messages[i - InHand].n <= accepted
        BY <2>1, <4>1, LineShape DEF LineFits, IInv, Numbered
      <4>4. messages[i - InHand].n \in Nat
        BY <2>1, <4>1, NumbersNatural, LineShape DEF LineFits
      <4>5. accepted \in Nat
        BY <2>1 DEF TypeOK
      <4> QED  BY <4>2, <4>3, <4>4, <4>5
    <3>3. i \in Int /\ InHand \in Int
      BY <2>1, LineShape DEF LineFits
    <3> QED  BY <3>1, <3>2, <3>3
  <2> QED  BY <2>2, <2>3
<1>6. \A i \in DOMAIN typed : typed[i] < n
  BY NumbersNatural DEF IInv, TypeOK, Numbered
<1> QED
  BY <1>1, <1>4, <1>5, <1>6 DEF Contract!Accept

\* Writing takes the first of the line; an answer of the emulator is not in it.
LEMMA TypeRefines ==
    ASSUME IInv, TypeOK', Write
    PROVE  Contract!Type \/ UNCHANGED Contract!typedVars
<1>1. /\ UNCHANGED <<messages, failed>> /\ thread = "writing"
      /\ thread' = "confirming"
      /\ typed' = IF current.n = 0 THEN typed ELSE Append(typed, current.n)
  BY DEF Write, queueVars
<1>2. TypeOK /\ InHand' = 0
  BY <1>1 DEF IInv, InHand
<1>3. CASE current.n = 0
  <2>1. InHand = 0 /\ typed' = typed
    BY <1>1, <1>3 DEF InHand
  <2> QED  BY <1>1, <1>2, <2>1, LineStays
<1>4. CASE current.n # 0
  <2>1. /\ InHand = 1 /\ typed' = Append(typed, current.n)
        /\ Len(Line) = 1 + Len(messages) /\ Line[1] = current.n
        /\ Line \in Seq(1..MaxAccepted) /\ Len(messages) \in Nat
        /\ \A i \in 1..Len(messages) : Line[1 + i] = messages[i].n
    BY <1>1, <1>2, <1>4, LineShape DEF LineFits, InHand
  <2>2. /\ Len(Line') = Len(messages)
        /\ Line' \in Seq(1..MaxAccepted)
        /\ \A i \in 1..Len(messages) : Line'[0 + i] = messages[i].n
    BY <1>1, <1>2, <2>1, LineShapeNext DEF LineFits
  <2>3. Line # <<>>
    BY <2>1, EmptySeq
  <2>4. /\ Head(Line) = current.n
        /\ Tail(Line) \in Seq(1..MaxAccepted)
        /\ Len(Tail(Line)) = Len(messages)
        /\ \A i \in 1..Len(messages) : Tail(Line)[i] = messages[i].n
    BY <2>1, <2>3, HeadTailProperties
  <2>5. Line' = Tail(Line)
    <3>1. \A i \in 1..Len(Line') : Line'[i] = Tail(Line)[i]
      BY <2>1, <2>2, <2>4
    <3> QED  BY <2>2, <2>4, <3>1, SeqEqual
  <2> QED  BY <1>1, <2>1, <2>3, <2>4, <2>5 DEF Contract!Type
<1> QED  BY <1>3, <1>4

LEMMA BreakRefines == ASSUME IInv, WriteFails PROVE Contract!Break
<1>1. /\ ~failed /\ failed' = TRUE /\ typed' = typed /\ messages' = <<>>
      /\ thread' = "failing"
  BY DEF WriteFails, IInv, Settled
<1>2. Line' = <<>>
  <2>1. InHand' = 0 /\ Len(messages') = 0
    BY <1>1 DEF InHand
  <2>2. 1..(InHand' + Len(messages')) = {}
    BY <2>1
  <2> QED  BY <2>2 DEF Line
<1> QED  BY <1>1, <1>2 DEF Contract!Break

\* Taking the head of the queue moves it from the queue to the hand.
LEMMA TakeRefines ==
    ASSUME IInv, TypeOK', Take PROVE UNCHANGED Contract!typedVars
<1>1. /\ UNCHANGED <<typed, failed>> /\ thread = "looking"
      /\ thread' = "writing"
  BY DEF Take
<1>2. TypeOK /\ InHand = 0
  BY <1>1 DEF IInv, InHand
<1>3. CASE responses # <<>>
  <2>1. current' = Head(responses) /\ messages' = messages
    BY <1>3 DEF Take
  <2>2. current'.n = 0
    <3>1. Head(responses) \in Response
      BY <1>2, <1>3, HeadTailProperties DEF TypeOK
    <3> QED  BY <2>1, <3>1 DEF Response
  <2> QED  BY <1>1, <1>2, <2>1, <2>2, LineStays DEF InHand
<1>4. CASE responses = <<>>
  <2>1. /\ messages # <<>> /\ current' = Head(messages)
        /\ messages' = Tail(messages) /\ messages \in Seq(Message)
    BY <1>2, <1>4 DEF Take, TypeOK
  <2>2. /\ Len(messages) \in Nat \ {0} /\ current' = messages[1]
        /\ current' \in Message
        /\ Len(messages') = Len(messages) - 1
        /\ \A i \in 1..Len(messages') : messages'[i] = messages[i + 1]
    BY <2>1, HeadTailProperties, EmptySeq
  <2>3. current'.n # 0
    BY <2>2 DEF Message
  <2>4. /\ Len(Line) = Len(messages) /\ Line \in Seq(1..MaxAccepted)
        /\ \A i \in 1..Len(messages) : Line[i] = messages[i].n
    BY <1>2, LineShape DEF LineFits
  <2>5. /\ InHand' = 1 /\ Len(Line') = 1 + Len(messages')
        /\ Line' \in Seq(1..MaxAccepted) /\ Line'[1] = current'.n
        /\ \A i \in 1..Len(messages') : Line'[1 + i] = messages'[i].n
    BY <1>1, <2>3, LineShapeNext DEF LineFits, InHand
  <2>6. ASSUME NEW i \in 1..Len(Line') PROVE Line'[i] = Line[i]
    <3>1. CASE i = 1
      BY <2>2, <2>4, <2>5, <3>1
    <3>2. CASE i # 1
      <4>1. i - 1 \in 1..Len(messages') /\ i \in 1..Len(messages)
        BY <2>2, <2>5, <3>2
      <4>2. Line'[1 + (i - 1)] = messages'[i - 1].n
        BY <2>5, <4>1
      <4>3. messages'[i - 1] = messages[(i - 1) + 1]
        BY <2>2, <4>1
      <4>4. 1 + (i - 1) = i /\ (i - 1) + 1 = i
        BY <4>1
      <4> QED  BY <2>4, <4>1, <4>2, <4>3, <4>4
    <3> QED  BY <3>1, <3>2
  <2>7. Line' = Line
    <3>1. Len(Line') = Len(Line)
      BY <2>2, <2>4, <2>5
    <3> QED  BY <2>4, <2>5, <2>6, <3>1, SeqEqual
  <2> QED  BY <1>1, <2>7 DEF Contract!typedVars
<1> QED  BY <1>3, <1>4

LEMMA OthersRefine ==
    ASSUME IInv,
           \/ Exits \/ CloseQueue \/ WaitOrStop \/ Tell
           \/ UNCHANGED inputVars
           \/ \E size \in Sizes : Respond(size)
           \/ \E c \in Callers :
                  CheckRunning(c) \/ Refused(c) \/ Hear(c) \/ TimesOut(c)
    PROVE  UNCHANGED Contract!typedVars
<1>1. UNCHANGED <<messages, typed, failed>>
  BY DEF inputVars, queueVars, writerVars, callVars, Exits, CloseQueue,
     WaitOrStop, Tell, Respond, CheckRunning, Refused, Hear, TimesOut
<1>2. \/ UNCHANGED writerVars
      \/ thread' = Woken /\ UNCHANGED current
      \/ thread # "writing" /\ thread' # "writing"
  BY DEF inputVars, writerVars, Exits, CloseQueue, WaitOrStop, Tell, Respond,
     CheckRunning, Refused, Hear, TimesOut
<1>3. InHand' = InHand /\ (InHand = 1 => current' = current)
  BY <1>2 DEF InHand, Woken, writerVars
<1> QED  BY <1>1, <1>3, LineStays

\* The queue with its writer, its confirmations and its time-outs implements
\* ordered input: nothing is typed out of order, twice, or after a failure.
THEOREM InputInOrderHolds == Spec => InputInOrder
<1>1. Init => Contract!Init
  <2> SUFFICES ASSUME Init PROVE Contract!Init
    OBVIOUS
  <2>1. InHand = 0 /\ Len(messages) = 0
    BY DEF Init, InHand
  <2>2. 1..(InHand + Len(messages)) = {}
    BY <2>1
  <2>3. Line = <<>>
    BY <2>2 DEF Line
  <2> QED  BY <2>3 DEF Init, Contract!Init
<1>2. IInv /\ IInv' /\ [Next]_inputVars
          => [Contract!Next]_Contract!typedVars
  <2> SUFFICES ASSUME IInv, TypeOK', [Next]_inputVars
               PROVE  Contract!Next \/ UNCHANGED Contract!typedVars
    BY DEF IInv
  <2>1. ASSUME NEW c \in Callers, NEW size \in Sizes,
               NEW confirmed \in BOOLEAN, Submit(c, size, confirmed)
        PROVE  Contract!Next
    BY <2>1, AcceptRefines DEF Contract!Next
  <2>2. CASE Write
    BY <2>2, TypeRefines DEF Contract!Next
  <2>3. CASE WriteFails
    BY <2>3, BreakRefines DEF Contract!Next
  <2>4. CASE Take
    BY <2>4, TakeRefines
  <2>5. CASE \/ Exits \/ CloseQueue \/ WaitOrStop \/ Tell
             \/ UNCHANGED inputVars
             \/ \E size \in Sizes : Respond(size)
             \/ \E c \in Callers :
                    CheckRunning(c) \/ Refused(c) \/ Hear(c) \/ TimesOut(c)
    BY <2>5, OthersRefine
  <2> QED
    BY <2>1, <2>2, <2>3, <2>4, <2>5 DEF Next
<1> QED
  BY <1>1, <1>2, Invariance, PTL DEF Spec, InputInOrder, Contract!Spec

-----------------------------------------------------------------------------
(***************************************************************************)
(* The size, for every set of clients and viewports.  The invariant is     *)
(* inductive once the types are added: Update leaves what it cannot        *)
(* announce marked as refused, and every operation hands on the roles of   *)
(* the client it takes away.                                               *)
(***************************************************************************)

Grids == [cols : Nat, rows : Nat]

Rest ==
    /\ published.size \in Grids
    /\ sizes = [c \in Attached |-> sizes[c]]

Agreeing == ViewportsTypeOK /\ Rest /\ ViewportsAgree

\* What an operation hands to Update: known clients with known viewports, a
\* focus that is shown, a responder if anybody is attached.
Proper(s, f, r) ==
    /\ s = [c \in DOMAIN s |-> s[c]]
    /\ DOMAIN s \subseteq Clients
    /\ \A c \in DOMAIN s : s[c] \in Viewports \cup {Hidden}
    /\ f = NoClient \/ f \in Visible(s)
    /\ IF DOMAIN s = {} THEN r = NoClient ELSE r \in DOMAIN s

\* A set of numbers that is not empty has a least one.
LEMMA LeastNumber ==
    ASSUME NEW S \in SUBSET Nat, S # {}
    PROVE  Min(S) \in S /\ \A n \in S : Min(S) <= n
<1>1. PICK m \in S : \A n \in S : <<n, m>> \notin OpToRel(<, Nat)
  BY WFMin, NatLessThanWellFounded, Zenon
<1>2. \A n \in S : ~(n < m)
  BY <1>1, Zenon DEF OpToRel
<1>3. \A n \in S : m <= n
  BY <1>2
<1> QED  BY <1>3 DEF Min

LEMMA SmallestIsIn ==
    ASSUME NEW S \in SUBSET Nat, NEW else
    PROVE  Smallest(S, else) \in S \/ (S = {} /\ Smallest(S, else) = else)
  BY LeastNumber DEF Smallest

\* The focused client's size, or one that fits every client shown.
LEMMA NegotiatedFits ==
    ASSUME Agreeing, NEW s, NEW f, NEW r, Proper(s, f, r)
    PROVE  /\ Negotiated(s, f) \in Grids
           /\ IF f # NoClient THEN Negotiated(s, f) = s[f]
              ELSE \A c \in Visible(s) : /\ Negotiated(s, f).cols <= s[c].cols
                                         /\ Negotiated(s, f).rows <= s[c].rows
<1>1. \A c \in Visible(s) : s[c] \in Grids
  BY ViewportsAssumption DEF Visible, Proper, Grids
<1>2. NoClient \notin Visible(s)
  BY ViewportsAssumption DEF Visible, Proper
<1>3. CASE f \in Visible(s)
  BY <1>1, <1>2, <1>3 DEF Negotiated
<1>4. CASE f \notin Visible(s)
  <2>1. f = NoClient
    BY <1>4 DEF Proper
  <2>2. CASE Visible(s) = {}
    BY <1>4, <2>1, <2>2 DEF Negotiated, Agreeing, Rest
  <2>3. CASE Visible(s) # {}
    <3> DEFINE C == {s[c].cols : c \in Visible(s)}
               R == {s[c].rows : c \in Visible(s)}
    <3>1. C \in SUBSET Nat /\ C # {} /\ R \in SUBSET Nat /\ R # {}
      BY <1>1, <2>3 DEF Grids
    <3>2. /\ Min(C) \in Nat /\ \A n \in C : Min(C) <= n
          /\ Min(R) \in Nat /\ \A n \in R : Min(R) <= n
      BY <3>1, LeastNumber
    <3>3. Negotiated(s, f) = [cols |-> Min(C), rows |-> Min(R)]
      BY <1>4, <2>3 DEF Negotiated
    <3>4. \A c \in Visible(s) : s[c].cols \in C /\ s[c].rows \in R
      OBVIOUS
    <3> QED  BY <2>1, <3>2, <3>3, <3>4 DEF Grids
  <2> QED  BY <2>2, <2>3
<1> QED  BY <1>3, <1>4

\* Announced or refused, an update of proper roles keeps the invariant.
LEMMA UpdateKeeps ==
    ASSUME Agreeing, NEW s, NEW f, NEW r, Proper(s, f, r),
           Update(s, f, r), leaving' \subseteq Clients
    PROVE  Agreeing'
<1> DEFINE size == Negotiated(s, f)
<1>1. sizes' = s /\ focused' = f /\ responder' = r /\ alive' = alive
  BY DEF Update
<1>2. /\ size \in Grids
      /\ IF f # NoClient THEN size = s[f]
         ELSE \A c \in Visible(s) : /\ size.cols <= s[c].cols
                                    /\ size.rows <= s[c].rows
  BY NegotiatedFits
<1>3. \/ /\ refused' = FALSE
         /\ pty' = IF alive THEN size ELSE pty
         /\ emulator' = size
         /\ published' = [size |-> size, focused |-> f, responder |-> r]
      \/ refused' = TRUE /\ UNCHANGED <<pty, emulator, published>>
  BY DEF Update
<1> HIDE DEF size
<1>4. RolesHeld'
  BY <1>1 DEF RolesHeld, Proper, Visible, Attached
<1>5. GridAgrees'
  BY <1>1, <1>3 DEF Agreeing, ViewportsAgree, GridAgrees
<1>6. FitsThoseShown'
  BY <1>1, <1>2, <1>3 DEF FitsThoseShown, Visible
<1>7. ViewportsTypeOK'
  BY <1>1, <1>3 DEF Agreeing, ViewportsTypeOK, Proper, Attached, Visible
<1>8. Rest'
  BY <1>1, <1>2, <1>3 DEF Agreeing, Rest, Proper, Attached
<1> QED  BY <1>4, <1>5, <1>6, <1>7, <1>8 DEF Agreeing, ViewportsAgree

LEMMA LeavingKnown ==
    ASSUME ViewportsTypeOK, NEW c \in Clients, ToldOrLeaves(c)
    PROVE  leaving' \subseteq Clients
  BY DEF ViewportsTypeOK, ToldOrLeaves

\* A socket opens, or is gone.
LEMMA AttachDetachKeep ==
    ASSUME Agreeing, NEW c \in Clients,
           Detach(c) \/ \E view \in Viewports \cup {Hidden} : Attach(c, view)
    PROVE  Agreeing'
<1> USE DEF Agreeing, ViewportsAgree, RolesHeld, ViewportsTypeOK, Attached, Visible
<1>1. CASE Detach(c)
  <2> DEFINE s == [d \in Attached \ {c} |-> sizes[d]]
             f == IF focused = c THEN NoClient ELSE focused
             r == IF responder = c
                  THEN Smallest(Visible(s), Smallest(DOMAIN s, NoClient))
                  ELSE responder
  <2>1. Visible(s) \in SUBSET Nat /\ DOMAIN s \in SUBSET Nat
    BY ViewportsAssumption
  <2>2. IF DOMAIN s = {} THEN r = NoClient ELSE r \in DOMAIN s
    BY <1>1, <2>1, SmallestIsIn DEF Detach
  <2>3. Proper(s, f, r)
    BY <2>2 DEF Proper
  <2>4. Update(s, f, r) /\ leaving' \subseteq Clients
    BY <1>1 DEF Detach
  <2> QED  BY <2>3, <2>4, UpdateKeeps
<1>2. CASE \E view \in Viewports \cup {Hidden} : Attach(c, view)
  <2>1. PICK view \in Viewports \cup {Hidden} : Attach(c, view)
    BY <1>2
  <2> DEFINE s == [d \in Attached \cup {c} |-> IF d = c THEN view ELSE sizes[d]]
             r == IF responder = NoClient THEN c ELSE responder
  <2>2. Proper(s, focused, r)
    BY <2>1, ViewportsAssumption DEF Proper, Attach
  <2>3. Update(s, focused, r) /\ leaving' \subseteq Clients
    BY <2>1, LeavingKnown DEF Attach
  <2> QED  BY <2>2, <2>3, UpdateKeeps
<1> QED  BY <1>1, <1>2

\* A listening client reports, types, hides, or takes or leaves the focus.
LEMMA MessagesKeep ==
    ASSUME Agreeing, NEW c \in Clients,
           \/ Activate(c) \/ Release(c) \/ Focus(c) \/ Blur(c)
           \/ \E view \in Viewports : Resize(c, view)
    PROVE  Agreeing'
<1> USE DEF Agreeing, ViewportsAgree, RolesHeld, ViewportsTypeOK, Rest, Attached, Visible,
            Listening
<1>1. CASE Activate(c)
  <2>1. Proper(sizes, focused, c) /\ Update(sizes, focused, c)
    BY <1>1 DEF Proper, Activate
  <2> QED  BY <1>1, <2>1, UpdateKeeps, LeavingKnown DEF Activate
<1>2. CASE Release(c)
  <2> DEFINE s == [sizes EXCEPT ![c] = Hidden]
             f == IF focused = c THEN NoClient ELSE focused
             r == IF responder = c THEN Smallest(Visible(s), c) ELSE responder
  <2>1. Visible(s) \in SUBSET Nat
    BY <1>2, ViewportsAssumption DEF Release
  <2>2. r \in DOMAIN s
    BY <1>2, <2>1, SmallestIsIn DEF Release
  <2>3. Proper(s, f, r)
    BY <1>2, <2>2 DEF Proper, Release
  <2>4. Update(s, f, r)
    BY <1>2 DEF Release
  <2> QED  BY <1>2, <2>3, <2>4, UpdateKeeps, LeavingKnown DEF Release
<1>3. CASE Focus(c)
  <2> DEFINE shown == sizes[c] # Hidden
             f == IF shown THEN c ELSE focused
             r == IF shown THEN c ELSE responder
  <2>1. Proper(sizes, f, r)
    BY <1>3 DEF Proper, Focus
  <2>2. Update(sizes, f, r)
    BY <1>3 DEF Focus
  <2> QED  BY <1>3, <2>1, <2>2, UpdateKeeps, LeavingKnown DEF Focus
<1>4. CASE Blur(c)
  <2> DEFINE f == IF focused = c THEN NoClient ELSE focused
  <2>1. Proper(sizes, f, responder) /\ Update(sizes, f, responder)
    BY <1>4 DEF Proper, Blur
  <2> QED  BY <1>4, <2>1, UpdateKeeps, LeavingKnown DEF Blur
<1>5. CASE \E view \in Viewports : Resize(c, view)
  <2>1. PICK view \in Viewports : Resize(c, view)
    BY <1>5
  <2> DEFINE s == [sizes EXCEPT ![c] = view]
  <2>2. view # Hidden
    BY ViewportsAssumption DEF Hidden
  <2>3. Proper(s, focused, responder) /\ Update(s, focused, responder)
    BY <2>1, <2>2 DEF Proper, Resize
  <2> QED  BY <2>1, <2>3, UpdateKeeps, LeavingKnown DEF Resize
<1> QED  BY <1>1, <1>2, <1>3, <1>4, <1>5

\* Whatever clients do and wherever the pty refuses, everybody agrees on the
\* size, the roles are held, and what was announced fits.
THEOREM ViewportsAlwaysAgree ==
    ViewportsSpec => [](ViewportsTypeOK /\ ViewportsAgree)
<1>1. ViewportsInit => Agreeing
  <2> SUFFICES ASSUME ViewportsInit
               PROVE  Agreeing
    OBVIOUS
  <2>1. Attached = {} /\ Visible(sizes) = {} /\ DefaultSize \in Grids
    BY ViewportsAssumption DEF ViewportsInit, Attached, Visible, Grids
  <2>2. ViewportsTypeOK
    BY <2>1 DEF ViewportsInit, ViewportsTypeOK
  <2>3. Rest
    BY <2>1 DEF ViewportsInit, Rest
  <2>4. ViewportsAgree
    BY <2>1 DEF ViewportsInit, ViewportsAgree, GridAgrees, RolesHeld, FitsThoseShown
  <2> QED  BY <2>2, <2>3, <2>4 DEF Agreeing
<1>2. Agreeing /\ [ViewportsNext]_viewportVars => Agreeing'
  <2> SUFFICES ASSUME Agreeing, [ViewportsNext]_viewportVars
               PROVE  Agreeing'
    OBVIOUS
  <2>1. CASE UNCHANGED viewportVars
    BY <2>1 DEF viewportVars, Agreeing, ViewportsTypeOK, Rest, ViewportsAgree, GridAgrees,
       RolesHeld, FitsThoseShown, Visible, Attached
  <2>2. CASE ShellExits
    BY <2>2 DEF ShellExits, Agreeing, ViewportsTypeOK, Rest, ViewportsAgree, GridAgrees,
       RolesHeld, FitsThoseShown, Visible, Attached
  <2> QED  BY <2>1, <2>2, AttachDetachKeep, MessagesKeep DEF ViewportsNext
<1>3. Agreeing => ViewportsTypeOK /\ ViewportsAgree
  BY DEF Agreeing
<1> QED  BY <1>1, <1>2, <1>3, PTL DEF ViewportsSpec

-----------------------------------------------------------------------------
(***************************************************************************)
(* The locks, for every number of threads: no program takes a lock out of  *)
(* order, whatever it is put together from, and nobody then waits in a     *)
(* circle, whoever runs which programs.                                    *)
(***************************************************************************)

Locks == Leaves \cup {Order[i] : i \in DOMAIN Order}
Steps == [op : {"take", "share", "give"}, lock : Locks]

\* A part of a program that takes its locks in order, all of them after the
\* rank r, and gives them back.
Orderly(p, r) ==
    /\ p \in Seq(Steps)
    /\ \A i \in 1..Len(p) : p[i].op # "give" =>
           /\ r < Rank(p[i].lock)
           /\ \A lock \in HeldBefore(p, i) : Rank(lock) < Rank(p[i].lock)
    /\ HeldBefore(p, Len(p) + 1) = {}

LEMMA RankOrder ==
    /\ Rank("sessions") = 1 /\ Rank("input") = 2 /\ Rank("flow") = 3
    /\ Rank("viewports") = 4 /\ Rank("activity") = 5 /\ Rank("info") = 6
    /\ Rank("output") = 7 /\ Rank("signals") = 8
    /\ \A lock \in Leaves : Rank(lock) = 9
<1>1. DOMAIN Order = 1..8 /\ Len(Order) = 8
  BY DEF Order
<1>2. \A i \in 1..8 : Order[i] \notin Leaves /\ \A j \in 1..8 : Order[j] = Order[i] => j = i
  BY DEF Order, Leaves
<1>3. \A i \in 1..8 : Rank(Order[i]) = i
  <2> SUFFICES ASSUME NEW i \in 1..8
               PROVE  Rank(Order[i]) = i
    OBVIOUS
  <2>1. Rank(Order[i]) \in 1..8 /\ Order[Rank(Order[i])] = Order[i]
    BY <1>1, <1>2 DEF Rank
  <2> QED  BY <1>2, <2>1
<1>4. \A lock \in Leaves : Rank(lock) = 9
  BY <1>1 DEF Rank
<1> QED  BY <1>3, <1>4 DEF Order

LEMMA LockNames ==
    Locks = Leaves \cup {"sessions", "input", "flow", "viewports", "activity",
                        "info", "output", "signals"}
<1>1. DOMAIN Order = 1..8
  BY DEF Order
<1> QED  BY <1>1 DEF Locks, Order

LEMMA RankType == \A lock \in Locks : Rank(lock) \in 1..9
  BY LockNames, RankOrder

\* What is held after n steps.
LEMMA HeldAfter ==
    ASSUME NEW p, NEW n \in Nat, NEW lock
    PROVE  lock \in HeldBefore(p, n + 1) <=>
             \E j \in 1..n : /\ p[j].lock = lock /\ p[j].op # "give"
                            /\ \A k \in (j + 1)..n : p[k] # Give(lock)
<1>1. n + 1 - 1 = n
  OBVIOUS
<1> QED  BY <1>1 DEF HeldBefore

LEMMA Joined ==
    ASSUME NEW S, NEW p \in Seq(S), NEW q \in Seq(S)
    PROVE  /\ p \o q \in Seq(S)
           /\ Len(p) \in Nat /\ Len(q) \in Nat /\ Len(p \o q) = Len(p) + Len(q)
           /\ \A i \in 1..Len(p) : (p \o q)[i] = p[i]
           /\ \A i \in 1..Len(q) : (p \o q)[Len(p) + i] = q[i]
  OBVIOUS

\* One after the other.
LEMMA Sequel ==
    ASSUME NEW p, NEW q, NEW r \in Nat, Orderly(p, r), Orderly(q, r)
    PROVE  Orderly(p \o q, r)
<1> DEFINE m == Len(p)
           n == Len(q)
           s == p \o q
<1>1. /\ s \in Seq(Steps)
      /\ m \in Nat /\ n \in Nat /\ Len(s) = m + n
      /\ \A i \in 1..m : s[i] = p[i]
      /\ \A i \in 1..n : s[m + i] = q[i]
  BY Joined DEF Orderly
<1> HIDE DEF m, n, s
<1>2. ASSUME NEW i \in 0..m, NEW lock \in HeldBefore(s, i + 1)
      PROVE  lock \in HeldBefore(p, i + 1)
  <2>1. PICK j \in 1..i : /\ s[j].lock = lock /\ s[j].op # "give"
                          /\ \A k \in (j + 1)..i : s[k] # Give(lock)
    BY <1>2, HeldAfter
  <2>2. \A k \in 1..i : s[k] = p[k]
    BY <1>1
  <2>3. p[j].lock = lock /\ p[j].op # "give"
        /\ \A k \in (j + 1)..i : p[k] # Give(lock)
    BY <1>1, <2>1, <2>2
  <2> QED  BY <2>3, HeldAfter
<1>3. ASSUME NEW i \in 0..n, NEW lock \in HeldBefore(s, m + i + 1)
      PROVE  lock \in HeldBefore(q, i + 1)
  <2>1. PICK j \in 1..(m + i) :
            /\ s[j].lock = lock /\ s[j].op # "give"
            /\ \A k \in (j + 1)..(m + i) : s[k] # Give(lock)
    <3>1. m + i \in Nat
      BY <1>1
    <3> QED  BY <1>3, <3>1, HeldAfter
  <2>2. j > m
    <3> SUFFICES ASSUME j \in 1..m
                 PROVE  FALSE
      BY <1>1
    <3>1. p[j].lock = lock /\ p[j].op # "give"
          /\ \A k \in (j + 1)..m : p[k] # Give(lock)
      BY <1>1, <2>1
    <3>2. lock \in HeldBefore(p, m + 1)
      BY <1>1, <3>1, HeldAfter
    <3> QED  BY <3>2 DEF Orderly, m
  <2>3. j - m \in 1..i /\ s[j] = q[j - m]
    <3>1. j - m \in 1..n /\ m + (j - m) = j
      BY <1>1, <2>1, <2>2
    <3> QED  BY <1>1, <2>1, <2>2, <3>1
  <2>4. \A k \in (j - m + 1)..i : q[k] # Give(lock)
    <3> SUFFICES ASSUME NEW k \in (j - m + 1)..i
                 PROVE  q[k] # Give(lock)
      OBVIOUS
    <3>1. k \in 1..n /\ m + k \in (j + 1)..(m + i)
      BY <1>1, <2>1, <2>2
    <3> QED  BY <1>1, <2>1, <3>1
  <2> QED  BY <2>1, <2>3, <2>4, HeldAfter
<1>4. ASSUME NEW i \in 1..Len(s), s[i].op # "give"
      PROVE  /\ r < Rank(s[i].lock)
             /\ \A lock \in HeldBefore(s, i) : Rank(lock) < Rank(s[i].lock)
  <2>1. CASE i \in 1..m
    <3>1. i - 1 \in 0..m /\ i - 1 + 1 = i
      BY <1>1, <2>1
    <3>2. \A lock \in HeldBefore(s, i) : lock \in HeldBefore(p, i)
      BY <1>2, <3>1
    <3> QED  BY <1>1, <1>4, <2>1, <3>2 DEF Orderly, m
  <2>2. CASE i \notin 1..m
    <3>1. i - m \in 1..n /\ m + (i - m) = i /\ i - m - 1 \in 0..n
          /\ m + (i - m - 1) + 1 = i /\ i - m - 1 + 1 = i - m
      BY <1>1, <2>2
    <3>2. s[i] = q[i - m]
      BY <1>1, <3>1
    <3>3. \A lock \in HeldBefore(s, i) : lock \in HeldBefore(q, i - m)
      BY <1>3, <3>1
    <3> QED  BY <1>4, <3>1, <3>2, <3>3 DEF Orderly, n
  <2> QED  BY <2>1, <2>2
<1>5. HeldBefore(s, Len(s) + 1) = {}
  <2>1. n \in 0..n
    BY <1>1
  <2> QED  BY <1>1, <1>3, <2>1 DEF Orderly, n
<1>6. Orderly(s, r)
  BY <1>1, <1>4, <1>5 DEF Orderly
<1> QED  BY <1>6 DEF s

\* Under a lock, what takes only locks after it.
LEMMA Guarded ==
    ASSUME NEW first \in Steps, first.op # "give", NEW p, NEW r \in Nat,
           Orderly(p, Rank(first.lock)), r < Rank(first.lock)
    PROVE  Orderly(<<first>> \o p \o <<Give(first.lock)>>, r)
<1> DEFINE m == Len(p)
           s == <<first>> \o p \o <<Give(first.lock)>>
<1>1. /\ s \in Seq(Steps) /\ m \in Nat /\ Len(s) = m + 2
      /\ s[1] = first
      /\ \A i \in 1..m : s[1 + i] = p[i]
      /\ s[m + 2] = Give(first.lock)
  <2> DEFINE last == Give(first.lock)
  <2>1. last \in Steps
    BY DEF Steps, Give
  <2> HIDE DEF last
  <2>2. /\ <<first>> \in Seq(Steps) /\ <<last>> \in Seq(Steps)
        /\ Len(<<first>>) = 1 /\ Len(<<last>>) = 1
        /\ <<first>>[1] = first /\ <<last>>[1] = last
    BY <2>1
  <2>3. /\ p \in Seq(Steps) /\ m \in Nat
    BY DEF Orderly
  <2> DEFINE head == <<first>> \o p
  <2>4. /\ head \in Seq(Steps) /\ Len(head) = 1 + m
        /\ head[1] = first
        /\ \A i \in 1..m : head[1 + i] = p[i]
    BY <2>2, <2>3, Joined
  <2> HIDE DEF head, m
  <2>5. /\ head \o <<last>> \in Seq(Steps)
        /\ Len(head \o <<last>>) = (1 + m) + 1
        /\ \A i \in 1..(1 + m) : (head \o <<last>>)[i] = head[i]
        /\ (head \o <<last>>)[(1 + m) + 1] = last
    <3>1. 1 \in 1..Len(<<last>>)
      BY <2>2
    <3> QED  BY <2>2, <2>4, <3>1, Joined
  <2>6. s = head \o <<last>>
    BY DEF head, last
  <2> HIDE DEF s
  <2>7. 1 \in 1..(1 + m) /\ (\A i \in 1..m : 1 + i \in 1..(1 + m)) /\ (1 + m) + 1 = m + 2
    BY <2>3
  <2>8. s[m + 2] = last
    BY <2>5, <2>6, <2>7
  <2> QED  BY <2>3, <2>4, <2>5, <2>6, <2>7, <2>8 DEF last
<1> HIDE DEF m, s
<1>2. ASSUME NEW i \in 1..(m + 1), NEW lock \in HeldBefore(s, i + 1), lock # first.lock
      PROVE  lock \in HeldBefore(p, i)
  <2>1. PICK j \in 1..i : /\ s[j].lock = lock /\ s[j].op # "give"
                          /\ \A k \in (j + 1)..i : s[k] # Give(lock)
    <3>1. i \in Nat
      BY <1>1
    <3> QED  BY <1>2, <3>1, HeldAfter
  <2>2. j # 1
    BY <1>1, <1>2, <2>1
  <2>3. j - 1 \in 1..(i - 1) /\ s[j] = p[j - 1]
    <3>1. j - 1 \in 1..m /\ 1 + (j - 1) = j
      BY <1>1, <2>1, <2>2
    <3> QED  BY <1>1, <2>1, <2>2, <3>1
  <2>4. \A k \in (j - 1 + 1)..(i - 1) : p[k] # Give(lock)
    <3> SUFFICES ASSUME NEW k \in (j - 1 + 1)..(i - 1)
                 PROVE  p[k] # Give(lock)
      OBVIOUS
    <3>1. k \in 1..m /\ 1 + k \in (j + 1)..i
      BY <1>1, <2>1, <2>2
    <3> QED  BY <1>1, <2>1, <3>1
  <2>5. p[j - 1].lock = lock /\ p[j - 1].op # "give"
    BY <2>1, <2>3
  <2> QED  BY <2>3, <2>4, <2>5, Zenon DEF HeldBefore
<1>3. ASSUME NEW i \in 1..m, p[i].op # "give"
      PROVE  /\ Rank(first.lock) < Rank(p[i].lock)
             /\ \A lock \in HeldBefore(s, 1 + i) : Rank(lock) < Rank(p[i].lock)
  <2>1. /\ Rank(first.lock) < Rank(p[i].lock)
        /\ \A lock \in HeldBefore(p, i) : Rank(lock) < Rank(p[i].lock)
    BY <1>3 DEF Orderly, m
  <2>2. i \in 1..(m + 1) /\ i + 1 = 1 + i
    BY <1>1
  <2>3. \A lock \in HeldBefore(s, 1 + i) : lock = first.lock \/ lock \in HeldBefore(p, i)
    BY <1>2, <2>2
  <2> QED  BY <2>1, <2>3
<1>4. ASSUME NEW i \in 1..Len(s), s[i].op # "give"
      PROVE  /\ r < Rank(s[i].lock)
             /\ \A lock \in HeldBefore(s, i) : Rank(lock) < Rank(s[i].lock)
  <2>1. CASE i = 1
    <3>1. HeldBefore(s, 1) = {}
      BY DEF HeldBefore
    <3> QED  BY <1>1, <2>1, <3>1
  <2>2. CASE i = m + 2
    BY <1>1, <1>4, <2>2 DEF Give
  <2>3. CASE i \in 2..(m + 1)
    <3>1. i - 1 \in 1..m /\ 1 + (i - 1) = i
      BY <1>1, <2>3
    <3>2. s[i] = p[i - 1]
      BY <1>1, <3>1
    <3>3. p[i - 1] \in Steps
      <4>1. p \in Seq(Steps)
        BY DEF Orderly
      <4> QED  BY <3>1, <4>1 DEF m
    <3>4. /\ Rank(first.lock) < Rank(s[i].lock)
          /\ \A lock \in HeldBefore(s, i) : Rank(lock) < Rank(s[i].lock)
      BY <1>3, <1>4, <3>1, <3>2
    <3>5. Rank(first.lock) \in Nat /\ Rank(s[i].lock) \in Nat
      BY <3>2, <3>3, RankType DEF Steps
    <3>6. r < Rank(s[i].lock)
      BY <3>4, <3>5
    <3> QED  BY <3>4, <3>6
  <2> QED  BY <1>1, <2>1, <2>2, <2>3
<1>5. HeldBefore(s, Len(s) + 1) = {}
  <2> SUFFICES ASSUME NEW lock \in HeldBefore(s, Len(s) + 1)
               PROVE  FALSE
    OBVIOUS
  <2>1. PICK j \in 1..(m + 2) : /\ s[j].lock = lock /\ s[j].op # "give"
                                /\ \A k \in (j + 1)..(m + 2) : s[k] # Give(lock)
    <3>1. m + 2 \in Nat /\ lock \in HeldBefore(s, m + 2 + 1)
      BY <1>1
    <3> QED  BY <3>1, HeldAfter
  <2>2. j # m + 2
    BY <1>1, <2>1 DEF Give
  <2>3. lock # first.lock
    BY <1>1, <2>1, <2>2
  <2>4. lock \in HeldBefore(s, m + 1 + 1)
    <3>1. /\ m + 1 \in Nat /\ j \in 1..(m + 1)
          /\ \A k \in (j + 1)..(m + 1) : k \in (j + 1)..(m + 2)
      BY <1>1, <2>1, <2>2
    <3>2. \A k \in (j + 1)..(m + 1) : s[k] # Give(lock)
      BY <2>1, <3>1
    <3> QED  BY <2>1, <3>1, <3>2, HeldAfter
  <2>5. lock \in HeldBefore(p, m + 1)
    <3>1. m + 1 \in 1..(m + 1)
      BY <1>1
    <3> QED  BY <1>2, <2>3, <2>4, <3>1
  <2> QED  BY <2>5 DEF Orderly, m
<1>6. Orderly(s, r)
  BY <1>1, <1>4, <1>5 DEF Orderly
<1> QED  BY <1>6 DEF s

LEMMA EmptyIsOrderly == \A r \in Nat : Orderly(<<>>, r)
  BY DEF Orderly, HeldBefore

\* An orderly program that takes a lock at all.
Runs(p, r) == Orderly(p, r) /\ p # <<>>

LEMMA SequelRuns ==
    ASSUME NEW p, NEW q, NEW r \in Nat, Runs(p, r), Runs(q, r)
    PROVE  Runs(p \o q, r)
<1>1. Orderly(p \o q, r)
  BY Sequel DEF Runs
<1>2. p \in Seq(Steps) /\ q \in Seq(Steps) /\ p # <<>>
  BY DEF Runs, Orderly
<1>3. p \o q # <<>>
  BY <1>2
<1> QED  BY <1>1, <1>3 DEF Runs

LEMMA UnderRuns ==
    ASSUME NEW lock \in Locks, NEW p, NEW r \in Nat, r < Rank(lock),
           Orderly(p, Rank(lock))
    PROVE  Runs(Under(lock, p), r) /\ Runs(Reading(lock, p), r)
<1>1. ASSUME NEW first \in Steps, first.op # "give", first.lock = lock
      PROVE  Runs(<<first>> \o p \o <<Give(lock)>>, r)
  <2>1. Orderly(<<first>> \o p \o <<Give(lock)>>, r)
    BY <1>1, Guarded
  <2>2. <<first>> \o p \o <<Give(lock)>> # <<>>
    <3>1. p \in Seq(Steps) /\ Give(lock) \in Steps
      BY DEF Orderly, Steps, Give
    <3> QED  BY <3>1
  <2> QED  BY <2>1, <2>2 DEF Runs
<1>2. Acquire(lock) \in Steps /\ Share(lock) \in Steps
  BY DEF Steps, Acquire, Share
<1>3. Acquire(lock).lock = lock /\ Share(lock).lock = lock
      /\ Acquire(lock).op # "give" /\ Share(lock).op # "give"
  BY DEF Acquire, Share
<1> QED  BY <1>1, <1>2, <1>3 DEF Under, Reading

LEMMA TouchRuns ==
    ASSUME NEW lock \in Locks, NEW r \in Nat, r < Rank(lock)
    PROVE  Runs(Touch(lock), r) /\ Runs(Look(lock), r)
<1>1. Rank(lock) \in Nat
  BY RankType
<1> QED  BY <1>1, UnderRuns, EmptyIsOrderly DEF Touch, Look

LEMMA AgentRuns ==
    ASSUME NEW p, NEW r \in 0..4, Orderly(p, 6)
    PROVE  Runs(Agent(p), r)
<1>1. "activity" \in Locks /\ "info" \in Locks
  BY LockNames
<1>2. Orderly(Under("info", p), 5)
  BY <1>1, RankOrder, UnderRuns DEF Runs
<1> QED  BY <1>1, <1>2, RankOrder, UnderRuns DEF Agent

\* The operations of a session and of the manager, from the inside out.
LEMMA ProgramsRun == \A p \in Programs : Runs(p, 0)
<1> USE LockNames, RankOrder, TouchRuns DEF Leaves
<1>1. \A r \in 0..5 : Runs(Look("info"), r) /\ Runs(Touch("info"), r)
  OBVIOUS
<1>2. \A r \in 0..6 : Runs(Touch("output"), r) /\ Runs(Touch("signals"), r)
  OBVIOUS
<1>3. \A r \in 0..4 : Runs(Agent(<<>>), r) /\ Runs(Touch("activity"), r)
  BY AgentRuns, EmptyIsOrderly
<1>4. \A r \in 0..5 : Runs(WorkingDirectory, r)
  BY <1>1, SequelRuns DEF WorkingDirectory
<1>5. \A r \in 0..3 : Runs(Info, r)
  <2>1. \A r \in 0..3 : Runs(Touch("viewports"), r)
    OBVIOUS
  <2> QED  BY <1>1, <1>4, <2>1, SequelRuns DEF Info
<1>6. Runs(Subscribe, 0) /\ Runs(UpdateViewports, 0)
  <2>1. Orderly(Under("viewports", Touch("output")), 3)
    BY <1>2, UnderRuns DEF Runs
  <2>2. Runs(Under("output", Touch("master")), 4)
    BY UnderRuns DEF Runs
  <2>3. Orderly(Look("info") \o Under("output", Touch("master")), 4)
    BY <1>1, <2>2, SequelRuns DEF Runs
  <2> QED  BY <2>1, <2>3, UnderRuns DEF Subscribe, UpdateViewports
<1>7. Runs(Inspect, 0) /\ Runs(Terminate, 0) /\ Runs(Screen, 0)
      /\ Runs(Scrollback, 0)
  BY <1>1, <1>2, SequelRuns DEF Inspect, Terminate, Screen, Scrollback
<1>8. Runs(Transcript, 0) /\ Runs(Explain, 0)
  BY <1>1, <1>2, SequelRuns DEF Transcript, Explain
<1>9. Runs(WriteInput, 0)
  <2>1. Runs(ObserveInput, 2)
    BY <1>1, <1>3, SequelRuns DEF ObserveInput
  <2>2. Runs(Under("input", ObserveInput), 0)
    BY <2>1, UnderRuns DEF Runs
  <2> QED  BY <1>1, <2>2, SequelRuns DEF WriteInput
<1>10. Runs(Flow, 0) /\ Runs(Touch("input"), 0)
  BY DEF Flow
<1>11. Runs(ReadOutput, 0)
  <2>1. Runs(Under("flow", Touch("output")), 0)
    BY <1>2, UnderRuns DEF Runs
  <2>2. Runs(Publish, 0)
    BY <1>2, <1>10, <2>1, SequelRuns DEF Publish
  <2> QED  BY <1>10, <2>2, SequelRuns DEF ReadOutput
<1>12. Runs(Exited, 0)
  BY <1>2, <1>3, <1>10, SequelRuns DEF Exited
<1>13. Runs(Kill, 0)
  <2>1. Runs(Touch("killer"), 0)
    OBVIOUS
  <2> QED  BY <1>1, <1>10, <2>1, SequelRuns DEF Kill
<1>14. Runs(Refresh, 0)
  <2>1. Runs(Detect, 0) /\ Runs(Touch("tracker"), 0)
    BY <1>2, SequelRuns DEF Detect
  <2>2. Runs(Agent(Touch("signals")), 0)
    BY <1>2, AgentRuns DEF Runs
  <2> QED  BY <1>1, <1>2, <1>4, <2>1, <2>2, SequelRuns DEF Refresh
<1>15. Runs(AgentEvent, 0)
  BY <1>3, SequelRuns DEF AgentEvent
<1>16. /\ Runs(Prune, 0) /\ Runs(Touch("sessions"), 0) /\ Runs(Look("sessions"), 0)
       /\ Runs(Reading("sessions", Look("info")), 0)
       /\ Runs(Under("sessions", Look("info")), 0)
       /\ Runs(Reading("sessions", Info), 0)
  BY <1>1, <1>5, UnderRuns DEF Runs, Prune
<1>17. Runs(Get, 0) /\ Runs(List, 0) /\ Runs(RunningCount, 0)
  BY <1>16, SequelRuns DEF Get, List, RunningCount
<1>18. Runs(FiliRoster, 0)
  <2>1. Runs(Under("activity", Look("info")), 1)
    BY <1>1, UnderRuns DEF Runs
  <2> QED  BY <2>1, UnderRuns DEF Runs, FiliRoster
<1>19. Runs(FiliName, 0) /\ Runs(FiliSummary, 0) /\ Runs(ApplyAgentEvent, 0)
  BY <1>1, <1>3, <1>15, <1>16, <1>17, SequelRuns
     DEF FiliName, FiliSummary, ApplyAgentEvent
<1>20. Runs(RefreshProcesses, 0) /\ Runs(Create, 0) /\ Runs(RemoveTerminal, 0)
  BY <1>1, <1>5, <1>13, <1>14, <1>16, <1>17, SequelRuns
     DEF RefreshProcesses, Create, RemoveTerminal
<1>21. Runs(Rename, 0)
  <2>1. Runs(Look("info") \o Agent(<<>>) \o Info, 1)
    BY <1>1, <1>3, <1>5, SequelRuns
  <2> QED  BY <2>1, UnderRuns DEF Runs, Rename
<1> QED
  BY <1>5, <1>6, <1>7, <1>8, <1>9, <1>10, <1>11, <1>12, <1>17, <1>18, <1>19, <1>20,
     <1>21 DEF Programs

\* Steps move along the programs.
LEMMA TypeKept == LocksTypeOK /\ [LocksNext]_lockVars => LocksTypeOK'
<1> SUFFICES ASSUME LocksTypeOK, [LocksNext]_lockVars
             PROVE  LocksTypeOK'
  OBVIOUS
<1>1. \A p \in Programs : Len(p) \in Nat /\ Len(p) >= 1
  BY ProgramsRun DEF Runs, Orderly
<1>2. CASE UNCHANGED lockVars
  BY <1>2 DEF lockVars, LocksTypeOK
<1>3. ASSUME NEW t \in Threads, Begin(t)
      PROVE  LocksTypeOK'
  <2>1. PICK p \in Programs : doing' = [doing EXCEPT ![t] = p]
    BY <1>3 DEF Begin
  <2>2. at' = at /\ at[t] = 1 /\ Len(p) \in Nat /\ Len(p) >= 1
    BY <1>1, <1>3 DEF Begin, LocksTypeOK
  <2>3. /\ doing' \in [Threads -> Programs \cup {Idle}]
        /\ \A u \in Threads \ {t} : doing'[u] = doing[u]
        /\ doing'[t] = p
    BY <2>1 DEF LocksTypeOK
  <2>4. at'[t] \in 1..(IF doing'[t] = Idle THEN 1 ELSE Len(doing'[t]))
    BY <2>2, <2>3
  <2>5. \A u \in Threads \ {t} :
            at'[u] \in 1..(IF doing'[u] = Idle THEN 1 ELSE Len(doing'[u]))
    BY <2>2, <2>3 DEF LocksTypeOK
  <2> QED  BY <2>2, <2>3, <2>4, <2>5 DEF LocksTypeOK
<1>4. ASSUME NEW t \in Threads, Step(t)
      PROVE  LocksTypeOK'
  <2>1. CASE at[t] = Len(doing[t])
    <3>1. /\ doing' = [doing EXCEPT ![t] = Idle]
          /\ at' = [at EXCEPT ![t] = 1]
      BY <1>4, <2>1 DEF Step
    <3> QED  BY <3>1 DEF LocksTypeOK
  <2>2. CASE at[t] # Len(doing[t])
    <3>1. doing[t] \in Programs /\ at[t] + 1 \in 1..Len(doing[t])
      BY <1>1, <1>4, <2>2 DEF Step, LocksTypeOK
    <3> QED  BY <1>4, <2>2, <3>1 DEF Step, LocksTypeOK
  <2> QED  BY <2>1, <2>2
<1> QED  BY <1>2, <1>3, <1>4 DEF LocksNext

\* A thread that waits does so inside a program, for a lock that comes after
\* those it holds.
LEMMA WaitersOrder ==
    ASSUME LocksTypeOK
    PROVE  /\ LocksInOrder
           /\ \A t \in Threads : Wants(t).op # "give" => Wants(t).lock \in Locks
<1> SUFFICES ASSUME NEW t \in Threads, Wants(t).op # "give"
             PROVE  /\ Wants(t).lock \in Locks
                    /\ \A lock \in Holds(t) : Rank(lock) < Rank(Wants(t).lock)
  BY DEF LocksInOrder
<1>1. doing[t] # Idle
  BY DEF Wants, Give
<1>2. doing[t] \in Programs /\ at[t] \in 1..Len(doing[t])
  BY <1>1 DEF LocksTypeOK
<1>3. Wants(t) = doing[t][at[t]] /\ Holds(t) = HeldBefore(doing[t], at[t])
  BY <1>1 DEF Wants, Holds
<1>4. Orderly(doing[t], 0) /\ doing[t] \in Seq(Steps)
  BY <1>2, ProgramsRun DEF Runs, Orderly
<1>5. doing[t][at[t]].lock \in Locks
  <2>1. doing[t][at[t]] \in Steps
    BY <1>2, <1>4
  <2> QED  BY <2>1 DEF Steps
<1>6. \A lock \in HeldBefore(doing[t], at[t]) :
          Rank(lock) < Rank(doing[t][at[t]].lock)
  BY <1>2, <1>3, <1>4 DEF Orderly
<1> QED  BY <1>3, <1>5, <1>6

\* Among threads that all wait, one wants a lock of the highest rank wanted.
LEMMA HighestWanted ==
    ASSUME NEW S \in SUBSET Threads, S # {},
           \A t \in S : Wants(t).lock \in Locks
    PROVE  \E t \in S : \A u \in S :
               Rank(Wants(u).lock) <= Rank(Wants(t).lock)
<1> DEFINE r(t) == Rank(Wants(t).lock)
           D == {9 - r(t) : t \in S}
<1>1. \A t \in S : r(t) \in 1..9
  BY RankType
<1> HIDE DEF r
<1>2. D \in SUBSET Nat /\ D # {}
  BY <1>1
<1>3. PICK m \in D : \A n \in D : <<n, m>> \notin OpToRel(<, Nat)
  BY <1>2, WFMin, NatLessThanWellFounded, Zenon
<1>4. \A n \in D : ~(n < m)
  BY <1>2, <1>3, Zenon DEF OpToRel
<1>5. PICK t \in S : m = 9 - r(t)
  OBVIOUS
<1>6. \A u \in S : ~(9 - r(u) < 9 - r(t))
  BY <1>4, <1>5
<1>7. \A u \in S : r(u) <= r(t)
  BY <1>1, <1>6
<1> QED  BY <1>7 DEF r

\* Locks taken in order: the thread of a circle that wants the highest lock is
\* kept by one that holds it and wants a higher one, or by a writer that waits
\* for such a thread; and a thread that wants nothing is kept by nobody.
LEMMA OrderPreventsCircles ==
    ASSUME LocksTypeOK
    PROVE  NoCircularWait
<1> SUFFICES ASSUME NEW S \in SUBSET Threads, S # {},
                    \A t \in S : \E u \in S : Keeps(u, t)
             PROVE  FALSE
  BY DEF NoCircularWait
<1>1. \A t \in S : Wants(t).op # "give"
  BY DEF Keeps
<1>2. \A t \in S : /\ Wants(t).lock \in Locks
                   /\ \A lock \in Holds(t) : Rank(lock) < Rank(Wants(t).lock)
  BY <1>1, WaitersOrder DEF LocksInOrder
<1>3. PICK t \in S : \A u \in S : Rank(Wants(u).lock) <= Rank(Wants(t).lock)
  BY <1>2, HighestWanted
<1>4. \A u \in S : Rank(Wants(u).lock) \in Nat
  BY <1>2, RankType
<1>5. \A u \in S : Wants(t).lock \notin Holds(u)
  BY <1>2, <1>3, <1>4
<1>6. PICK u \in S : Keeps(u, t)
  OBVIOUS
<1>7. Wants(u) = Acquire(Wants(t).lock)
  BY <1>5, <1>6 DEF Keeps, HoldsAlone
<1>8. PICK w \in S : Keeps(w, u)
  OBVIOUS
<1>9. Wants(t).lock \in Holds(w)
  BY <1>7, <1>8 DEF Keeps, Acquire
<1> QED  BY <1>5, <1>9

\* However many threads run whichever operations, locks are taken in order and
\* no threads wait for each other in a circle.
THEOREM LocksAreDisciplined ==
    LocksSpec => [](LocksTypeOK /\ LockDiscipline)
<1>1. LocksInit => LocksTypeOK
  BY DEF LocksInit, LocksTypeOK
<1>2. LocksTypeOK /\ [LocksNext]_lockVars => LocksTypeOK'
  BY TypeKept
<1>3. LocksTypeOK => LockDiscipline
  BY WaitersOrder, OrderPreventsCircles DEF LockDiscipline
<1> QED  BY <1>1, <1>2, <1>3, PTL DEF LocksSpec
=============================================================================
