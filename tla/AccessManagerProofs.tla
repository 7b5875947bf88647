------------------------- MODULE AccessManagerProofs -------------------------
(***************************************************************************)
(* Types, root commands, secrets and who waits in AccessManager, for every *)
(* number of callers, names, uuids and terminals and every cap.  TypeOK is *)
(* inductive by itself: its record sets say that a stream that waits names *)
(* what it waits for, an approval in progress names its request, and a     *)
(* request's subject fits its kind.  The lemmas on records and channels are*)
(* used by every step.                                                     *)
(***************************************************************************)
EXTENDS AccessManager, FiniteSetTheorems, TLAPS

\* How a share can end.
ShareVerdicts == {"viewed", "dismissed", "expired"}

\* A queue at its capacity is not empty, so that its oldest event can go.
LEMMA PushType ==
    ASSUME NEW s \in Stream, NEW e \in Events
    PROVE  Push(s, e) \in Stream
<1>1. CASE Len(s.queue) < ChannelCapacity
  BY <1>1 DEF Push, Stream
<1>2. CASE ~(Len(s.queue) < ChannelCapacity)
  <2>1. s.queue \in Seq(Events) /\ s.queue # <<>>
    BY <1>2, BoundsAssumption DEF Stream
  <2>2. Append(Tail(s.queue), e) \in Seq(Events)
    BY <2>1
  <2> QED  BY <1>2, <2>2 DEF Push, Stream
<1> QED  BY <1>1, <1>2

\* Sending keeps every stream a stream.
LEMMA NotifyType ==
    ASSUME stream \in [Agents -> Stream], NEW ids, NEW e \in Events
    PROVE  Notify(ids, e) \in [Agents -> Stream]
  BY PushType DEF Notify

\* The streams the agent endpoints return.
LEMMA NewStreamType ==
    /\ NoStream \in Stream
    /\ \A i \in Ids : Waiter(i) \in Stream /\ Command(i) \in Stream
    /\ \A e \in Events : Immediate(e) \in Stream
<1>1. <<>> \in Seq(Events) /\ \A e \in Events : <<e>> \in Seq(Events)
  OBVIOUS
<1>2. NoStream \in Stream
  BY <1>1 DEF Stream, NoStream
<1>3. \A i \in Ids : Waiter(i) \in Stream /\ Command(i) \in Stream
  BY <1>1 DEF Stream, Waiter, Command, NoStream
<1>4. \A e \in Events : Immediate(e) \in Stream
  BY <1>1 DEF Stream, Immediate, NoStream
<1> QED  BY <1>2, <1>3, <1>4

\* resolve_share.
LEMMA ResolveType ==
    ASSUME NEW sh \in Share, NEW outcome \in ShareVerdicts
    PROVE  Resolve(sh, outcome) \in Share
  BY DEF Resolve, Share, ShareVerdicts

\* detach_waiter.
LEMMA DetachType ==
    /\ \A r \in Request : Detach(r) \in Request
    /\ \A sh \in Share : Detach(sh) \in Share
  BY DEF Detach, Request, Share

\* An entry of the two maps is a record of its kind, or absent.
LEMMA EntryType ==
    ASSUME TypeOK, NEW i \in Ids
    PROVE  /\ requests[i].state # "none" => requests[i] \in Request
           /\ requests[i].state = "none" => requests[i] = NoRequest
           /\ shares[i].state # "none" => shares[i] \in Share
           /\ shares[i].state = "none" => shares[i] = NoShare
  BY DEF TypeOK, Request, NoRequest, Share, NoShare

\* expire_shares_for_grant.
LEMMA WithdrawType ==
    ASSUME TypeOK, NEW t, NEW n
    PROVE  Withdraw(t, n) \in [Ids -> Share \cup {NoShare}]
  BY EntryType, ResolveType DEF TypeOK, Withdraw, PendingShares, LiveShares, ShareVerdicts

LEMMA TypeInit == Init => TypeOK
  BY DEF Init, TypeOK, NoApproval, Approval, Stream, NoStream
\* Single fields of an entry that the code assigns.
LEMMA UpdateType ==
    /\ \A r \in Request, s \in {"pending", "authenticating", "running"} :
         [r EXCEPT !.state = s] \in Request
    /\ \A r \in Request : [r EXCEPT !.waiters = @ + 1] \in Request
    /\ \A sh \in Share : [sh EXCEPT !.waiters = @ + 1] \in Share
    /\ \A sh \in Share : [sh EXCEPT !.due = TRUE] \in Share
<1>1. \A r \in Request, s \in {"pending", "authenticating", "running"} :
         [r EXCEPT !.state = s] \in Request
  BY DEF Request
<1>2. \A r \in Request : [r EXCEPT !.waiters = @ + 1] \in Request
  BY DEF Request
<1>3. \A sh \in Share : [sh EXCEPT !.waiters = @ + 1] \in Share
  BY DEF Share
<1>4. \A sh \in Share : [sh EXCEPT !.due = TRUE] \in Share
  BY DEF Share
<1> QED  BY <1>1, <1>2, <1>3, <1>4

\* approve_sudo works for a request it has.
LEMMA ApprovalType ==
    ASSUME TypeOK, NEW u \in Users, approval[u].phase # "none"
    PROVE  /\ approval[u].request \in Ids
           /\ \A q \in {"mismatched", "invalidating"} :
                [approval[u] EXCEPT !.phase = q] \in Approval
<1>1. approval[u] \in
        [phase : {"verifying", "mismatched", "invalidating"}, request : Ids]
  BY DEF TypeOK, Approval, NoApproval
<1> QED  BY <1>1 DEF Approval

-----------------------------------------------------------------------------
(* The steps that change more than one record.                             *)

LEMMA TypeAsk ==
    ASSUME TypeOK, NEW a \in Agents, NEW k \in {"secret", "sudo"},
           NEW s \in IF k = "secret" THEN Names ELSE Commands,
           NEW p \in Purposes, call[a] # None, Ask(a, k, s, p)
    PROVE  TypeOK'
<1>1. call[a] \in Terminals
  BY DEF TypeOK, Callers
<1>2. requests' \in [Ids -> Request \cup {NoRequest}]
  <2>1. CASE \E i \in Pending(call[a]) :
               requests' = [requests EXCEPT ![i].waiters = @ + 1]
    BY <2>1, EntryType, UpdateType DEF TypeOK, Pending
  <2>2. CASE \E i \in Ids : requests' = [requests EXCEPT ![i] =
               [state |-> "pending", kind |-> k, terminal |-> call[a],
                subject |-> s, purpose |-> p, waiters |-> 1]]
    BY <2>2, <1>1 DEF TypeOK, Request, Subjects
  <2> QED  BY <2>1, <2>2 DEF Ask, Pending
<1>3. stream' \in [Agents -> Stream]
  <2>1. PICK i \in Ids : stream' = [stream EXCEPT ![a] = Waiter(i)]
    BY DEF Ask, Pending
  <2> QED  BY <2>1, NewStreamType DEF TypeOK, Events
<1>4. verified' \subseteq Ids /\ started' \in [Ids -> Nat]
  BY DEF Ask, TypeOK
<1> QED  BY <1>2, <1>3, <1>4 DEF Ask, Return, Callers, TypeOK, registryVars, commandVars

LEMMA TypeTimePasses ==
    ASSUME TypeOK, NEW i \in Ids, TimePasses(i)
    PROVE  TypeOK'
<1>1. shares' \in [Ids -> Share \cup {NoShare}]
  BY EntryType, UpdateType DEF TimePasses, LiveShares, TypeOK
<1> QED  BY <1>1 DEF TimePasses, TypeOK, registryVars, commandVars, sudoVars

LEMMA TypeApproveSudo ==
    ASSUME TypeOK, NEW u \in Users, NEW i \in Ids, ApproveSudo(u, i)
    PROVE  TypeOK'
<1>1. requests' \in [Ids -> Request \cup {NoRequest}]
  BY EntryType, UpdateType DEF ApproveSudo, Approvable, Pending, TypeOK
<1>2. approval' \in [Users -> Approval]
  BY DEF ApproveSudo, TypeOK, Approval
<1> QED  BY <1>1, <1>2 DEF ApproveSudo, Return, Callers, TypeOK, registryVars, commandVars

LEMMA TypePasswordRejected ==
    ASSUME TypeOK, NEW u \in Users, PasswordRejected(u)
    PROVE  TypeOK'
<1>1. requests' \in [Ids -> Request \cup {NoRequest}]
  BY EntryType, UpdateType, ApprovalType DEF PasswordRejected, BackToPending, TypeOK
<1>2. approval' \in [Users -> Approval]
  BY DEF PasswordRejected, Approval, TypeOK
<1> QED  BY <1>1, <1>2 DEF PasswordRejected, TypeOK, registryVars, commandVars

LEMMA TypePasswordAccepted ==
    ASSUME TypeOK, NEW u \in Users, NEW m \in BOOLEAN, PasswordAccepted(u, m)
    PROVE  TypeOK'
<1>1. approval' \in [Users -> Approval]
  BY ApprovalType DEF PasswordAccepted, TypeOK
<1>2. verified' \subseteq Ids
  BY ApprovalType DEF PasswordAccepted, TypeOK
<1> QED  BY <1>1, <1>2 DEF PasswordAccepted, TypeOK, registryVars, commandVars

LEMMA TypeStartApproved ==
    ASSUME TypeOK, NEW u \in Users, StartApproved(u)
    PROVE  TypeOK'
<1> DEFINE i == approval[u].request
<1>0. i \in Ids
  BY ApprovalType DEF StartApproved
<1>1. requests' \in [Ids -> Request \cup {NoRequest}]
  <2>1. CASE requests[i].state = "none"
    BY <2>1 DEF StartApproved, TypeOK
  <2>2. CASE requests[i].state # "none"
    <3>1. [requests[i] EXCEPT !.state = "running"] \in Request
      BY <1>0, <2>2, EntryType, UpdateType
    <3> QED  BY <1>0, <2>2, <3>1 DEF StartApproved, TypeOK
  <2> QED  BY <2>1, <2>2
<1>2. approval' \in [Users -> Approval]
  BY DEF StartApproved, Approval, TypeOK
<1>3. stream' \in [Agents -> Stream] /\ roots' \in [Ids -> {"none", "spawned", "running"}]
  BY NotifyType DEF StartApproved, TypeOK, Events
<1> QED  BY <1>1, <1>2, <1>3 DEF StartApproved, TypeOK, registryVars, commandVars

LEMMA TypeApproveSecret ==
    ASSUME TypeOK, NEW u \in Users, NEW i \in Ids, ApproveSecret(u, i)
    PROVE  TypeOK'
<1>1. /\ call[u] \in Terminals
      /\ requests[i] \in Request
  BY EntryType DEF ApproveSecret, Pending, TypeOK, Callers
<1>2. requests[i].subject \in Names
  BY <1>1 DEF ApproveSecret, Request
<1>3. grants' \subseteq Grant
  BY <1>1, <1>2 DEF ApproveSecret, GrantAndWake, Grant, TypeOK
<1>4. requests' \in [Ids -> Request \cup {NoRequest}]
  BY DEF ApproveSecret, GrantAndWake, TypeOK
<1>5. stream' \in [Agents -> Stream]
  BY NotifyType DEF ApproveSecret, TypeOK, Events, Verdicts
<1> QED  BY <1>3, <1>4, <1>5 DEF ApproveSecret, Return, Callers, TypeOK,
         registryVars, commandVars, sudoVars

LEMMA TypeGenerateSecret ==
    ASSUME TypeOK, NEW a \in Agents, NEW n \in Names, NEW r \in BOOLEAN,
           GenerateSecret(a, n, r)
    PROVE  TypeOK'
<1>1. call[a] \in Terminals
  BY DEF GenerateSecret, TypeOK, Callers
<1>2. grants' \subseteq Grant
  BY <1>1 DEF GenerateSecret, GrantAndWake, Grant, TypeOK
<1>3. requests' \in [Ids -> Request \cup {NoRequest}]
  BY DEF GenerateSecret, GrantAndWake, TypeOK
<1>4. shares' \in [Ids -> Share \cup {NoShare}]
  BY WithdrawType DEF GenerateSecret, TypeOK
<1>5. stream' \in [Agents -> Stream]
  <2>1. \A b \in Agents : /\ Push(stream[b], "granted") \in Stream
                          /\ Push(stream[b], "expired") \in Stream
    BY PushType DEF TypeOK, Events, Verdicts
  <2> QED  BY <2>1 DEF GenerateSecret, TypeOK
<1> QED  BY <1>2, <1>3, <1>4, <1>5 DEF GenerateSecret, Return, Callers, TypeOK,
         registryVars, commandVars, sudoVars

LEMMA TypeShareSecret ==
    ASSUME TypeOK, NEW a \in Agents, NEW n \in Names, NEW p \in Purposes,
           ShareSecret(a, n, p)
    PROVE  TypeOK'
<1>1. call[a] \in Terminals
  BY DEF ShareSecret, TypeOK, Callers
<1>2. PICK g \in GrantOf(call[a], n) :
         \/ \E i \in PendingShares(call[a], n) :
              /\ shares' = [shares EXCEPT ![i].waiters = @ + 1]
              /\ stream' = [stream EXCEPT ![a] = Waiter(i)]
              /\ UNCHANGED reveals
         \/ \E i \in Ids, evicted \in Evictions(call[a]) :
                 /\ shares' = [[j \in Ids |-> IF j \in evicted THEN NoShare
                                                             ELSE shares[j]]
                      EXCEPT ![i] =
                        [state |-> "pending", terminal |-> call[a],
                         name |-> n, purpose |-> p, waiters |-> 1,
                         value |-> g.id, due |-> FALSE]]
                 /\ stream' = [stream EXCEPT ![a] = Waiter(i)]
                 /\ reveals' = [reveals EXCEPT ![i] = 0]
  BY DEF ShareSecret
<1>3. g.id \in GrantIds
  BY DEF GrantOf, TypeOK, Grant
<1>4. CASE \E i \in PendingShares(call[a], n) :
              /\ shares' = [shares EXCEPT ![i].waiters = @ + 1]
              /\ stream' = [stream EXCEPT ![a] = Waiter(i)]
              /\ UNCHANGED reveals
  <2>1. PICK i \in Ids : /\ shares[i].state # "none"
                         /\ shares' = [shares EXCEPT ![i].waiters = @ + 1]
                         /\ stream' = [stream EXCEPT ![a] = Waiter(i)]
                         /\ UNCHANGED reveals
    BY <1>4 DEF PendingShares, LiveShares
  <2>2. shares' \in [Ids -> Share \cup {NoShare}]
    BY <2>1, EntryType, UpdateType DEF TypeOK
  <2>3. stream' \in [Agents -> Stream]
    BY <2>1, NewStreamType DEF TypeOK, Events
  <2> QED  BY <2>1, <2>2, <2>3 DEF ShareSecret, Return, Callers, TypeOK,
           registryVars, commandVars, sudoVars
<1>5. CASE \E i \in Ids, evicted \in Evictions(call[a]) :
                 /\ shares' = [[j \in Ids |-> IF j \in evicted THEN NoShare
                                                             ELSE shares[j]]
                      EXCEPT ![i] =
                        [state |-> "pending", terminal |-> call[a],
                         name |-> n, purpose |-> p, waiters |-> 1,
                         value |-> g.id, due |-> FALSE]]
                 /\ stream' = [stream EXCEPT ![a] = Waiter(i)]
                 /\ reveals' = [reveals EXCEPT ![i] = 0]
  <2>1. [state |-> "pending", terminal |-> call[a], name |-> n, purpose |-> p,
         waiters |-> 1, value |-> g.id, due |-> FALSE] \in Share
    BY <1>1, <1>3 DEF Share
  <2>2. shares' \in [Ids -> Share \cup {NoShare}]
    BY <1>5, <2>1 DEF TypeOK
  <2>3. stream' \in [Agents -> Stream]
    <3>1. PICK i \in Ids : stream' = [stream EXCEPT ![a] = Waiter(i)]
      BY <1>5
    <3> QED  BY <3>1, NewStreamType DEF TypeOK, Events
  <2>4. reveals' \in [Ids -> Nat]
    BY <1>5 DEF TypeOK
  <2> QED  BY <2>2, <2>3, <2>4 DEF ShareSecret, Return, Callers, TypeOK,
           registryVars, commandVars, sudoVars
<1> QED  BY <1>2, <1>4, <1>5

LEMMA TypeWaitShare ==
    ASSUME TypeOK, NEW a \in Agents, NEW i \in Ids, WaitShare(a, i)
    PROVE  TypeOK'
<1>1. shares[i] \in Share
  BY EntryType DEF WaitShare, LiveShares
<1>2. CASE shares[i].state = "pending"
  <2>1. shares' \in [Ids -> Share \cup {NoShare}]
    BY <1>1, <1>2, UpdateType DEF WaitShare, TypeOK
  <2>2. stream' \in [Agents -> Stream]
    BY <1>2, NewStreamType DEF WaitShare, TypeOK, Events
  <2> QED  BY <2>1, <2>2 DEF WaitShare, Return, Callers, TypeOK,
           registryVars, commandVars, sudoVars
<1>3. CASE shares[i].state # "pending"
  <2>1. shares[i].state \in Events
    BY <1>1, <1>3 DEF Share, Events, Verdicts
  <2>2. stream' \in [Agents -> Stream]
    BY <1>3, <2>1, NewStreamType DEF WaitShare, TypeOK
  <2> QED  BY <1>3, <2>2 DEF WaitShare, Return, Callers, TypeOK,
           registryVars, commandVars, sudoVars
<1> QED  BY <1>2, <1>3

LEMMA TypeExecuteSecret ==
    ASSUME TypeOK, NEW a \in Agents, NEW n \in Names, ExecuteSecret(a, n)
    PROVE  TypeOK'
<1>1. call[a] \in Terminals
  BY DEF ExecuteSecret, TypeOK, Callers
<1>2. PICK i \in Ids : /\ executions' = [executions EXCEPT ![i] = call[a]]
                       /\ commands' = [commands EXCEPT ![i] = "running"]
                       /\ canceled' = canceled \ {i}
                       /\ stream' = [stream EXCEPT ![a] = Command(i)]
  BY DEF ExecuteSecret
<1>3. stream' \in [Agents -> Stream]
  BY <1>2, NewStreamType DEF TypeOK, Events
<1> QED  BY <1>1, <1>2, <1>3 DEF ExecuteSecret, Return, Callers, TypeOK,
         registryVars, sudoVars

LEMMA TypeReadStream ==
    ASSUME TypeOK, NEW a \in Agents, ReadStream(a)
    PROVE  TypeOK'
<1>1. stream[a] \in Stream
  BY DEF TypeOK
<1>2. CASE stream[a].lagged
  <2>1. [stream[a] EXCEPT !.lagged = FALSE, !.done = TRUE] \in Stream
    BY <1>1 DEF Stream
  <2> QED  BY <1>2, <2>1 DEF ReadStream, TypeOK, registryVars, commandVars, sudoVars
<1>3. CASE ~stream[a].lagged
  <2>1. Tail(stream[a].queue) \in Seq(Events)
    BY <1>1, <1>3 DEF ReadStream, Stream
  <2>2. \A q \in Seq(Events), d \in BOOLEAN :
           [stream[a] EXCEPT !.queue = q, !.done = d] \in Stream
    BY <1>1 DEF Stream
  <2> DEFINE ends == Head(stream[a].queue) \in Verdicts
  <2>3. ends \in BOOLEAN
    OBVIOUS
  <2>4. stream' = [stream EXCEPT ![a].queue = Tail(@), ![a].done = ends]
    BY <1>3 DEF ReadStream
  <2> HIDE DEF ends
  <2>5. stream' \in [Agents -> Stream]
    BY <2>1, <2>2, <2>3, <2>4 DEF TypeOK
  <2> QED  BY <2>5 DEF ReadStream, TypeOK, registryVars, commandVars, sudoVars
<1> QED  BY <1>2, <1>3

LEMMA TypeDropStream ==
    ASSUME TypeOK, NEW a \in Agents, DropStream(a)
    PROVE  TypeOK'
<1> DEFINE i == stream[a].target
<1>1. stream[a].role \in {"waiter", "command"} => i \in Ids
  BY DEF TypeOK, Stream
<1>2. shares' \in [Ids -> Share \cup {NoShare}]
  BY <1>1, EntryType, DetachType DEF DropStream, TypeOK
<1>3. requests' \in [Ids -> Request \cup {NoRequest}]
  BY <1>1, EntryType, DetachType DEF DropStream, TypeOK
<1>4. stream' \in [Agents -> Stream]
  BY NewStreamType DEF DropStream, TypeOK, Stream, NoStream
<1>5. canceled' \subseteq Ids
  BY <1>1 DEF DropStream, Cancel, TypeOK
<1> QED  BY <1>2, <1>3, <1>4, <1>5 DEF DropStream, TypeOK, registryVars, sudoVars

-----------------------------------------------------------------------------
(* All steps.                                                              *)

LEMMA RegistryKeepsTypes ==
    ASSUME TypeOK, RegistryStep
    PROVE  TypeOK'
<1> USE DEF commandVars, sudoVars, TypeOK
<1>1. ASSUME NEW t \in Terminals,
             CreateTerminal(t) \/ TerminalExits(t) \/ PruneExited(t) \/ RemoveTerminal(t)
      PROVE  TypeOK'
  BY <1>1 DEF CreateTerminal, TerminalExits, PruneExited, RemoveTerminal
<1>2. ASSUME NEW t \in Terminals, ClearTerminal(t)
      PROVE  TypeOK'
  BY <1>2, NotifyType DEF ClearTerminal, Clear, Events, Verdicts
<1>3. CASE ReaperLists
  BY <1>3 DEF ReaperLists
<1>4. CASE ReaperClears
  BY <1>4, NotifyType DEF ReaperClears, Clear, Events, Verdicts
<1> QED  BY <1>1, <1>2, <1>3, <1>4 DEF RegistryStep

LEMMA CallerKeepsTypes ==
    ASSUME TypeOK, CallerStep
    PROVE  TypeOK'
  BY DEF CallerStep, Authorize, Refuse, TypeOK, registryVars, commandVars, sudoVars

LEMMA AgentKeepsTypes ==
    ASSUME TypeOK, AgentStep
    PROVE  TypeOK'
<1>1. ASSUME NEW a \in Agents, NEW n \in Names, NEW p \in Purposes,
             RequestSecret(a, n, p)
      PROVE  TypeOK'
  <2>1. CASE Ask(a, "secret", n, p)
    BY <1>1, <2>1, TypeAsk DEF RequestSecret
  <2>2. CASE ~Ask(a, "secret", n, p)
    <3>1. Immediate("granted") \in Stream
      BY NewStreamType DEF Events, Verdicts
    <3>2. stream' \in [Agents -> Stream]
      BY <1>1, <2>2, <3>1 DEF RequestSecret, TypeOK
    <3> QED  BY <1>1, <2>2, <3>2 DEF RequestSecret, Return, Callers, TypeOK,
             registryVars, commandVars, sudoVars
  <2> QED  BY <2>1, <2>2
<1>2. ASSUME NEW a \in Agents, NEW c \in Commands, NEW p \in Purposes,
             RequestSudo(a, c, p)
      PROVE  TypeOK'
  BY <1>2, TypeAsk DEF RequestSudo
<1> QED
  BY <1>1, <1>2, TypeShareSecret, TypeGenerateSecret, TypeWaitShare,
     TypeExecuteSecret, TypeReadStream, TypeDropStream DEF AgentStep

LEMMA UserKeepsTypes ==
    ASSUME TypeOK, UserStep
    PROVE  TypeOK'
<1>1. ASSUME NEW u \in Users, NEW n \in Names, AddSecret(u, n)
      PROVE  TypeOK'
  BY <1>1, NotifyType DEF AddSecret, GrantAndWake, Grant, Return, Callers,
     Events, Verdicts, TypeOK, registryVars, commandVars, sudoVars
<1>2. ASSUME NEW u \in Users, RefuseChangedObjects(u)
      PROVE  TypeOK'
  BY <1>2, NotifyType DEF RefuseChangedObjects, FailRequest, Approval, Events,
     Verdicts, TypeOK, registryVars, commandVars
<1>3. ASSUME NEW u \in Users, AbandonApproval(u)
      PROVE  TypeOK'
  BY <1>3 DEF AbandonApproval, Approval, TypeOK, registryVars, commandVars
<1>4. ASSUME NEW g \in grants, RevokeGrant(g)
      PROVE  TypeOK'
  BY <1>4, NotifyType, WithdrawType DEF RevokeGrant, Events, Verdicts, TypeOK,
     registryVars, commandVars, sudoVars
<1>5. ASSUME NEW i \in Ids, Reject(i)
      PROVE  TypeOK'
  BY <1>5, NotifyType DEF Reject, Events, Verdicts, TypeOK, registryVars,
     commandVars, sudoVars
<1>6. ASSUME NEW i \in Ids, RevealShare(i) \/ DismissShare(i)
      PROVE  TypeOK'
  BY <1>6, NotifyType, EntryType, ResolveType DEF RevealShare, DismissShare,
     LiveShares, ShareVerdicts, Events, Verdicts, TypeOK, registryVars,
     commandVars, sudoVars
<1> QED
  BY <1>1, <1>2, <1>3, <1>4, <1>5, <1>6, TypeApproveSecret, TypeApproveSudo,
     TypePasswordRejected, TypePasswordAccepted, TypeStartApproved DEF UserStep

LEMMA TaskKeepsTypes ==
    ASSUME TypeOK, TaskStep
    PROVE  TypeOK'
<1>1. CASE ExpireShares
  BY <1>1, NotifyType, EntryType, ResolveType DEF ExpireShares, Expired,
     DueShares, StaleShares, LiveShares, ShareVerdicts, Events, Verdicts,
     TypeOK, registryVars, commandVars, sudoVars
<1>2. ASSUME NEW i \in Ids, RootStarts(i)
      PROVE  TypeOK'
  BY <1>2 DEF RootStarts, TypeOK, registryVars, commandVars
<1>3. ASSUME NEW i \in Ids, RootFails(i) \/ RootExits(i)
      PROVE  TypeOK'
  BY <1>3, NotifyType DEF RootFails, RootExits, FailRequest, Events, Verdicts,
     TypeOK, registryVars, commandVars
<1>4. ASSUME NEW i \in Ids, RootWrites(i) \/ CommandWrites(i)
      PROVE  TypeOK'
  BY <1>4, NotifyType DEF RootWrites, CommandWrites, Events, TypeOK,
     registryVars, commandVars, sudoVars
<1>5. ASSUME NEW i \in Ids, NEW e \in {"completed", "failed"}, CommandEnds(i, e)
      PROVE  TypeOK'
  BY <1>5, NotifyType DEF CommandEnds, Events, Verdicts, TypeOK, registryVars,
     sudoVars
<1>6. ASSUME NEW i \in Ids, FinishSecretExecution(i)
      PROVE  TypeOK'
  BY <1>6 DEF FinishSecretExecution, TypeOK, registryVars, sudoVars
<1> QED
  BY <1>1, <1>2, <1>3, <1>4, <1>5, <1>6, TypeTimePasses DEF TaskStep

LEMMA NextKeepsTypes == TypeOK /\ [Next]_vars => TypeOK'
<1> SUFFICES ASSUME TypeOK, [Next]_vars PROVE TypeOK'
  OBVIOUS
<1>1. CASE UNCHANGED vars
  BY <1>1 DEF vars, registryVars, commandVars, sudoVars, TypeOK
<1> QED
  BY <1>1, RegistryKeepsTypes, CallerKeepsTypes, AgentKeepsTypes,
     UserKeepsTypes, TaskKeepsTypes DEF Next

\* Every variable keeps its type: in particular a request that goes back to
\* Pending after a refused password still exists (approve_sudo looks), an
\* approval always names a request, and a stream that waits names what for.
THEOREM TypeCorrect == Spec => []TypeOK
  BY TypeInit, NextKeepsTypes, PTL DEF Spec

-----------------------------------------------------------------------------
(***************************************************************************)
(* The reviewed root commands, for every number of agents, browsers and    *)
(* requests and every cap.                                                 *)
(*                                                                         *)
(* RootOnceVerified is not inductive: a task may start its command because *)
(* nothing was started for the request before (NotYetStarted), which holds *)
(* because an approval in progress still has a request that no task has    *)
(* touched, even when the request was cleared meanwhile (ApprovalHolds).   *)
(***************************************************************************)

\* The request an approval works for is authenticating, unless it was cleared;
\* no task works for it yet, and nothing was started for it.
ApprovalHolds ==
    \A u \in Users : approval[u] # NoApproval =>
        LET i == approval[u].request IN
        /\ requests[i].state \in {"authenticating", "none"}
        /\ roots[i] = "none" /\ started[i] = 0
        /\ approval[u].phase # "verifying" => i \in verified

\* Nothing was started for a request that waits for its approval, or whose
\* task has not rechecked the objects.
NotYetStarted ==
    \A i \in Ids :
        \/ requests[i].state \in {"pending", "authenticating"}
        \/ roots[i] = "spawned"
        => started[i] = 0

SudoInv == OneRootPerRequest /\ RootOnceVerified /\ ApprovalHolds /\ NotYetStarted

LEMMA SudoInit == Init => SudoInv
  BY DEF Init, SudoInv, OneRootPerRequest, RootOnceVerified, ApprovalHolds,
     NotYetStarted, NoRequest

\* What only forgets requests, and leaves approvals and tasks alone.
LEMMA ForgettingIsSafe ==
    ASSUME TypeOK, SudoInv, UNCHANGED sudoVars,
           \A i \in Ids : requests'[i].state \in {requests[i].state, "none"}
    PROVE  SudoInv'
<1> USE DEF sudoVars, SudoInv
<1>1. OneRootPerRequest' /\ RootOnceVerified'
  BY DEF OneRootPerRequest, RootOnceVerified
<1>2. ApprovalHolds'
  BY DEF ApprovalHolds, TypeOK, Approval
<1>3. NotYetStarted'
  BY DEF NotYetStarted
<1> QED  BY <1>1, <1>2, <1>3

\* The hypotheses of ForgettingIsSafe, as a step.
Forgets == /\ UNCHANGED sudoVars
           /\ \A i \in Ids : requests'[i].state \in {requests[i].state, "none"}

\* Terminals that come, go and are cleared.
LEMMA RegistryForgets ==
    ASSUME TypeOK, RegistryStep
    PROVE  Forgets
<1> USE DEF Forgets, sudoVars, NoRequest, TypeOK
<1>1. CASE UNCHANGED <<requests, sudoVars>>
  BY <1>1
<1>2. ASSUME NEW ts, Clear(ts)
      PROVE  Forgets
  BY <1>2 DEF Clear
<1> QED
  BY <1>1, <1>2 DEF RegistryStep, CreateTerminal, TerminalExits, PruneExited,
     RemoveTerminal, ClearTerminal, ReaperLists, ReaperClears

\* A waiter that leaves withdraws its request or leaves its state alone.
LEMMA DropForgets ==
    ASSUME TypeOK, NEW a \in Agents, DropStream(a)
    PROVE  Forgets
<1>1. \A i \in Ids : requests[i].state # "none" =>
         Detach(requests[i]).state = requests[i].state
  BY EntryType DEF Detach, Request
<1> QED
  BY <1>1 DEF DropStream, Forgets, sudoVars, NoRequest, TypeOK

\* A new request starts with a clean record; joining one changes only its
\* waiters.
LEMMA AskIsSafe ==
    ASSUME TypeOK, SudoInv, NEW a \in Agents, NEW k, NEW s, NEW p, Ask(a, k, s, p)
    PROVE  SudoInv'
<1>1. CASE \E i \in Pending(call[a]) :
             /\ requests' = [requests EXCEPT ![i].waiters = @ + 1]
             /\ UNCHANGED <<verified, started>>
  <2>1. \A i \in Ids : requests'[i].state = requests[i].state
    BY <1>1, EntryType DEF Pending, TypeOK, Request
  <2> QED  BY <1>1, <2>1, ForgettingIsSafe DEF Ask, sudoVars
<1>2. CASE \E i \in Ids :
             /\ FreshId(i)
             /\ requests' = [requests EXCEPT ![i] =
                  [state |-> "pending", kind |-> k, terminal |-> call[a],
                   subject |-> s, purpose |-> p, waiters |-> 1]]
             /\ verified' = verified \ {i}
             /\ started' = [started EXCEPT ![i] = 0]
  <2>1. PICK i \in Ids :
             /\ FreshId(i)
             /\ requests' = [requests EXCEPT ![i] =
                  [state |-> "pending", kind |-> k, terminal |-> call[a],
                   subject |-> s, purpose |-> p, waiters |-> 1]]
             /\ verified' = verified \ {i}
             /\ started' = [started EXCEPT ![i] = 0]
    BY <1>2
  <2>2. /\ requests'[i].state = "pending" /\ started'[i] = 0 /\ roots[i] = "none"
        /\ \A u \in Users : approval[u].request # i
        /\ \A j \in Ids \ {i} : /\ requests'[j] = requests[j]
                                /\ started'[j] = started[j]
                                /\ j \in verified' <=> j \in verified
    BY <2>1 DEF FreshId, TypeOK
  <2>3. UNCHANGED <<approval, roots>>
    BY DEF Ask
  <2>4. OneRootPerRequest'
    BY <2>2, <2>3 DEF SudoInv, OneRootPerRequest
  <2>5. RootOnceVerified'
    BY <2>2, <2>3 DEF SudoInv, RootOnceVerified
  <2>6. ApprovalHolds'
    BY <2>2, <2>3 DEF SudoInv, ApprovalHolds, TypeOK, Approval
  <2>7. NotYetStarted'
    BY <2>2, <2>3 DEF SudoInv, NotYetStarted
  <2> QED  BY <2>4, <2>5, <2>6, <2>7 DEF SudoInv
<1> QED  BY <1>1, <1>2 DEF Ask, Pending

LEMMA AgentIsSafe ==
    ASSUME TypeOK, SudoInv, AgentStep
    PROVE  SudoInv'
<1>1. ASSUME Forgets
      PROVE  SudoInv'
  BY <1>1, ForgettingIsSafe DEF Forgets
<1>2. ASSUME UNCHANGED <<requests, sudoVars>>
      PROVE  SudoInv'
  BY <1>1, <1>2 DEF Forgets
<1>3. ASSUME NEW a \in Agents, NEW n \in Names, NEW p \in Purposes,
             RequestSecret(a, n, p)
      PROVE  SudoInv'
  BY <1>2, <1>3, AskIsSafe DEF RequestSecret
<1>4. ASSUME NEW a \in Agents, NEW n \in Names, NEW r \in BOOLEAN,
             GenerateSecret(a, n, r)
      PROVE  SudoInv'
  BY <1>1, <1>4 DEF GenerateSecret, GrantAndWake, Forgets, NoRequest
<1>5. ASSUME NEW a \in Agents, NEW c \in Commands, NEW p \in Purposes,
             RequestSudo(a, c, p)
      PROVE  SudoInv'
  BY <1>5, AskIsSafe DEF RequestSudo
<1>6. ASSUME NEW a \in Agents, NEW n \in Names, NEW p \in Purposes,
             ShareSecret(a, n, p)
      PROVE  SudoInv'
  BY <1>2, <1>6 DEF ShareSecret
<1>7. ASSUME NEW a \in Agents, NEW i \in Ids, WaitShare(a, i)
      PROVE  SudoInv'
  BY <1>2, <1>7 DEF WaitShare
<1>8. ASSUME NEW a \in Agents, NEW n \in Names, ExecuteSecret(a, n)
      PROVE  SudoInv'
  BY <1>2, <1>8 DEF ExecuteSecret
<1>9. ASSUME NEW a \in Agents, ReadStream(a)
      PROVE  SudoInv'
  BY <1>2, <1>9 DEF ReadStream
<1>10. ASSUME NEW a \in Agents, DropStream(a)
       PROVE  SudoInv'
  BY <1>1, <1>10, DropForgets
<1> QED
  BY <1>3, <1>4, <1>5, <1>6, <1>7, <1>8, <1>9, <1>10 DEF AgentStep

LEMMA RegistryOrCallerIsSafe ==
    ASSUME TypeOK, SudoInv, RegistryStep \/ CallerStep
    PROVE  SudoInv'
<1>1. CASE RegistryStep
  BY <1>1, RegistryForgets, ForgettingIsSafe DEF Forgets
<1>2. CASE CallerStep
  BY <1>2, ForgettingIsSafe DEF CallerStep, Authorize, Refuse
<1> QED  BY <1>1, <1>2

\* The request was pending, so no approval or task had it.
LEMMA ApproveSudoIsSafe ==
    ASSUME TypeOK, SudoInv, NEW u \in Users, NEW i \in Ids, ApproveSudo(u, i)
    PROVE  SudoInv'
<1>1. /\ requests[i].state = "pending" /\ requests[i] \in Request
      /\ requests'[i].state = "authenticating"
      /\ \A j \in Ids \ {i} : requests'[j] = requests[j]
  BY EntryType DEF ApproveSudo, Approvable, Pending, TypeOK, Request
<1>2. /\ approval'[u] = [phase |-> "verifying", request |-> i]
      /\ \A v \in Users \ {u} : approval'[v] = approval[v]
      /\ UNCHANGED <<roots, verified, started>>
  BY DEF ApproveSudo, TypeOK
<1>3. \A v \in Users : approval[v] = NoApproval \/ approval[v].request # i
  BY <1>1 DEF SudoInv, ApprovalHolds
<1>4. roots[i] = "none" /\ started[i] = 0
  BY <1>1 DEF SudoInv, OneRootPerRequest, NotYetStarted
<1>5. NoApproval.request = None /\ i # None
  BY NoneAssumption DEF NoApproval
<1>6. OneRootPerRequest'
  BY <1>1, <1>2, <1>3, <1>4, <1>5 DEF SudoInv, OneRootPerRequest
<1>7. RootOnceVerified'
  BY <1>2 DEF SudoInv, RootOnceVerified
<1>8. ApprovalHolds'
  BY <1>1, <1>2, <1>3, <1>4 DEF SudoInv, ApprovalHolds, TypeOK, Approval
<1>9. NotYetStarted'
  BY <1>1, <1>2, <1>4 DEF SudoInv, NotYetStarted
<1> QED  BY <1>6, <1>7, <1>8, <1>9 DEF SudoInv

\* What an approval in progress means for its request.
LEMMA InApproval ==
    ASSUME TypeOK, SudoInv, NEW u \in Users, approval[u].phase # "none"
    PROVE  LET i == approval[u].request IN
           /\ i \in Ids
           /\ requests[i].state \in {"authenticating", "none"}
           /\ roots[i] = "none" /\ started[i] = 0
           /\ approval[u].phase # "verifying" => i \in verified
           /\ \A v \in Users \ {u} : approval[v].request # i
<1>1. approval[u] # NoApproval /\ approval[u].request \in Ids
  <2>1. approval[u].request \in Ids
    BY ApprovalType
  <2>2. approval[u] # NoApproval
    BY DEF NoApproval
  <2> QED  BY <2>1, <2>2
<1> QED
  BY <1>1 DEF SudoInv, ApprovalHolds, OneRootPerRequest

\* An approval that ends, its request left pending or gone, or handed to a new
\* task.
LEMMA ApprovalEnds ==
    ASSUME TypeOK, SudoInv, NEW u \in Users, approval[u].phase # "none",
           approval' = [approval EXCEPT ![u] = NoApproval],
           UNCHANGED <<verified, started>>,
           LET i == approval[u].request IN
           /\ \/ requests'[i].state # "running" /\ UNCHANGED roots
              \/ /\ requests'[i].state = "running"
                 /\ roots' = [roots EXCEPT ![i] = "spawned"]
                 /\ approval[u].phase # "verifying"
           /\ \A j \in Ids \ {i} : requests'[j] = requests[j]
    PROVE  SudoInv'
<1> DEFINE i == approval[u].request
<1>1. /\ i \in Ids
      /\ roots[i] = "none" /\ started[i] = 0
      /\ approval[u].phase # "verifying" => i \in verified
      /\ \A v \in Users \ {u} : approval[v].request # i
  BY InApproval
<1>2. /\ approval'[u] = NoApproval
      /\ \A v \in Users \ {u} : approval'[v] = approval[v]
      /\ \A j \in Ids \ {i} : requests'[j] = requests[j] /\ roots'[j] = roots[j]
  BY DEF TypeOK
<1>3. \/ requests'[i].state # "running" /\ roots'[i] = "none"
      \/ requests'[i].state = "running" /\ roots'[i] = "spawned" /\ i \in verified
  BY <1>1 DEF TypeOK
<1> HIDE DEF i
<1>4. OneRootPerRequest'
  <2>1. \A v, w \in Users : approval'[v].request = approval'[w].request =>
                              v = w \/ approval'[v] = NoApproval
    <3>1. \A v \in Users \ {u} : approval[v] = NoApproval \/ approval[v].request # None
      BY NoneAssumption DEF TypeOK, Approval
    <3>2. NoApproval.request = None
      BY DEF NoApproval
    <3> QED  BY <1>2, <3>1, <3>2 DEF SudoInv, OneRootPerRequest
  <2>2. \A j \in Ids : \A v \in Users : roots'[j] # "none" => approval'[v].request # j
    BY <1>1, <1>2, <1>3, NoneAssumption DEF SudoInv, OneRootPerRequest, NoApproval
  <2>3. \A j \in Ids : /\ requests'[j].state = "running" => roots'[j] # "none"
                       /\ roots'[j] # "none" => requests'[j].state \in {"running", "none"}
    BY <1>1, <1>2, <1>3 DEF SudoInv, OneRootPerRequest
  <2> QED  BY <2>1, <2>2, <2>3 DEF OneRootPerRequest
<1>5. RootOnceVerified'
  BY <1>1, <1>2, <1>3 DEF SudoInv, RootOnceVerified
<1>6. ApprovalHolds'
  BY <1>1, <1>2, <1>3 DEF SudoInv, ApprovalHolds, TypeOK, Approval
<1>7. NotYetStarted'
  BY <1>1, <1>2, <1>3 DEF SudoInv, NotYetStarted
<1> QED  BY <1>4, <1>5, <1>6, <1>7 DEF SudoInv

LEMMA PasswordRejectedIsSafe ==
    ASSUME TypeOK, SudoInv, NEW u \in Users, PasswordRejected(u)
    PROVE  SudoInv'
<1> DEFINE i == approval[u].request
<1>1. i \in Ids /\ requests[i].state \in {"authenticating", "none"}
  BY InApproval DEF PasswordRejected
<1>2. /\ requests'[i].state \in {"pending", "none"}
      /\ \A j \in Ids \ {i} : requests'[j] = requests[j]
  BY <1>1, EntryType DEF PasswordRejected, BackToPending, TypeOK, Request
<1> QED  BY <1>2, ApprovalEnds DEF PasswordRejected

LEMMA RefuseChangedObjectsIsSafe ==
    ASSUME TypeOK, SudoInv, NEW u \in Users, RefuseChangedObjects(u)
    PROVE  SudoInv'
<1> DEFINE i == approval[u].request
<1>1. i \in Ids
  BY InApproval DEF RefuseChangedObjects
<1>2. /\ requests'[i].state = "none"
      /\ \A j \in Ids \ {i} : requests'[j] = requests[j]
  BY <1>1 DEF RefuseChangedObjects, FailRequest, TypeOK, NoRequest
<1> QED  BY <1>2, ApprovalEnds DEF RefuseChangedObjects

LEMMA StartApprovedIsSafe ==
    ASSUME TypeOK, SudoInv, NEW u \in Users, StartApproved(u)
    PROVE  SudoInv'
<1> DEFINE i == approval[u].request
<1>1. i \in Ids
  BY InApproval DEF StartApproved
<1>2. CASE requests[i].state = "none"
  BY <1>2, ApprovalEnds DEF StartApproved
<1>3. CASE requests[i].state # "none"
  <2>1. /\ requests'[i].state = "running"
        /\ \A j \in Ids \ {i} : requests'[j] = requests[j]
    BY <1>1, <1>3, EntryType DEF StartApproved, TypeOK, Request
  <2> QED  BY <1>3, <2>1, ApprovalEnds DEF StartApproved
<1> QED  BY <1>2, <1>3

LEMMA AbandonApprovalIsSafe ==
    ASSUME TypeOK, SudoInv, NEW u \in Users, AbandonApproval(u)
    PROVE  SudoInv'
<1>1. requests[approval[u].request].state # "running"
  BY InApproval DEF AbandonApproval
<1> QED  BY <1>1, ApprovalEnds DEF AbandonApproval

\* The password is remembered as accepted for the request of this approval.
LEMMA PasswordAcceptedIsSafe ==
    ASSUME TypeOK, SudoInv, NEW u \in Users, NEW m \in BOOLEAN, PasswordAccepted(u, m)
    PROVE  SudoInv'
<1> DEFINE i == approval[u].request
<1>1. /\ i \in Ids /\ requests[i].state \in {"authenticating", "none"}
      /\ roots[i] = "none" /\ started[i] = 0
  BY InApproval DEF PasswordAccepted
<1>2. /\ approval'[u] # NoApproval /\ approval'[u].request = i
      /\ \A v \in Users \ {u} : approval'[v] = approval[v]
      /\ verified' = verified \cup {i}
      /\ UNCHANGED <<requests, roots, started>>
  <2>1. approval[u] \in
          [phase : {"verifying", "mismatched", "invalidating"}, request : Ids]
    BY DEF PasswordAccepted, TypeOK, Approval, NoApproval
  <2>2. approval'[u] = [phase |-> IF m THEN "invalidating" ELSE "mismatched",
                        request |-> i]
    BY <2>1 DEF PasswordAccepted, TypeOK
  <2> QED  BY <2>2 DEF PasswordAccepted, TypeOK, NoApproval
<1>3. OneRootPerRequest'
  <2>1. \A v \in Users \ {u} : approval[v].request # i
    BY InApproval DEF PasswordAccepted
  <2> QED  BY <1>1, <1>2, <2>1 DEF SudoInv, OneRootPerRequest
<1>4. RootOnceVerified'
  BY <1>2 DEF SudoInv, RootOnceVerified
<1>5. ApprovalHolds'
  BY <1>1, <1>2 DEF SudoInv, ApprovalHolds
<1>6. NotYetStarted'
  BY <1>2 DEF SudoInv, NotYetStarted
<1> QED  BY <1>3, <1>4, <1>5, <1>6 DEF SudoInv

LEMMA UserIsSafe ==
    ASSUME TypeOK, SudoInv, UserStep
    PROVE  SudoInv'
<1>1. ASSUME Forgets
      PROVE  SudoInv'
  BY <1>1, ForgettingIsSafe DEF Forgets
<1>2. ASSUME NEW u \in Users, NEW n \in Names, AddSecret(u, n)
      PROVE  SudoInv'
  BY <1>1, <1>2 DEF AddSecret, GrantAndWake, Forgets, NoRequest
<1>3. ASSUME NEW u \in Users, NEW i \in Ids, ApproveSecret(u, i)
      PROVE  SudoInv'
  BY <1>1, <1>3 DEF ApproveSecret, GrantAndWake, Forgets, NoRequest
<1>4. ASSUME NEW g \in grants, RevokeGrant(g)
      PROVE  SudoInv'
  BY <1>1, <1>4 DEF RevokeGrant, Forgets
<1>5. ASSUME NEW i \in Ids, Reject(i)
      PROVE  SudoInv'
  BY <1>1, <1>5 DEF Reject, Forgets, NoRequest, TypeOK
<1>6. ASSUME NEW i \in Ids, RevealShare(i) \/ DismissShare(i)
      PROVE  SudoInv'
  BY <1>1, <1>6 DEF RevealShare, DismissShare, Forgets
<1> QED
  BY <1>2, <1>3, <1>4, <1>5, <1>6, ApproveSudoIsSafe, PasswordRejectedIsSafe,
     PasswordAcceptedIsSafe, RefuseChangedObjectsIsSafe, StartApprovedIsSafe,
     AbandonApprovalIsSafe DEF UserStep

\* A task that starts its command had not started one: its request is fresh
\* from an approval.
LEMMA RootStartsIsSafe ==
    ASSUME TypeOK, SudoInv, NEW i \in Ids, RootStarts(i)
    PROVE  SudoInv'
<1>1. /\ roots[i] = "spawned" /\ roots'[i] = "running"
      /\ started[i] = 0 /\ started'[i] = 1
      /\ i \in verified
      /\ \A j \in Ids \ {i} : roots'[j] = roots[j] /\ started'[j] = started[j]
      /\ UNCHANGED <<requests, approval, verified>>
  BY DEF RootStarts, TypeOK, SudoInv, NotYetStarted, RootOnceVerified
<1>2. /\ requests[i].state \in {"running", "none"}
      /\ \A u \in Users : approval[u].request # i
  BY <1>1 DEF SudoInv, OneRootPerRequest
<1>3. OneRootPerRequest'
  BY <1>1, <1>2 DEF SudoInv, OneRootPerRequest
<1>4. RootOnceVerified'
  BY <1>1 DEF SudoInv, RootOnceVerified
<1>5. ApprovalHolds'
  BY <1>1, <1>2 DEF SudoInv, ApprovalHolds, TypeOK, Approval
<1>6. NotYetStarted'
  BY <1>1, <1>2 DEF SudoInv, NotYetStarted
<1> QED  BY <1>3, <1>4, <1>5, <1>6 DEF SudoInv

\* A task ends together with its request, if that is still there.
LEMMA RootEndsIsSafe ==
    ASSUME TypeOK, SudoInv, NEW i \in Ids, RootFails(i) \/ RootExits(i)
    PROVE  SudoInv'
<1>1. /\ roots[i] # "none" /\ roots'[i] = "none"
      /\ requests'[i].state = "none"
      /\ \A j \in Ids \ {i} : roots'[j] = roots[j] /\ requests'[j] = requests[j]
      /\ UNCHANGED <<approval, verified, started>>
  BY DEF RootFails, RootExits, FailRequest, TypeOK, NoRequest
<1>2. OneRootPerRequest'
  BY <1>1 DEF SudoInv, OneRootPerRequest
<1>3. RootOnceVerified'
  BY <1>1 DEF SudoInv, RootOnceVerified
<1>4. ApprovalHolds'
  BY <1>1 DEF SudoInv, ApprovalHolds, OneRootPerRequest, TypeOK, Approval
<1>5. NotYetStarted'
  BY <1>1 DEF SudoInv, NotYetStarted
<1> QED  BY <1>2, <1>3, <1>4, <1>5 DEF SudoInv

LEMMA TaskIsSafe ==
    ASSUME TypeOK, SudoInv, TaskStep
    PROVE  SudoInv'
<1>1. ASSUME UNCHANGED <<requests, sudoVars>>
      PROVE  SudoInv'
  BY <1>1, ForgettingIsSafe
<1>2. CASE ExpireShares
  BY <1>1, <1>2 DEF ExpireShares
<1>3. ASSUME NEW i \in Ids,
             \/ TimePasses(i) \/ RootWrites(i) \/ CommandWrites(i)
             \/ FinishSecretExecution(i)
             \/ \E e \in {"completed", "failed"} : CommandEnds(i, e)
      PROVE  SudoInv'
  BY <1>1, <1>3 DEF TimePasses, RootWrites, CommandWrites,
     FinishSecretExecution, CommandEnds
<1> QED  BY <1>2, <1>3, RootStartsIsSafe, RootEndsIsSafe DEF TaskStep

LEMMA NextIsSafe == TypeOK /\ SudoInv /\ [Next]_vars => SudoInv'
<1> SUFFICES ASSUME TypeOK, SudoInv, [Next]_vars PROVE SudoInv'
  OBVIOUS
<1>1. CASE UNCHANGED vars
  <2>1. UNCHANGED sudoVars /\ UNCHANGED requests
    BY <1>1 DEF vars, sudoVars
  <2> QED  BY <2>1, ForgettingIsSafe
<1> QED
  BY <1>1, RegistryOrCallerIsSafe, AgentIsSafe, UserIsSafe, TaskIsSafe DEF Next

\* The inductive invariant of the sudo side: who works for a request, what it
\* has started and what was verified agree.
THEOREM SudoInvariance == Spec => []SudoInv
<1>1. Init => SudoInv
  BY SudoInit
<1>2. TypeOK /\ SudoInv /\ [Next]_vars => SudoInv'
  BY NextIsSafe
<1> QED  BY <1>1, <1>2, TypeCorrect, PTL DEF Spec

\* Two browsers that approve the same request, an abandoned handler, a refused
\* password and a terminal that dies never leave two actors at work for it.
THEOREM OneActorPerRequest == Spec => []OneRootPerRequest
<1>1. SudoInv => OneRootPerRequest
  BY DEF SudoInv
<1> QED  BY <1>1, SudoInvariance, PTL

\* However approvals, tasks and the clearing of terminals interleave, a root
\* command runs at most once for a request, after sudo accepted a password.
THEOREM RootCommandOnceVerified == Spec => []RootOnceVerified
<1>1. SudoInv => RootOnceVerified
  BY DEF SudoInv
<1> QED  BY <1>1, SudoInvariance, PTL

\* Both together, as the run checks them.
THEOREM RootHolds == Spec => []RootOnce
  BY OneActorPerRequest, RootCommandOnceVerified, PTL DEF RootOnce

\* One step of a request's life, as RequestLifecycle allows it.
Lifecycle(i) ==
    /\ requests[i].state = "authenticating" /\ requests'[i].state = "pending"
         => \E u \in Users :
                approval[u] = [phase |-> "verifying", request |-> i]
    /\ requests[i].state = "running"
         => requests'[i].state \in {"running", "none"}
    /\ requests[i].state = "pending"
         => requests'[i].state # "running"

-----------------------------------------------------------------------------
(* The life of a request.                                                  *)

LEMMA AskLives ==
    ASSUME TypeOK, NEW a \in Agents, NEW k, NEW s, NEW p, Ask(a, k, s, p)
    PROVE  \A i \in Ids : Lifecycle(i)
<1>1. CASE \E i \in Pending(call[a]) :
             requests' = [requests EXCEPT ![i].waiters = @ + 1]
  <2>1. \A i \in Ids : requests'[i].state = requests[i].state
    BY <1>1, EntryType DEF Pending, TypeOK, Request
  <2> QED  BY <2>1 DEF Lifecycle
<1>2. CASE \E i \in Ids :
             /\ FreshId(i)
             /\ requests' = [requests EXCEPT ![i] =
                  [state |-> "pending", kind |-> k, terminal |-> call[a],
                   subject |-> s, purpose |-> p, waiters |-> 1]]
  BY <1>2 DEF FreshId, Lifecycle, TypeOK
<1> QED  BY <1>1, <1>2 DEF Ask, Pending

LEMMA ApprovalsLive ==
    ASSUME TypeOK, SudoInv, NEW u \in Users,
           \/ PasswordRejected(u) \/ RefuseChangedObjects(u) \/ StartApproved(u)
           \/ AbandonApproval(u) \/ \E m \in BOOLEAN : PasswordAccepted(u, m)
    PROVE  \A i \in Ids : Lifecycle(i)
<1> DEFINE q == approval[u].request
<1>1. q \in Ids /\ requests[q].state \in {"authenticating", "none"}
  BY InApproval DEF PasswordRejected, RefuseChangedObjects, StartApproved,
     AbandonApproval, PasswordAccepted
<1>2. \A i \in Ids \ {q} : requests'[i] = requests[i]
  BY <1>1 DEF PasswordRejected, BackToPending, RefuseChangedObjects,
     FailRequest, StartApproved, AbandonApproval, PasswordAccepted, TypeOK
<1>3. \A i \in Ids \ {q} : Lifecycle(i)
  BY <1>2 DEF Lifecycle
<1>4. CASE PasswordRejected(u)
  <2>1. approval[u] = [phase |-> "verifying", request |-> q]
    BY <1>4 DEF PasswordRejected, TypeOK, Approval, NoApproval
  <2> QED  BY <1>1, <1>3, <2>1 DEF Lifecycle
<1>5. CASE ~PasswordRejected(u)
  <2>1. requests'[q].state # "pending"
    BY <1>1, <1>5, EntryType DEF RefuseChangedObjects, FailRequest,
       StartApproved, AbandonApproval, PasswordAccepted, TypeOK, Request, NoRequest
  <2> QED  BY <1>1, <1>3, <2>1 DEF Lifecycle
<1> QED  BY <1>4, <1>5

LEMMA NextLives ==
    ASSUME TypeOK, SudoInv, [Next]_vars
    PROVE  \A i \in Ids : Lifecycle(i)
<1>1. ASSUME \A i \in Ids : requests'[i].state \in {requests[i].state, "none"}
      PROVE  \A i \in Ids : Lifecycle(i)
  BY <1>1 DEF Lifecycle
<1>2. ASSUME UNCHANGED requests
      PROVE  \A i \in Ids : Lifecycle(i)
  BY <1>1, <1>2
<1>3. CASE RegistryStep
  BY <1>1, <1>3, RegistryForgets DEF Forgets
<1>4. CASE CallerStep
  BY <1>2, <1>4 DEF CallerStep, Authorize, Refuse
<1>5. CASE AgentStep
  <2>1. ASSUME NEW a \in Agents, NEW n \in Names, NEW p \in Purposes,
               RequestSecret(a, n, p)
        PROVE  \A i \in Ids : Lifecycle(i)
    BY <1>2, <2>1, AskLives DEF RequestSecret
  <2>2. ASSUME NEW a \in Agents, NEW n \in Names, NEW r \in BOOLEAN,
               GenerateSecret(a, n, r)
        PROVE  \A i \in Ids : Lifecycle(i)
    BY <1>1, <2>2 DEF GenerateSecret, GrantAndWake, NoRequest
  <2>3. ASSUME NEW a \in Agents, NEW c \in Commands, NEW p \in Purposes,
               RequestSudo(a, c, p)
        PROVE  \A i \in Ids : Lifecycle(i)
    BY <2>3, AskLives DEF RequestSudo
  <2>4. ASSUME NEW a \in Agents, DropStream(a)
        PROVE  \A i \in Ids : Lifecycle(i)
    BY <1>1, <2>4, DropForgets DEF Forgets
  <2>5. ASSUME NEW a \in Agents,
               \/ \E n \in Names, p \in Purposes : ShareSecret(a, n, p)
               \/ \E i \in Ids : WaitShare(a, i)
               \/ \E n \in Names : ExecuteSecret(a, n)
               \/ ReadStream(a)
        PROVE  \A i \in Ids : Lifecycle(i)
    BY <1>2, <2>5 DEF ShareSecret, WaitShare, ExecuteSecret, ReadStream
  <2> QED  BY <1>5, <2>1, <2>2, <2>3, <2>4, <2>5 DEF AgentStep
<1>6. CASE UserStep
  <2>1. ASSUME NEW u \in Users, NEW i \in Ids, ApproveSudo(u, i)
        PROVE  \A j \in Ids : Lifecycle(j)
    BY <2>1, EntryType DEF ApproveSudo, Approvable, Pending, Lifecycle, TypeOK, Request
  <2>2. ASSUME NEW u \in Users,
               \/ \E n \in Names : AddSecret(u, n)
               \/ \E i \in Ids : ApproveSecret(u, i)
        PROVE  \A i \in Ids : Lifecycle(i)
    <3>1. \A i \in Ids : requests'[i] \in {requests[i], NoRequest}
      BY <2>2 DEF AddSecret, ApproveSecret, GrantAndWake
    <3> QED  BY <1>1, <3>1 DEF NoRequest
  <2>3. ASSUME \/ \E g \in grants : RevokeGrant(g)
               \/ \E i \in Ids : RevealShare(i) \/ DismissShare(i)
        PROVE  \A i \in Ids : Lifecycle(i)
    BY <1>2, <2>3 DEF RevokeGrant, RevealShare, DismissShare
  <2>4. ASSUME NEW i \in Ids, Reject(i)
        PROVE  \A j \in Ids : Lifecycle(j)
    BY <1>1, <2>4 DEF Reject, NoRequest, TypeOK
  <2> QED  BY <1>6, <2>1, <2>2, <2>3, <2>4, ApprovalsLive DEF UserStep
<1>7. CASE TaskStep
  <2>1. ASSUME NEW i \in Ids, RootFails(i) \/ RootExits(i)
        PROVE  \A j \in Ids : Lifecycle(j)
    BY <1>1, <2>1 DEF RootFails, RootExits, FailRequest, NoRequest, TypeOK
  <2>2. ASSUME \/ ExpireShares
               \/ \E i \in Ids :
                    \/ TimePasses(i) \/ RootStarts(i) \/ RootWrites(i)
                    \/ CommandWrites(i) \/ FinishSecretExecution(i)
                    \/ \E e \in {"completed", "failed"} : CommandEnds(i, e)
        PROVE  \A j \in Ids : Lifecycle(j)
    BY <1>2, <2>2 DEF ExpireShares, TimePasses, RootStarts, RootWrites,
       CommandWrites, FinishSecretExecution, CommandEnds
  <2> QED  BY <1>7, <2>1, <2>2 DEF TaskStep
<1>8. CASE UNCHANGED vars
  BY <1>2, <1>8 DEF vars
<1> QED  BY <1>3, <1>4, <1>5, <1>6, <1>7, <1>8 DEF Next

\* A request only goes back to Pending because the password of its own approval
\* was refused, a running one never does, and none runs that nobody approved.
THEOREM LifecycleHolds == Spec => RequestLifecycle
<1>1. TypeOK /\ SudoInv /\ [Next]_vars => [\A i \in Ids : Lifecycle(i)]_vars
  BY NextLives
<1>2. Spec => [][\A i \in Ids : Lifecycle(i)]_vars
  BY <1>1, TypeCorrect, SudoInvariance, PTL DEF Spec
<1> QED  BY <1>2 DEF RequestLifecycle, Lifecycle

(***************************************************************************)
(* The secret side: grants against pending requests, and shares against    *)
(* grants.                                                                 *)
(***************************************************************************)
\* NoRequestBesideGrant without cardinalities.
AskedOnce ==
    \A t \in Terminals, n \in Names :
        /\ \A i, j \in PendingSecret(t, n) : i = j
        /\ GrantOf(t, n) # {} => PendingSecret(t, n) = {}

\* Only root commands are authenticated: what a refused password returns to
\* Pending never asks for a secret.
OnlySudoApproved ==
    \A i \in Ids : requests[i].state = "authenticating" => requests[i].kind = "sudo"

AskInv   == GrantNamesUnique /\ AskedOnce /\ OnlySudoApproved
ShareInv == PendingShareBacked /\ OneOfferPerGrant /\ RevealedOnce

LEMMA SecretInit == Init => AskInv /\ ShareInv
  BY DEF Init, AskInv, GrantNamesUnique, AskedOnce, GrantOf, PendingSecret,
     Pending, OnlySudoApproved, ShareInv, PendingShareBacked, OneOfferPerGrant,
     RevealedOnce, LiveShares, NoRequest, NoShare

-----------------------------------------------------------------------------
(* Grants and requests.                                                    *)

\* Steps that ask for no secret and grant none.
AsksNothing ==
    /\ grants' \subseteq grants
    /\ \A i \in Ids : requests'[i].state \in {"pending", "authenticating"} =>
         \/ /\ requests'[i].state = requests[i].state
            /\ requests'[i].kind = requests[i].kind
            /\ requests'[i].terminal = requests[i].terminal
            /\ requests'[i].subject = requests[i].subject
         \/ requests'[i].kind = "sudo"

LEMMA AskingNothingIsSafe == AskInv /\ AsksNothing => AskInv'
<1> SUFFICES ASSUME AskInv, AsksNothing PROVE AskInv'
  OBVIOUS
<1>1. \A t \in Terminals, n \in Names :
         /\ PendingSecret(t, n)' \subseteq PendingSecret(t, n)
         /\ GrantOf(t, n)' \subseteq GrantOf(t, n)
  BY DEF AsksNothing, PendingSecret, Pending, GrantOf
<1>2. GrantNamesUnique'
  BY DEF AsksNothing, AskInv, GrantNamesUnique
<1>3. AskedOnce'
  BY <1>1 DEF AskInv, AskedOnce
<1>4. OnlySudoApproved'
  BY DEF AsksNothing, AskInv, OnlySudoApproved
<1> QED  BY <1>2, <1>3, <1>4 DEF AskInv

\* A grant that is inserted replaces what has its name and answers every
\* request for it.
LEMMA GrantingIsSafe ==
    ASSUME TypeOK, AskInv, NEW t \in Terminals, NEW n \in Names, NEW kept,
           kept \subseteq grants, \A g \in kept : ~(g.terminal = t /\ g.name = n),
           GrantAndWake(kept, t, n, PendingSecret(t, n))
    PROVE  AskInv'
<1>1. PICK g \in GrantIds :
         grants' = kept \cup {[id |-> g, terminal |-> t, name |-> n]}
  BY DEF GrantAndWake
<1>2. \A i \in Ids : requests'[i] = IF i \in PendingSecret(t, n) THEN NoRequest
                                                                ELSE requests[i]
  BY DEF GrantAndWake
<1>3. GrantNamesUnique'
  BY <1>1 DEF AskInv, GrantNamesUnique
<1>4. AskedOnce'
  <2>1. \A s \in Terminals, m \in Names :
           PendingSecret(s, m)' \subseteq PendingSecret(s, m) \ PendingSecret(t, n)
    BY <1>2 DEF PendingSecret, Pending, NoRequest
  <2>2. \A s \in Terminals, m \in Names :
           s # t \/ m # n => GrantOf(s, m)' \subseteq GrantOf(s, m)
    BY <1>1 DEF GrantOf
  <2> QED  BY <2>1, <2>2 DEF AskInv, AskedOnce
<1>5. OnlySudoApproved'
  BY <1>2 DEF AskInv, OnlySudoApproved, NoRequest
<1> QED  BY <1>3, <1>4, <1>5 DEF AskInv

\* A secret that is not granted and not asked for is asked for once.
LEMMA AskingIsSafe ==
    ASSUME TypeOK, AskInv, NEW a \in Agents, NEW k \in {"secret", "sudo"},
           NEW s \in IF k = "secret" THEN Names ELSE Commands,
           NEW p, Ask(a, k, s, p),
           k = "secret" => GrantOf(call[a], s) = {}
    PROVE  AskInv'
<1>1. CASE \E i \in Pending(call[a]) :
             requests' = [requests EXCEPT ![i].waiters = @ + 1]
  <2>1. \A i \in Ids : /\ requests'[i].state = requests[i].state
                       /\ requests[i].state # "none" =>
                            /\ requests'[i].kind = requests[i].kind
                            /\ requests'[i].terminal = requests[i].terminal
                            /\ requests'[i].subject = requests[i].subject
    BY <1>1, EntryType DEF Pending, TypeOK, Request
  <2>2. AsksNothing
    BY <2>1 DEF AsksNothing, Ask
  <2> QED  BY <2>2, AskingNothingIsSafe
<1>2. CASE /\ {i \in Pending(call[a]) : /\ requests[i].kind = k
                                        /\ requests[i].subject = s} = {}
           /\ \E i \in Ids : requests' = [requests EXCEPT ![i] =
                  [state |-> "pending", kind |-> k, terminal |-> call[a],
                   subject |-> s, purpose |-> p, waiters |-> 1]]
  <2>1. PICK i \in Ids : requests' = [requests EXCEPT ![i] =
                  [state |-> "pending", kind |-> k, terminal |-> call[a],
                   subject |-> s, purpose |-> p, waiters |-> 1]]
    BY <1>2
  <2>2. /\ requests'[i].state = "pending" /\ requests'[i].kind = k
        /\ requests'[i].terminal = call[a] /\ requests'[i].subject = s
        /\ \A j \in Ids \ {i} : requests'[j] = requests[j]
        /\ grants' = grants
    BY <2>1 DEF TypeOK, Ask
  <2>3. \A t \in Terminals, n \in Names :
           \/ PendingSecret(t, n)' \subseteq PendingSecret(t, n)
           \/ /\ PendingSecret(t, n)' \subseteq {i}
              /\ GrantOf(t, n) = {}
    BY <1>2, <2>2 DEF PendingSecret, Pending
  <2>4. AskedOnce'
    BY <2>2, <2>3 DEF AskInv, AskedOnce, GrantOf
  <2>5. GrantNamesUnique' /\ OnlySudoApproved'
    BY <2>2 DEF AskInv, GrantNamesUnique, OnlySudoApproved
  <2> QED  BY <2>4, <2>5 DEF AskInv
<1> QED  BY <1>1, <1>2 DEF Ask

\* A waiter that leaves withdraws its request or changes only its count.
LEMMA DropAsksNothing ==
    ASSUME TypeOK, NEW a \in Agents, DropStream(a)
    PROVE  AsksNothing
<1>1. \A i \in Ids : requests[i].state # "none" =>
         /\ Detach(requests[i]).state = requests[i].state
         /\ Detach(requests[i]).kind = requests[i].kind
         /\ Detach(requests[i]).terminal = requests[i].terminal
         /\ Detach(requests[i]).subject = requests[i].subject
  BY EntryType DEF Detach, Request
<1> QED
  BY <1>1 DEF DropStream, AsksNothing, NoRequest, TypeOK

\* The request an approval returns, fails or starts is one for a root command.
LEMMA ApprovalAsksNothing ==
    ASSUME TypeOK, SudoInv, AskInv, NEW u \in Users,
           \/ PasswordRejected(u) \/ RefuseChangedObjects(u) \/ StartApproved(u)
           \/ AbandonApproval(u) \/ \E m \in BOOLEAN : PasswordAccepted(u, m)
    PROVE  AsksNothing
<1> DEFINE q == approval[u].request
<1>1. q \in Ids /\ requests[q].state \in {"authenticating", "none"}
  BY InApproval DEF PasswordRejected, RefuseChangedObjects, StartApproved,
     AbandonApproval, PasswordAccepted
<1>2. \A i \in Ids \ {q} : requests'[i] = requests[i]
  BY <1>1 DEF PasswordRejected, BackToPending, RefuseChangedObjects,
     FailRequest, StartApproved, AbandonApproval, PasswordAccepted, TypeOK
<1>3. requests[q].state = "authenticating" =>
         requests[q].kind = "sudo" /\ requests[q] \in Request
  BY <1>1, EntryType DEF AskInv, OnlySudoApproved
<1>4. requests'[q].state # "none" => requests'[q].kind = "sudo"
  BY <1>1, <1>3 DEF PasswordRejected, BackToPending, RefuseChangedObjects,
     FailRequest, StartApproved, AbandonApproval, PasswordAccepted, TypeOK,
     Request, NoRequest
<1>5. grants' = grants
  BY DEF PasswordRejected, RefuseChangedObjects, StartApproved,
     AbandonApproval, PasswordAccepted
<1> QED  BY <1>2, <1>4, <1>5 DEF AsksNothing

LEMMA AskInvKept ==
    ASSUME TypeOK, SudoInv, AskInv, [Next]_vars
    PROVE  AskInv'
<1>1. ASSUME AsksNothing
      PROVE  AskInv'
  BY <1>1, AskingNothingIsSafe
<1>2. ASSUME UNCHANGED <<requests, grants>>
      PROVE  AskInv'
  BY <1>1, <1>2 DEF AsksNothing
<1>3. ASSUME grants' \subseteq grants,
             \A i \in Ids : requests'[i] \in {requests[i], NoRequest}
      PROVE  AskInv'
  BY <1>1, <1>3 DEF AsksNothing, NoRequest
<1>4. CASE RegistryStep
  <2>1. ASSUME NEW ts, Clear(ts)
        PROVE  AskInv'
    BY <1>3, <2>1 DEF Clear
  <2>2. ASSUME UNCHANGED <<requests, grants>>
        PROVE  AskInv'
    BY <1>2, <2>2
  <2> QED
    BY <1>4, <2>1, <2>2 DEF RegistryStep, CreateTerminal, TerminalExits,
       PruneExited, RemoveTerminal, ClearTerminal, ReaperLists, ReaperClears
<1>5. CASE CallerStep
  BY <1>2, <1>5 DEF CallerStep, Authorize, Refuse
<1>6. CASE AgentStep
  <2>1. ASSUME NEW a \in Agents, NEW n \in Names, NEW p \in Purposes,
               RequestSecret(a, n, p)
        PROVE  AskInv'
    BY <1>2, <2>1, AskingIsSafe DEF RequestSecret
  <2>2. ASSUME NEW a \in Agents, NEW n \in Names, NEW r \in BOOLEAN,
               GenerateSecret(a, n, r)
        PROVE  AskInv'
    <3>1. call[a] \in Terminals
      BY <2>2 DEF GenerateSecret, TypeOK, Callers
    <3>2. GrantAndWake(grants \ GrantOf(call[a], n), call[a], n,
                       PendingSecret(call[a], n))
      BY <2>2 DEF GenerateSecret
    <3>3. \A g \in grants \ GrantOf(call[a], n) :
             ~(g.terminal = call[a] /\ g.name = n)
      BY DEF GrantOf
    <3> QED  BY <3>1, <3>2, <3>3, GrantingIsSafe
  <2>3. ASSUME NEW a \in Agents, NEW c \in Commands, NEW p \in Purposes,
               RequestSudo(a, c, p)
        PROVE  AskInv'
    BY <2>3, AskingIsSafe DEF RequestSudo
  <2>4. ASSUME NEW a \in Agents, DropStream(a)
        PROVE  AskInv'
    BY <1>1, <2>4, DropAsksNothing
  <2>5. ASSUME NEW a \in Agents,
               \/ \E n \in Names, p \in Purposes : ShareSecret(a, n, p)
               \/ \E i \in Ids : WaitShare(a, i)
               \/ \E n \in Names : ExecuteSecret(a, n)
               \/ ReadStream(a)
        PROVE  AskInv'
    BY <1>2, <2>5 DEF ShareSecret, WaitShare, ExecuteSecret, ReadStream
  <2> QED  BY <1>6, <2>1, <2>2, <2>3, <2>4, <2>5 DEF AgentStep
<1>7. CASE UserStep
  <2>1. ASSUME NEW u \in Users, NEW n \in Names, AddSecret(u, n)
        PROVE  AskInv'
    <3>1. call[u] \in Terminals
      BY <2>1 DEF AddSecret, TypeOK, Callers
    <3>2. GrantAndWake(grants, call[u], n, PendingSecret(call[u], n))
      BY <2>1 DEF AddSecret
    <3>3. \A g \in grants : ~(g.terminal = call[u] /\ g.name = n)
      BY <2>1 DEF AddSecret, GrantOf
    <3> QED  BY <3>1, <3>2, <3>3, GrantingIsSafe
  <2>2. ASSUME NEW u \in Users, NEW i \in Ids, ApproveSecret(u, i)
        PROVE  AskInv'
    <3> DEFINE t == call[u]
               n == requests[i].subject
    <3>1. /\ t \in Terminals /\ n \in Names
          /\ i \in PendingSecret(t, n)
      BY <2>2, EntryType DEF ApproveSecret, PendingSecret, Pending, TypeOK,
         Callers, Request
    <3>2. PendingSecret(t, n) = {i}
      BY <3>1 DEF AskInv, AskedOnce
    <3>3. GrantAndWake(grants, t, n, PendingSecret(t, n))
      BY <2>2, <3>2 DEF ApproveSecret
    <3>4. \A g \in grants : ~(g.terminal = t /\ g.name = n)
      BY <2>2 DEF ApproveSecret, GrantOf
    <3> QED  BY <3>1, <3>3, <3>4, GrantingIsSafe
  <2>3. ASSUME NEW u \in Users, NEW i \in Ids, ApproveSudo(u, i)
        PROVE  AskInv'
    <3>1. /\ requests[i].kind = "sudo" /\ requests'[i].kind = "sudo"
          /\ \A j \in Ids \ {i} : requests'[j] = requests[j]
          /\ grants' = grants
      BY <2>3, EntryType DEF ApproveSudo, Approvable, Pending, TypeOK, Request
    <3> QED  BY <1>1, <3>1 DEF AsksNothing
  <2>4. ASSUME NEW g \in grants, RevokeGrant(g)
        PROVE  AskInv'
    BY <1>3, <2>4 DEF RevokeGrant
  <2>5. ASSUME NEW i \in Ids, Reject(i)
        PROVE  AskInv'
    BY <1>3, <2>5 DEF Reject, TypeOK
  <2>6. ASSUME NEW i \in Ids, RevealShare(i) \/ DismissShare(i)
        PROVE  AskInv'
    BY <1>2, <2>6 DEF RevealShare, DismissShare
  <2> QED
    BY <1>1, <1>7, <2>1, <2>2, <2>3, <2>4, <2>5, <2>6, ApprovalAsksNothing
       DEF UserStep
<1>8. CASE TaskStep
  <2>1. ASSUME NEW i \in Ids, RootFails(i) \/ RootExits(i)
        PROVE  AskInv'
    BY <1>3, <2>1 DEF RootFails, RootExits, FailRequest, TypeOK
  <2>2. ASSUME \/ ExpireShares
               \/ \E i \in Ids :
                    \/ TimePasses(i) \/ RootStarts(i) \/ RootWrites(i)
                    \/ CommandWrites(i) \/ FinishSecretExecution(i)
                    \/ \E e \in {"completed", "failed"} : CommandEnds(i, e)
        PROVE  AskInv'
    BY <1>2, <2>2 DEF ExpireShares, TimePasses, RootStarts, RootWrites,
       CommandWrites, FinishSecretExecution, CommandEnds
  <2> QED  BY <1>8, <2>1, <2>2 DEF TaskStep
<1>9. CASE UNCHANGED vars
  BY <1>2, <1>9 DEF vars
<1> QED  BY <1>4, <1>5, <1>6, <1>7, <1>8, <1>9 DEF Next

-----------------------------------------------------------------------------
(* Shares.                                                                 *)

\* Steps that put nothing on offer and hand nothing out: a share stays what it
\* is, is resolved without being viewed, or is forgotten; and no share on offer
\* loses its grant.
OffersNothing ==
    /\ \A i \in Ids :
         \/ shares'[i].state = "none"
         \/ /\ shares'[i].state = shares[i].state
            /\ shares'[i].terminal = shares[i].terminal
            /\ shares'[i].name = shares[i].name
            /\ shares'[i].value = shares[i].value
            /\ reveals'[i] = reveals[i]
         \/ /\ shares[i].state = "pending"
            /\ shares'[i].state \in {"dismissed", "expired"}
            /\ shares'[i].value = None
            /\ reveals'[i] = reveals[i]
    /\ \A g \in grants \ grants' : \A i \in Ids :
         ~ /\ shares'[i].state = "pending"
           /\ shares'[i].terminal = g.terminal
           /\ shares'[i].name = g.name

LEMMA OfferingNothingIsSafe == ShareInv /\ OffersNothing => ShareInv'
<1> SUFFICES ASSUME ShareInv, OffersNothing PROVE ShareInv'
  OBVIOUS
<1>1. PendingShareBacked'
  BY DEF OffersNothing, ShareInv, PendingShareBacked, LiveShares
<1>2. OneOfferPerGrant'
  BY DEF OffersNothing, ShareInv, OneOfferPerGrant, LiveShares
<1>3. RevealedOnce'
  BY DEF OffersNothing, ShareInv, RevealedOnce, LiveShares
<1> QED  BY <1>1, <1>2, <1>3 DEF ShareInv

\* expire_shares_for_grant resolves every offer of one grant and nothing else.
LEMMA WithdrawOffersNothing ==
    ASSUME TypeOK, NEW t, NEW n, shares' = Withdraw(t, n), UNCHANGED reveals
    PROVE  /\ \A i \in Ids :
                \/ shares'[i] = shares[i]
                \/ /\ shares[i].state = "pending" /\ shares'[i].state = "expired"
                   /\ shares'[i].value = None
           /\ \A i \in Ids : ~ /\ shares'[i].state = "pending"
                               /\ shares'[i].terminal = t
                               /\ shares'[i].name = n
<1>1. \A i \in PendingShares(t, n) :
         /\ Resolve(shares[i], "expired").state = "expired"
         /\ Resolve(shares[i], "expired").value = None
  BY EntryType DEF Resolve, PendingShares, LiveShares, Share
<1> QED  BY <1>1 DEF Withdraw, PendingShares, LiveShares

LEMMA ShareSecretIsSafe ==
    ASSUME TypeOK, ShareInv, NEW a \in Agents, NEW n \in Names,
           NEW p \in Purposes, ShareSecret(a, n, p)
    PROVE  ShareInv'
<1> DEFINE t == call[a]
<1>1. UNCHANGED grants
  BY DEF ShareSecret
<1>2. CASE \E i \in PendingShares(t, n) :
             /\ shares' = [shares EXCEPT ![i].waiters = @ + 1]
             /\ UNCHANGED reveals
  <2>1. \A i \in Ids : shares[i].state = "none" \/
             /\ shares'[i].state = shares[i].state
             /\ shares'[i].terminal = shares[i].terminal
             /\ shares'[i].name = shares[i].name
             /\ shares'[i].value = shares[i].value
    BY <1>2, EntryType DEF PendingShares, LiveShares, TypeOK, Share
  <2>2. \A i \in Ids : shares[i].state = "none" => shares'[i] = shares[i]
    BY <1>2 DEF PendingShares, LiveShares, TypeOK
  <2>3. OffersNothing
    BY <1>1, <1>2, <2>1, <2>2 DEF OffersNothing
  <2> QED  BY <2>3, OfferingNothingIsSafe
<1>3. CASE \E g \in GrantOf(t, n), i \in Ids, evicted \in Evictions(t) :
             /\ PendingShares(t, n) = {}
             /\ shares' = [[j \in Ids |-> IF j \in evicted THEN NoShare
                                                         ELSE shares[j]]
                  EXCEPT ![i] =
                    [state |-> "pending", terminal |-> t,
                     name |-> n, purpose |-> p, waiters |-> 1,
                     value |-> g.id, due |-> FALSE]]
             /\ reveals' = [reveals EXCEPT ![i] = 0]
  <2>1. PICK g \in GrantOf(t, n), i \in Ids, evicted \in Evictions(t) :
             /\ PendingShares(t, n) = {}
             /\ shares' = [[j \in Ids |-> IF j \in evicted THEN NoShare
                                                         ELSE shares[j]]
                  EXCEPT ![i] =
                    [state |-> "pending", terminal |-> t,
                     name |-> n, purpose |-> p, waiters |-> 1,
                     value |-> g.id, due |-> FALSE]]
             /\ reveals' = [reveals EXCEPT ![i] = 0]
    BY <1>3
  <2>2. /\ g \in grants /\ g.terminal = t /\ g.name = n
        /\ g.id # None
    BY NoneAssumption DEF GrantOf, TypeOK, Grant
  <2>3. /\ shares'[i].state = "pending" /\ shares'[i].terminal = t
        /\ shares'[i].name = n /\ shares'[i].value = g.id
        /\ reveals'[i] = 0
    <3>1. shares'[i] = [state |-> "pending", terminal |-> t, name |-> n,
                        purpose |-> p, waiters |-> 1, value |-> g.id,
                        due |-> FALSE]
      BY <2>1
    <3>2. reveals'[i] = 0
      BY <2>1 DEF TypeOK
    <3> QED  BY <3>1, <3>2
  <2>4. \A j \in Ids \ {i} :
           /\ shares'[j] = shares[j] \/ shares'[j].state = "none"
           /\ reveals'[j] = reveals[j]
    BY <2>1 DEF TypeOK, NoShare
  <2>5. \A j \in Ids : ~ /\ shares[j].state = "pending"
                         /\ shares[j].terminal = t
                         /\ shares[j].name = n
    BY <2>1 DEF PendingShares, LiveShares
  <2>6. PendingShareBacked'
    BY <1>1, <2>2, <2>3, <2>4 DEF ShareInv, PendingShareBacked, LiveShares
  <2>7. OneOfferPerGrant'
    BY <2>2, <2>3, <2>4, <2>5 DEF ShareInv, OneOfferPerGrant, LiveShares
  <2>8. RevealedOnce'
    BY <2>3, <2>4 DEF ShareInv, RevealedOnce, LiveShares
  <2> QED  BY <2>6, <2>7, <2>8 DEF ShareInv
<1> QED  BY <1>2, <1>3 DEF ShareSecret

\* A pending share has its value and was not handed out: now it is, once.
LEMMA RevealIsSafe ==
    ASSUME TypeOK, ShareInv, NEW i \in Ids, RevealShare(i)
    PROVE  ShareInv'
<1>1. /\ shares[i].state = "pending" /\ shares[i] \in Share
      /\ shares[i].value # None /\ reveals[i] = 0
  BY EntryType DEF RevealShare, LiveShares, ShareInv, OneOfferPerGrant, RevealedOnce
<1>2. /\ shares'[i].state = "viewed" /\ shares'[i].value = None
      /\ reveals'[i] = 1
      /\ \A j \in Ids \ {i} : shares'[j] = shares[j] /\ reveals'[j] = reveals[j]
      /\ grants' = grants
  BY <1>1 DEF RevealShare, Resolve, TypeOK, Share
<1>3. PendingShareBacked'
  BY <1>1, <1>2 DEF ShareInv, PendingShareBacked, LiveShares
<1>4. OneOfferPerGrant'
  BY <1>1, <1>2 DEF ShareInv, OneOfferPerGrant, LiveShares
<1>5. RevealedOnce'
  BY <1>1, <1>2 DEF ShareInv, RevealedOnce, LiveShares
<1> QED  BY <1>3, <1>4, <1>5 DEF ShareInv

LEMMA ShareInvKept ==
    ASSUME TypeOK, ShareInv, [Next]_vars
    PROVE  ShareInv'
<1>1. ASSUME OffersNothing
      PROVE  ShareInv'
  BY <1>1, OfferingNothingIsSafe
<1>2. ASSUME UNCHANGED <<shares, reveals>>, grants \subseteq grants'
      PROVE  ShareInv'
  BY <1>1, <1>2 DEF OffersNothing
<1>3. CASE RegistryStep
  <2>1. ASSUME NEW ts, Clear(ts)
        PROVE  ShareInv'
    <3>1. /\ \A i \in Ids : shares'[i] = IF /\ shares[i].state # "none"
                                            /\ shares[i].terminal \in ts
                                           THEN NoShare ELSE shares[i]
          /\ grants' = {g \in grants : g.terminal \notin ts}
          /\ reveals' = reveals
      BY <2>1 DEF Clear, LiveShares
    <3>2. OffersNothing
      BY <3>1 DEF OffersNothing, NoShare
    <3> QED  BY <1>1, <3>2
  <2>2. ASSUME UNCHANGED <<shares, reveals, grants>>
        PROVE  ShareInv'
    BY <1>2, <2>2
  <2> QED
    BY <1>3, <2>1, <2>2 DEF RegistryStep, CreateTerminal, TerminalExits,
       PruneExited, RemoveTerminal, ClearTerminal, ReaperLists, ReaperClears
<1>4. CASE CallerStep
  BY <1>2, <1>4 DEF CallerStep, Authorize, Refuse
<1>5. CASE AgentStep
  <2>1. ASSUME NEW a \in Agents,
               \/ \E n \in Names, p \in Purposes : RequestSecret(a, n, p)
               \/ \E c \in Commands, p \in Purposes : RequestSudo(a, c, p)
               \/ \E n \in Names : ExecuteSecret(a, n)
               \/ ReadStream(a)
        PROVE  ShareInv'
    BY <1>2, <2>1 DEF RequestSecret, RequestSudo, Ask, ExecuteSecret, ReadStream
  <2>2. ASSUME NEW a \in Agents, NEW n \in Names, NEW r \in BOOLEAN,
               GenerateSecret(a, n, r)
        PROVE  ShareInv'
    <3>1. \A g \in grants \ grants' : g.terminal = call[a] /\ g.name = n
      BY <2>2 DEF GenerateSecret, GrantAndWake, GrantOf
    <3>2. reveals' = reveals
      BY <2>2 DEF GenerateSecret
    <3>3. CASE GrantOf(call[a], n) = {}
      <4>1. shares' = shares /\ grants \subseteq grants'
        BY <2>2, <3>3 DEF GenerateSecret, GrantAndWake
      <4> QED  BY <1>2, <3>2, <4>1
    <3>4. CASE GrantOf(call[a], n) # {}
      <4>1. shares' = Withdraw(call[a], n)
        BY <2>2, <3>4 DEF GenerateSecret
      <4>2. OffersNothing
        BY <3>1, <3>2, <4>1, WithdrawOffersNothing DEF OffersNothing
      <4> QED  BY <1>1, <4>2
    <3> QED  BY <3>3, <3>4
  <2>3. ASSUME NEW a \in Agents, NEW i \in Ids, WaitShare(a, i)
        PROVE  ShareInv'
    <3>1. /\ shares'[i].state = shares[i].state
          /\ shares'[i].terminal = shares[i].terminal
          /\ shares'[i].name = shares[i].name
          /\ shares'[i].value = shares[i].value
          /\ \A j \in Ids \ {i} : shares'[j] = shares[j]
          /\ grants' = grants /\ reveals' = reveals
      BY <2>3, EntryType DEF WaitShare, LiveShares, TypeOK, Share
    <3> QED  BY <1>1, <3>1 DEF OffersNothing
  <2>4. ASSUME NEW a \in Agents, DropStream(a)
        PROVE  ShareInv'
    <3>1. \A i \in Ids : shares[i].state # "none" =>
             /\ Detach(shares[i]).state = shares[i].state
             /\ Detach(shares[i]).terminal = shares[i].terminal
             /\ Detach(shares[i]).name = shares[i].name
             /\ Detach(shares[i]).value = shares[i].value
      BY EntryType DEF Detach, Share
    <3>2. \A i \in Ids : /\ shares'[i].state = shares[i].state
                         /\ shares[i].state # "none" =>
                              /\ shares'[i].terminal = shares[i].terminal
                              /\ shares'[i].name = shares[i].name
                              /\ shares'[i].value = shares[i].value
      BY <2>4, <3>1 DEF DropStream, TypeOK
    <3>3. OffersNothing
      BY <2>4, <3>2 DEF DropStream, OffersNothing
    <3> QED  BY <1>1, <3>3
  <2> QED
    BY <1>5, <2>1, <2>2, <2>3, <2>4, ShareSecretIsSafe DEF AgentStep
<1>6. CASE UserStep
  <2>1. ASSUME NEW u \in Users,
               \/ \E n \in Names : AddSecret(u, n)
               \/ \E i \in Ids : ApproveSecret(u, i)
        PROVE  ShareInv'
    BY <1>2, <2>1 DEF AddSecret, ApproveSecret, GrantAndWake
  <2>2. ASSUME NEW u \in Users,
               \/ \E i \in Ids : ApproveSudo(u, i)
               \/ PasswordRejected(u) \/ RefuseChangedObjects(u)
               \/ StartApproved(u) \/ AbandonApproval(u)
               \/ \E m \in BOOLEAN : PasswordAccepted(u, m)
        PROVE  ShareInv'
    BY <1>2, <2>2 DEF ApproveSudo, PasswordRejected, RefuseChangedObjects,
       StartApproved, AbandonApproval, PasswordAccepted
  <2>3. ASSUME NEW g \in grants, RevokeGrant(g)
        PROVE  ShareInv'
    <3>1. /\ shares' = Withdraw(g.terminal, g.name)
          /\ grants' = grants \ {g} /\ reveals' = reveals
      BY <2>3 DEF RevokeGrant
    <3>2. OffersNothing
      BY <3>1, WithdrawOffersNothing DEF OffersNothing
    <3> QED  BY <1>1, <3>2
  <2>4. ASSUME NEW i \in Ids, Reject(i)
        PROVE  ShareInv'
    BY <1>2, <2>4 DEF Reject
  <2>5. ASSUME NEW i \in Ids, DismissShare(i)
        PROVE  ShareInv'
    <3>1. /\ shares[i].state = "pending"
          /\ shares'[i].state = "dismissed" /\ shares'[i].value = None
          /\ \A j \in Ids \ {i} : shares'[j] = shares[j]
          /\ grants' = grants /\ reveals' = reveals
      BY <2>5, EntryType DEF DismissShare, LiveShares, Resolve, TypeOK, Share
    <3> QED  BY <1>1, <3>1 DEF OffersNothing
  <2> QED
    BY <1>6, <2>1, <2>2, <2>3, <2>4, <2>5, RevealIsSafe DEF UserStep
<1>7. CASE TaskStep
  <2>1. CASE ExpireShares
    <3>1. \A i \in Ids :
             \/ shares'[i] = shares[i]
             \/ shares'[i].state = "none"
             \/ /\ shares[i].state = "pending" /\ shares'[i].state = "expired"
                /\ shares'[i].value = None
      BY <2>1, EntryType DEF ExpireShares, Expired, DueShares, LiveShares,
         Resolve, Share, NoShare
    <3>2. OffersNothing
      BY <2>1, <3>1 DEF ExpireShares, OffersNothing
    <3> QED  BY <1>1, <3>2
  <2>2. ASSUME NEW i \in Ids, TimePasses(i)
        PROVE  ShareInv'
    <3>1. /\ shares'[i].state = shares[i].state
          /\ shares'[i].terminal = shares[i].terminal
          /\ shares'[i].name = shares[i].name
          /\ shares'[i].value = shares[i].value
          /\ \A j \in Ids \ {i} : shares'[j] = shares[j]
          /\ grants' = grants /\ reveals' = reveals
      BY <2>2, EntryType DEF TimePasses, LiveShares, TypeOK, Share
    <3> QED  BY <1>1, <3>1 DEF OffersNothing
  <2>3. ASSUME \E i \in Ids :
                    \/ RootStarts(i) \/ RootFails(i) \/ RootWrites(i)
                    \/ RootExits(i) \/ CommandWrites(i)
                    \/ FinishSecretExecution(i)
                    \/ \E e \in {"completed", "failed"} : CommandEnds(i, e)
        PROVE  ShareInv'
    BY <1>2, <2>3 DEF RootStarts, RootFails, RootWrites, RootExits,
       CommandWrites, FinishSecretExecution, CommandEnds
  <2> QED  BY <1>7, <2>1, <2>2, <2>3 DEF TaskStep
<1>8. CASE UNCHANGED vars
  BY <1>2, <1>8 DEF vars
<1> QED  BY <1>3, <1>4, <1>5, <1>6, <1>7, <1>8 DEF Next

-----------------------------------------------------------------------------

\* The inductive invariant of the secret side.
THEOREM SecretInvariance == Spec => [](AskInv /\ ShareInv)
<1>1. Init => AskInv /\ ShareInv
  BY SecretInit
<1>2. TypeOK /\ SudoInv /\ AskInv /\ ShareInv /\ [Next]_vars
      => (AskInv /\ ShareInv)'
  BY AskInvKept, ShareInvKept
<1> QED  BY <1>1, <1>2, TypeCorrect, SudoInvariance, PTL DEF Spec

\* Whichever of add, approve and generate inserts it, a terminal has one grant
\* of a name.
THEOREM GrantsUnique == Spec => []GrantNamesUnique
<1>1. AskInv => GrantNamesUnique
  BY DEF AskInv
<1> QED  BY <1>1, SecretInvariance, PTL

\* Nobody is left waiting for a secret that is granted, and no secret is asked
\* for twice.
THEOREM GrantsAnswerRequests == Spec => []NoRequestBesideGrant
<1>1. AskInv => NoRequestBesideGrant
  <2>1. ASSUME AskInv, NEW t \in Terminals, NEW n \in Names
        PROVE  Cardinality(PendingSecret(t, n)) <= 1
    <3>1. PendingSecret(t, n) = {} \/ \E i : PendingSecret(t, n) = {i}
      BY <2>1 DEF AskInv, AskedOnce
    <3>2. Cardinality(PendingSecret(t, n)) \in {0, 1}
      BY <3>1, FS_EmptySet, FS_Singleton
    <3> QED  BY <3>2
  <2> QED  BY <2>1 DEF AskInv, AskedOnce, NoRequestBesideGrant
<1> QED  BY <1>1, SecretInvariance, PTL

\* Both together, as the run checks them.
THEOREM GrantsAnswerOnce == Spec => []GrantsAnswer
  BY GrantsUnique, GrantsAnswerRequests, PTL DEF GrantsAnswer

\* A share on offer offers the value its grant has now: revoking or replacing
\* the grant withdraws it in the same step.
THEOREM OffersAreCurrent == Spec => []PendingShareBacked
<1>1. ShareInv => PendingShareBacked
  BY DEF ShareInv
<1> QED  BY <1>1, SecretInvariance, PTL

\* A name is offered once at a time, and the value is kept no longer than the
\* offer.
THEOREM OffersAreSingle == Spec => []OneOfferPerGrant
<1>1. ShareInv => OneOfferPerGrant
  BY DEF ShareInv
<1> QED  BY <1>1, SecretInvariance, PTL

\* Both together, as the run checks them.
THEOREM OffersHold == Spec => []OffersSound
  BY OffersAreCurrent, OffersAreSingle, PTL DEF OffersSound

\* However reveals, dismissals, deadlines, revocations and second shares of the
\* name interleave, the value of a share is handed out once at most.
THEOREM RevealedOnceOnly == Spec => []RevealedOnce
<1>1. ShareInv => RevealedOnce
  BY DEF ShareInv
<1> QED  BY <1>1, SecretInvariance, PTL
-----------------------------------------------------------------------------
(***************************************************************************)
(* Who waits: the streams of agents against requests, shares and commands, *)
(* and the caps on what a terminal holds.                                  *)
(*                                                                         *)
(* StreamsServed is not inductive.  A request whose last waiter leaves is  *)
(* withdrawn, which strands nobody only because its waiters are counted;   *)
(* they are counted only because a uuid names one thing (UuidsUsedOnce)    *)
(* and because an agent has one stream at a time (OneCallPerAgent); and    *)
(* the uncounted disjunct of NoSilentStream, a root task, is not needed.   *)
(***************************************************************************)

\* A call that passed its check has no stream yet.
OneCallPerAgent == \A a \in Agents : call[a] # None => stream[a] = NoStream

CommandIds == {i \in Ids : commands[i] # "none"}

\* A uuid names a request, a share or a command, and a stream targets what its
\* role says.
UuidsUsedOnce ==
    /\ LiveRequests \cap LiveShares = {}
    /\ (LiveRequests \cup LiveShares) \cap CommandIds = {}
    /\ \A i \in Ids : executions[i] # None => i \in CommandIds
    /\ \A a \in Agents : stream[a].role = "command" =>
         stream[a].target \notin LiveRequests \cup LiveShares
    /\ \A a \in Agents : stream[a].role = "waiter" =>
         stream[a].target \notin CommandIds

Attached(i) == {a \in Agents : stream[a].target = i}
Listening   == {a \in Agents : stream[a] # NoStream}

\* A verdict is on its way to the reader, or the lag that stands for one.
Told(s) == s.lagged \/ \E k \in 1..Len(s.queue) : s.queue[k] \in Verdicts

\* Who will send the verdict of a stream.
HasSender(s) ==
    \/ /\ s.role = "waiter"
       /\ \/ requests[s.target].state # "none"
          \/ shares[s.target].state = "pending"
    \/ s.role = "command" /\ commands[s.target] = "running"

EveryReaderServed ==
    \A a \in Agents : stream[a].role # "none" /\ ~stream[a].done =>
        Told(stream[a]) \/ HasSender(stream[a])

StreamInv ==
    /\ OneCallPerAgent
    /\ UuidsUsedOnce
    /\ IsFiniteSet(Listening)
    /\ WaitersCounted
    /\ EveryReaderServed

\* A command nobody told to stop has its terminal and its reader.
WantedCommandRead ==
    \A i \in Ids : commands[i] = "running" /\ i \notin canceled =>
        /\ executions[i] # None
        /\ \E a \in Agents : stream[a].role = "command" /\ stream[a].target = i

CapInv == CapsHold /\ IsFiniteSet(grants) /\ IsFiniteSet(LiveShares)

LEMMA StreamInit == Init => StreamInv /\ WantedCommandRead
<1> SUFFICES ASSUME Init PROVE StreamInv /\ WantedCommandRead
  OBVIOUS
<1>1. Listening = {} /\ LiveRequests = {} /\ LiveShares = {} /\ CommandIds = {}
  BY DEF Init, Listening, LiveRequests, LiveShares, CommandIds, NoRequest, NoShare
<1>2. IsFiniteSet(Listening)
  BY <1>1, FS_EmptySet
<1>3. WaitersCounted
  BY DEF Init, WaitersCounted, NoRequest, NoShare
<1>4. OneCallPerAgent /\ EveryReaderServed /\ WantedCommandRead
  BY DEF Init, OneCallPerAgent, EveryReaderServed, WantedCommandRead, NoStream
<1>5. UuidsUsedOnce
  BY <1>1 DEF Init, UuidsUsedOnce, NoStream
<1> QED  BY <1>2, <1>3, <1>4, <1>5 DEF StreamInv

-----------------------------------------------------------------------------
(* Streams.                                                                *)

\* What a stream is for is known as long as it lives.
LEMMA StreamRoles ==
    ASSUME TypeOK, NEW a \in Agents
    PROVE  /\ stream[a] \in Stream
           /\ stream[a].role \in {"waiter", "command"} => stream[a].target \in Ids
           /\ stream[a].target \in Ids =>
                stream[a].role \in {"waiter", "command"} /\ stream[a] # NoStream
           /\ stream[a] = NoStream => stream[a].role = "none" /\ stream[a].target = None
           /\ None \notin Ids
<1>1. stream[a] \in Stream /\ None \notin Ids
  BY NoneAssumption DEF TypeOK
<1> QED  BY <1>1 DEF Stream, NoStream

\* A push keeps what the stream is for, and no verdict goes missing.
LEMMA PushKeeps ==
    ASSUME NEW s \in Stream, NEW e \in Events
    PROVE  /\ Push(s, e).role = s.role /\ Push(s, e).target = s.target
           /\ Push(s, e).done = s.done
           /\ Told(s) \/ e \in Verdicts => Told(Push(s, e))
<1>1. s.queue \in Seq(Events)
  BY DEF Stream
<1>2. CASE Len(s.queue) < ChannelCapacity
  <2>1. /\ Push(s, e).role = s.role /\ Push(s, e).target = s.target
        /\ Push(s, e).done = s.done /\ Push(s, e).lagged = s.lagged
        /\ Push(s, e).queue = Append(s.queue, e)
    BY <1>2 DEF Push, Stream
  <2>2. ASSUME NEW k \in 1..Len(s.queue), s.queue[k] \in Verdicts
        PROVE  Told(Push(s, e))
    <3>1. k \in 1..Len(Append(s.queue, e)) /\ Append(s.queue, e)[k] = s.queue[k]
      BY <1>1
    <3> QED  BY <2>1, <2>2, <3>1 DEF Told
  <2>3. ASSUME e \in Verdicts
        PROVE  Told(Push(s, e))
    <3>1. /\ Len(s.queue) + 1 \in 1..Len(Append(s.queue, e))
          /\ Append(s.queue, e)[Len(s.queue) + 1] = e
      BY <1>1
    <3> QED  BY <2>1, <2>3, <3>1 DEF Told
  <2> QED  BY <2>1, <2>2, <2>3 DEF Told
<1>3. CASE ~(Len(s.queue) < ChannelCapacity)
  <2>1. /\ Push(s, e).role = s.role /\ Push(s, e).target = s.target
        /\ Push(s, e).done = s.done /\ Push(s, e).lagged
    BY <1>3 DEF Push, Stream
  <2> QED  BY <2>1 DEF Told
<1> QED  BY <1>2, <1>3

\* An agent without a stream starts one.
LEMMA AttachCounts ==
    ASSUME TypeOK, IsFiniteSet(Listening), NEW a \in Agents,
           stream[a] = NoStream, NEW s \in Stream,
           stream' = [stream EXCEPT ![a] = s]
    PROVE  /\ IsFiniteSet(Listening')
           /\ \A i \in Ids : s.target # i => Attached(i)' = Attached(i)
           /\ \A i \in Ids : s.target = i =>
                Cardinality(Attached(i)') = Cardinality(Attached(i)) + 1
           /\ \A i \in Ids : IsFiniteSet(Attached(i))
<1>1. stream'[a] = s /\ \A b \in Agents \ {a} : stream'[b] = stream[b]
  BY DEF TypeOK
<1>2. \A i \in Ids : a \notin Attached(i) /\ Attached(i) \subseteq Listening
  BY StreamRoles DEF Attached, Listening
<1>3. Listening' \subseteq Listening \cup {a}
  BY <1>1 DEF Listening
<1>4. IsFiniteSet(Listening \cup {a})
  BY FS_AddElement
<1>5. \A i \in Ids : IsFiniteSet(Attached(i))
  BY <1>2, FS_Subset
<1>6. ASSUME NEW i \in Ids, s.target = i
      PROVE  Cardinality(Attached(i)') = Cardinality(Attached(i)) + 1
  <2>1. Attached(i)' = Attached(i) \cup {a}
    BY <1>1, <1>6 DEF Attached
  <2>2. IsFiniteSet(Attached(i)) /\ a \notin Attached(i)
    BY <1>2, <1>5
  <2> QED  BY <2>1, <2>2, FS_AddElement
<1>7. ASSUME NEW i \in Ids, s.target # i
      PROVE  Attached(i)' = Attached(i)
  BY <1>1, <1>2, <1>7 DEF Attached
<1> QED  BY <1>3, <1>4, <1>5, <1>6, <1>7, FS_Subset

\* An agent drops its stream.
LEMMA DropCounts ==
    ASSUME TypeOK, IsFiniteSet(Listening), NEW a \in Agents,
           stream' = [stream EXCEPT ![a] = NoStream]
    PROVE  /\ IsFiniteSet(Listening')
           /\ \A i \in Ids : stream[a].target # i => Attached(i)' = Attached(i)
           /\ \A i \in Ids : stream[a].target = i =>
                /\ Cardinality(Attached(i)) \in Nat \ {0}
                /\ Cardinality(Attached(i)') = Cardinality(Attached(i)) - 1
                /\ Cardinality(Attached(i)) = 1 => Attached(i) = {a}
<1>1. stream'[a] = NoStream /\ \A b \in Agents \ {a} : stream'[b] = stream[b]
  BY DEF TypeOK
<1>2. \A i \in Ids : Attached(i) \subseteq Listening /\ NoStream.target # i
  BY StreamRoles DEF Attached, Listening, NoStream
<1>3. IsFiniteSet(Listening')
  <2>1. Listening' \subseteq Listening
    BY <1>1 DEF Listening
  <2> QED  BY <2>1, FS_Subset
<1>4. \A i \in Ids : Attached(i)' = Attached(i) \ {a}
  BY <1>1, <1>2 DEF Attached
<1>5. ASSUME NEW i \in Ids, stream[a].target = i
      PROVE  /\ Cardinality(Attached(i)) \in Nat \ {0}
             /\ Cardinality(Attached(i)') = Cardinality(Attached(i)) - 1
             /\ Cardinality(Attached(i)) = 1 => Attached(i) = {a}
  <2>1. a \in Attached(i) /\ IsFiniteSet(Attached(i))
    BY <1>2, <1>5, FS_Subset DEF Attached
  <2>2. /\ IsFiniteSet(Attached(i) \ {a})
        /\ Cardinality(Attached(i) \ {a}) = Cardinality(Attached(i)) - 1
    BY <2>1, FS_RemoveElement
  <2>3. Cardinality(Attached(i)) \in Nat /\ Cardinality(Attached(i) \ {a}) \in Nat
    BY <2>1, <2>2, FS_CardinalityType
  <2>4. Cardinality(Attached(i) \ {a}) = 0 => Attached(i) \ {a} = {}
    BY <2>2, FS_EmptySet
  <2>5. Cardinality(Attached(i)) # 0 /\ Cardinality(Attached(i)') = Cardinality(Attached(i)) - 1
    BY <1>4, <2>2, <2>3
  <2>6. ASSUME Cardinality(Attached(i)) = 1
        PROVE  Attached(i) = {a}
    <3>1. Attached(i) \ {a} = {}
      BY <2>2, <2>4, <2>6
    <3> QED  BY <2>1, <3>1
  <2> QED  BY <2>3, <2>5, <2>6
<1>6. ASSUME NEW i \in Ids, stream[a].target # i
      PROVE  Attached(i)' = Attached(i)
  BY <1>4, <1>6 DEF Attached
<1> QED  BY <1>3, <1>5, <1>6

-----------------------------------------------------------------------------
(* Steps that forget or resolve what is waited for and tell who waits.     *)

\* Everything changes only by ending; whoever waits for one of `told' gets a
\* verdict, and only `told' lose their sender.
Tells(told) ==
    /\ \A a \in Agents : call'[a] # None => stream[a] = NoStream
    /\ \A a \in Agents :
         \/ stream'[a] = stream[a] /\ stream[a].target \notin told
         \/ /\ stream[a].target \in Ids
            /\ \E e \in Events : /\ stream'[a] = Push(stream[a], e)
                                 /\ stream[a].target \in told => e \in Verdicts
    /\ \A i \in Ids :
         /\ requests'[i].state # "none" => /\ requests[i].state # "none"
                                           /\ requests'[i].waiters = requests[i].waiters
         /\ shares'[i].state # "none" => /\ shares[i].state # "none"
                                         /\ shares'[i].waiters = shares[i].waiters
         /\ commands'[i] # "none" => commands[i] # "none"
         /\ executions'[i] # None => executions[i] # None /\ commands'[i] # "none"
         /\ commands'[i] = "running" =>
              /\ commands[i] = "running"
              /\ i \in canceled => i \in canceled'
              /\ executions[i] # None => executions'[i] # None \/ i \in canceled'
    /\ \A i \in Ids \ told :
         /\ requests[i].state # "none" => requests'[i].state # "none"
         /\ shares[i].state = "pending" => shares'[i].state = "pending"
         /\ commands[i] = "running" => commands'[i] = "running"

LEMMA TellingIsSafe ==
    ASSUME TypeOK, StreamInv, WantedCommandRead, NEW told, Tells(told)
    PROVE  StreamInv' /\ WantedCommandRead'
<1>1. ASSUME NEW a \in Agents
      PROVE  /\ stream'[a].role = stream[a].role
             /\ stream'[a].target = stream[a].target
             /\ stream'[a].done = stream[a].done
             /\ Told(stream[a]) => Told(stream'[a])
             /\ stream[a].target \in told => Told(stream'[a])
             /\ stream[a] = NoStream <=> stream'[a] = NoStream
  <2>1. CASE stream'[a] = stream[a] /\ stream[a].target \notin told
    BY <2>1
  <2>2. CASE stream[a].target \in Ids
    <3>1. stream[a] # NoStream /\ stream[a].role # "none"
      BY <2>2, StreamRoles
    <3>2. \A e \in Events :
             /\ Push(stream[a], e).role = stream[a].role
             /\ Push(stream[a], e).target = stream[a].target
             /\ Push(stream[a], e).done = stream[a].done
             /\ Told(stream[a]) \/ e \in Verdicts => Told(Push(stream[a], e))
      BY StreamRoles, PushKeeps
    <3>3. NoStream.role = "none"
      BY DEF NoStream
    <3>4. PICK e \in Events \cup {"still"} :
             \/ e = "still" /\ stream'[a] = stream[a] /\ stream[a].target \notin told
             \/ /\ e \in Events /\ stream'[a] = Push(stream[a], e)
                /\ stream[a].target \in told => e \in Verdicts
      BY DEF Tells
    <3>5. CASE e = "still" /\ stream'[a] = stream[a] /\ stream[a].target \notin told
      BY <3>5
    <3>6. CASE e \in Events /\ stream'[a] = Push(stream[a], e)
                /\ (stream[a].target \in told => e \in Verdicts)
      BY <3>1, <3>2, <3>3, <3>6
    <3> QED  BY <3>4, <3>5, <3>6
  <2> QED  BY <2>1, <2>2 DEF Tells
<1>2. OneCallPerAgent'
  BY <1>1 DEF Tells, OneCallPerAgent
<1>3. /\ LiveRequests' \subseteq LiveRequests /\ LiveShares' \subseteq LiveShares
      /\ CommandIds' \subseteq CommandIds
  BY DEF Tells, LiveRequests, LiveShares, CommandIds
<1>4. UuidsUsedOnce'
  <2>1. \A i \in Ids : executions'[i] # None => i \in CommandIds'
    BY DEF Tells, CommandIds
  <2> QED  BY <1>1, <1>3, <2>1 DEF UuidsUsedOnce, StreamInv
<1>5. Listening' = Listening /\ \A i \in Ids : Attached(i)' = Attached(i)
  BY <1>1 DEF Listening, Attached
<1>6. WaitersCounted'
  BY <1>5 DEF Tells, StreamInv, WaitersCounted, Attached
<1>7. EveryReaderServed'
  <2> SUFFICES ASSUME NEW a \in Agents, stream'[a].role # "none", ~stream'[a].done
               PROVE  Told(stream'[a]) \/ HasSender(stream[a])'
    BY DEF EveryReaderServed
  <2>1. Told(stream[a]) \/ HasSender(stream[a])
    BY <1>1 DEF StreamInv, EveryReaderServed
  <2>2. CASE stream[a].target \in told
    BY <1>1, <2>2
  <2>3. CASE stream[a].target \notin told /\ HasSender(stream[a])
    <3>1. stream[a].target \in Ids \ told
      BY <2>3, StreamRoles DEF HasSender
    <3>2. HasSender(stream[a])'
      BY <1>1, <2>3, <3>1 DEF HasSender, Tells
    <3> QED  BY <3>2
  <2> QED  BY <1>1, <2>1, <2>2, <2>3
<1>8. WantedCommandRead'
  <2> SUFFICES ASSUME NEW i \in Ids, commands'[i] = "running", i \notin canceled'
               PROVE  /\ executions'[i] # None
                      /\ \E a \in Agents : /\ stream'[a].role = "command"
                                           /\ stream'[a].target = i
    BY DEF WantedCommandRead
  <2>1. commands[i] = "running" /\ i \notin canceled
    BY DEF Tells
  <2> QED  BY <1>1, <2>1 DEF Tells, WantedCommandRead
<1> QED  BY <1>2, <1>4, <1>5, <1>6, <1>7, <1>8 DEF StreamInv

\* Steps that change nothing of this.
LEMMA QuietIsSafe ==
    ASSUME TypeOK, StreamInv, WantedCommandRead,
           UNCHANGED <<requests, shares, commandVars, stream>>,
           \A a \in Agents : call'[a] # None => stream[a] = NoStream
    PROVE  StreamInv' /\ WantedCommandRead'
<1>1. Tells({})
  BY DEF Tells, commandVars, StreamInv, UuidsUsedOnce, CommandIds
<1> QED  BY <1>1, TellingIsSafe

-----------------------------------------------------------------------------
(* Streams that start, are read, and end.                                  *)

\* What an agent that had no stream starts disturbs no reader of a command.
LEMMA AttachingKeepsReaders ==
    ASSUME TypeOK, WantedCommandRead, NEW a \in Agents, stream[a] = NoStream,
           NEW s \in Stream, stream' = [stream EXCEPT ![a] = s],
           UNCHANGED commandVars
    PROVE  WantedCommandRead'
<1>1. \A b \in Agents \ {a} : stream'[b] = stream[b]
  BY DEF TypeOK
<1>2. stream[a].role = "none"
  BY DEF NoStream
<1> QED  BY <1>1, <1>2 DEF WantedCommandRead, commandVars

\* An agent starts to wait for request or share i, which counts it.
LEMMA WaitingIsSafe ==
    ASSUME TypeOK, StreamInv, WantedCommandRead,
           NEW a \in Agents, NEW i \in Ids, stream[a] = NoStream,
           call' = [call EXCEPT ![a] = None],
           stream' = [stream EXCEPT ![a] = Waiter(i)],
           UNCHANGED commandVars, commands[i] = "none",
           \A b \in Agents : stream[b].role = "command" => stream[b].target # i,
           \A j \in Ids \ {i} :
               /\ requests'[j] = requests[j]
               /\ \/ shares'[j] = shares[j]
                  \/ shares[j].state # "pending" /\ shares'[j].state = "none",
           \/ requests'[i].state # "none" /\ shares'[i].state = "none"
           \/ requests'[i].state = "none" /\ shares'[i].state = "pending",
           requests'[i].state # "none" =>
               requests'[i].waiters = Cardinality(Attached(i)) + 1,
           shares'[i].state # "none" =>
               shares'[i].waiters = Cardinality(Attached(i)) + 1
    PROVE  StreamInv' /\ WantedCommandRead'
<1>1. /\ Waiter(i).role = "waiter" /\ Waiter(i).target = i /\ ~Waiter(i).done
      /\ Waiter(i) \in Stream
  BY NewStreamType DEF Waiter, NoStream
<1>2. stream'[a] = Waiter(i) /\ \A b \in Agents \ {a} : stream'[b] = stream[b]
  BY DEF TypeOK
<1>3. /\ IsFiniteSet(Listening')
      /\ \A j \in Ids \ {i} : Attached(j)' = Attached(j)
      /\ Cardinality(Attached(i)') = Cardinality(Attached(i)) + 1
  BY <1>1, AttachCounts DEF StreamInv
<1>4. WantedCommandRead'
  BY <1>1, AttachingKeepsReaders
<1>5. OneCallPerAgent'
  <2>1. call'[a] = None /\ \A b \in Agents \ {a} : call'[b] = call[b]
    BY DEF TypeOK, Callers
  <2> QED  BY <1>2, <2>1 DEF StreamInv, OneCallPerAgent
<1>6. \A j \in Ids \ {i} :
        /\ j \in LiveRequests' <=> j \in LiveRequests
        /\ j \in LiveShares' => j \in LiveShares
  BY DEF LiveRequests, LiveShares
<1>7. UuidsUsedOnce'
  <2>1. CommandIds' = CommandIds /\ i \notin CommandIds
    BY DEF CommandIds, commandVars
  <2>2. LiveRequests' \cap LiveShares' = {}
    BY <1>6 DEF StreamInv, UuidsUsedOnce, LiveRequests, LiveShares
  <2>3. (LiveRequests' \cup LiveShares') \cap CommandIds' = {}
    BY <1>6, <2>1 DEF StreamInv, UuidsUsedOnce, LiveRequests, LiveShares
  <2>4. \A j \in Ids : executions'[j] # None => j \in CommandIds'
    BY <2>1 DEF StreamInv, UuidsUsedOnce, commandVars
  <2>5. \A b \in Agents : stream'[b].role = "command" =>
          stream'[b].target \notin LiveRequests' \cup LiveShares'
    <3> SUFFICES ASSUME NEW b \in Agents, stream'[b].role = "command"
                 PROVE  stream'[b].target \notin LiveRequests' \cup LiveShares'
      OBVIOUS
    <3>1. b # a /\ stream'[b] = stream[b]
      BY <1>1, <1>2
    <3>2. stream[b].target \in Ids \ {i}
      BY <3>1, StreamRoles
    <3> QED  BY <1>6, <3>1, <3>2 DEF StreamInv, UuidsUsedOnce
  <2>6. \A b \in Agents : stream'[b].role = "waiter" =>
          stream'[b].target \notin CommandIds'
    BY <1>1, <1>2, <2>1 DEF StreamInv, UuidsUsedOnce
  <2> QED  BY <2>2, <2>3, <2>4, <2>5, <2>6 DEF UuidsUsedOnce
<1>8. WaitersCounted'
  <2>1. \A j \in Ids :
           /\ requests'[j].state # "none" =>
                requests'[j].waiters = Cardinality(Attached(j)')
           /\ shares'[j].state # "none" =>
                shares'[j].waiters = Cardinality(Attached(j)')
    BY <1>3 DEF StreamInv, WaitersCounted, Attached
  <2> QED  BY <2>1 DEF WaitersCounted, Attached
<1>9. EveryReaderServed'
  <2> SUFFICES ASSUME NEW b \in Agents, stream'[b].role # "none", ~stream'[b].done
               PROVE  Told(stream'[b]) \/ HasSender(stream[b])'
    BY DEF EveryReaderServed
  <2>1. CASE b = a
    BY <1>1, <1>2, <2>1 DEF HasSender
  <2>2. CASE b # a
    <3>1. stream'[b] = stream[b] /\ (Told(stream[b]) \/ HasSender(stream[b]))
      BY <1>2, <2>2 DEF StreamInv, EveryReaderServed
    <3>2. HasSender(stream[b]) => HasSender(stream[b])'
      <4>1. stream[b].role \in {"waiter", "command"} => stream[b].target \in Ids
        BY StreamRoles
      <4> QED  BY <3>1, <4>1 DEF HasSender, commandVars
    <3> QED  BY <3>1, <3>2
  <2> QED  BY <2>1, <2>2
<1> QED  BY <1>3, <1>4, <1>5, <1>7, <1>8, <1>9 DEF StreamInv

\* An agent is answered at once.
LEMMA AnsweringIsSafe ==
    ASSUME TypeOK, StreamInv, WantedCommandRead,
           NEW a \in Agents, NEW e \in Verdicts, stream[a] = NoStream,
           call' = [call EXCEPT ![a] = None],
           stream' = [stream EXCEPT ![a] = Immediate(e)],
           UNCHANGED <<requests, shares, commandVars>>
    PROVE  StreamInv' /\ WantedCommandRead'
<1>1. /\ Immediate(e).role = "immediate" /\ Immediate(e).target = None
      /\ Immediate(e).queue = <<e>> /\ Immediate(e) \in Stream
  BY NewStreamType DEF Immediate, NoStream, Events
<1>2. stream'[a] = Immediate(e) /\ \A b \in Agents \ {a} : stream'[b] = stream[b]
  BY DEF TypeOK
<1>3. IsFiniteSet(Listening') /\ \A j \in Ids : Attached(j)' = Attached(j)
  BY <1>1, AttachCounts, StreamRoles DEF StreamInv
<1>4. WantedCommandRead'
  BY <1>1, AttachingKeepsReaders
<1>5. OneCallPerAgent'
  <2>1. call'[a] = None /\ \A b \in Agents \ {a} : call'[b] = call[b]
    BY DEF TypeOK, Callers
  <2> QED  BY <1>2, <2>1 DEF StreamInv, OneCallPerAgent
<1>6. UuidsUsedOnce'
  BY <1>1, <1>2 DEF StreamInv, UuidsUsedOnce, LiveRequests, LiveShares, CommandIds, commandVars
<1>7. WaitersCounted'
  BY <1>3 DEF StreamInv, WaitersCounted, Attached
<1>8. EveryReaderServed'
  <2>1. Told(Immediate(e))
    BY <1>1 DEF Told
  <2>2. \A b \in Agents : HasSender(stream[b]) => b = a \/ HasSender(stream[b])'
    BY <1>2 DEF HasSender, commandVars
  <2> QED  BY <1>2, <2>1, <2>2 DEF StreamInv, EveryReaderServed
<1> QED  BY <1>3, <1>4, <1>5, <1>6, <1>7, <1>8 DEF StreamInv

\* A command starts with its reader attached.
LEMMA ExecutingIsSafe ==
    ASSUME TypeOK, StreamInv, WantedCommandRead,
           NEW a \in Agents, NEW n \in Names, ExecuteSecret(a, n)
    PROVE  StreamInv' /\ WantedCommandRead'
<1> DEFINE t == call[a]
<1>1. PICK i \in Ids :
         /\ FreshId(i)
         /\ executions' = [executions EXCEPT ![i] = t]
         /\ commands' = [commands EXCEPT ![i] = "running"]
         /\ canceled' = canceled \ {i}
         /\ stream' = [stream EXCEPT ![a] = Command(i)]
  BY DEF ExecuteSecret
<1>2. /\ stream[a] = NoStream /\ t # None
      /\ call' = [call EXCEPT ![a] = None] /\ UNCHANGED <<requests, shares>>
  BY DEF ExecuteSecret, Return, StreamInv, OneCallPerAgent
<1>3. /\ Command(i).role = "command" /\ Command(i).target = i
      /\ Command(i) \in Stream
  BY NewStreamType DEF Command, NoStream
<1>4. stream'[a] = Command(i) /\ \A b \in Agents \ {a} : stream'[b] = stream[b]
  BY <1>1 DEF TypeOK
<1>5. /\ executions'[i] = t /\ commands'[i] = "running"
      /\ \A j \in Ids \ {i} : /\ executions'[j] = executions[j]
                              /\ commands'[j] = commands[j]
                              /\ j \in canceled => j \in canceled'
  BY <1>1 DEF TypeOK
<1>6. /\ i \notin LiveRequests \cup LiveShares
      /\ \A b \in Agents : stream[b].target # i
  BY <1>1 DEF FreshId, LiveRequests, LiveShares
<1>7. IsFiniteSet(Listening') /\ \A j \in Ids \ {i} : Attached(j)' = Attached(j)
  BY <1>1, <1>2, <1>3, AttachCounts DEF StreamInv
<1>8. OneCallPerAgent'
  <2>1. call'[a] = None /\ \A b \in Agents \ {a} : call'[b] = call[b]
    BY <1>2 DEF TypeOK, Callers
  <2> QED  BY <1>4, <2>1 DEF StreamInv, OneCallPerAgent
<1>9. UuidsUsedOnce'
  <2>1. CommandIds' = CommandIds \cup {i}
    BY <1>5 DEF CommandIds
  <2>2. LiveRequests' = LiveRequests /\ LiveShares' = LiveShares
    BY <1>2 DEF LiveRequests, LiveShares
  <2> QED  BY <1>3, <1>4, <1>5, <1>6, <2>1, <2>2 DEF StreamInv, UuidsUsedOnce
<1>10. WaitersCounted'
  BY <1>2, <1>6, <1>7 DEF StreamInv, WaitersCounted, Attached, LiveRequests, LiveShares
<1>11. EveryReaderServed'
  <2> SUFFICES ASSUME NEW b \in Agents, stream'[b].role # "none", ~stream'[b].done
               PROVE  Told(stream'[b]) \/ HasSender(stream[b])'
    BY DEF EveryReaderServed
  <2>1. CASE b = a
    BY <1>3, <1>4, <1>5, <2>1 DEF HasSender
  <2>2. CASE b # a
    <3>1. stream'[b] = stream[b] /\ (Told(stream[b]) \/ HasSender(stream[b]))
      BY <1>4, <2>2 DEF StreamInv, EveryReaderServed
    <3>2. HasSender(stream[b]) => HasSender(stream[b])'
      <4>1. stream[b].role \in {"waiter", "command"} => stream[b].target \in Ids \ {i}
        BY <1>6, StreamRoles
      <4> QED  BY <1>2, <1>5, <3>1, <4>1 DEF HasSender
    <3> QED  BY <3>1, <3>2
  <2> QED  BY <2>1, <2>2
<1>12. WantedCommandRead'
  <2> SUFFICES ASSUME NEW j \in Ids, commands'[j] = "running", j \notin canceled'
               PROVE  /\ executions'[j] # None
                      /\ \E b \in Agents : /\ stream'[b].role = "command"
                                           /\ stream'[b].target = j
    BY DEF WantedCommandRead
  <2>1. CASE j = i
    BY <1>2, <1>3, <1>4, <1>5, <2>1
  <2>2. CASE j # i
    <3>1. PICK b \in Agents : stream[b].role = "command" /\ stream[b].target = j
      BY <1>5, <2>2 DEF WantedCommandRead
    <3>2. b # a
      BY <1>2, <3>1 DEF NoStream
    <3> QED  BY <1>4, <1>5, <2>2, <3>1, <3>2 DEF WantedCommandRead
  <2> QED  BY <2>1, <2>2
<1> QED  BY <1>7, <1>8, <1>9, <1>10, <1>11, <1>12 DEF StreamInv

\* Reading takes a verdict out only to end the stream.
LEMMA ReadingIsSafe ==
    ASSUME TypeOK, StreamInv, WantedCommandRead, NEW a \in Agents, ReadStream(a)
    PROVE  StreamInv' /\ WantedCommandRead'
<1> DEFINE s == stream[a]
<1>1. UNCHANGED <<requests, shares, call, commandVars>>
  BY DEF ReadStream
<1>2. \A b \in Agents \ {a} : stream'[b] = stream[b]
  BY DEF ReadStream, TypeOK
<1>3. s \in Stream /\ s.queue \in Seq(Events) /\ s.role # "none"
  BY DEF TypeOK, Stream, ReadStream
<1>4. /\ stream'[a].role = s.role /\ stream'[a].target = s.target
      /\ Told(s) => stream'[a].done \/ Told(stream'[a])
  <2>1. CASE s.lagged
    <3>1. stream'[a] = [s EXCEPT !.lagged = FALSE, !.done = TRUE]
      BY <2>1 DEF ReadStream, TypeOK
    <3> QED  BY <1>3, <3>1 DEF Stream
  <2>2. CASE ~s.lagged
    <3>1. /\ s.queue # <<>>
          /\ stream'[a] = [s EXCEPT !.queue = Tail(s.queue),
                                    !.done = Head(s.queue) \in Verdicts]
      BY <2>2 DEF ReadStream, TypeOK
    <3>2. /\ stream'[a].role = s.role /\ stream'[a].target = s.target
          /\ stream'[a].queue = Tail(s.queue)
          /\ stream'[a].done = (Head(s.queue) \in Verdicts)
      BY <1>3, <3>1 DEF Stream
    <3>3. ASSUME Told(s), Head(s.queue) \notin Verdicts
          PROVE  Told(stream'[a])
      <4>1. PICK k \in 1..Len(s.queue) : s.queue[k] \in Verdicts
        BY <2>2, <3>3 DEF Told
      <4>2. k # 1
        BY <1>3, <3>1, <3>3, <4>1
      <4>3. k - 1 \in 1..Len(Tail(s.queue)) /\ Tail(s.queue)[k - 1] = s.queue[k]
        BY <1>3, <3>1, <4>1, <4>2
      <4> QED  BY <3>2, <4>1, <4>3 DEF Told
    <3> QED  BY <3>2, <3>3
  <2> QED  BY <2>1, <2>2
<1>5. \A b \in Agents : /\ stream'[b].role = stream[b].role
                        /\ stream'[b].target = stream[b].target
                        /\ stream[b] = NoStream <=> stream'[b] = NoStream
  <2>1. NoStream.role = "none"
    BY DEF NoStream
  <2> QED  BY <1>2, <1>3, <1>4, <2>1
<1>6. OneCallPerAgent'
  BY <1>1, <1>5 DEF StreamInv, OneCallPerAgent
<1>7. UuidsUsedOnce'
  BY <1>1, <1>5 DEF StreamInv, UuidsUsedOnce, LiveRequests, LiveShares, CommandIds, commandVars
<1>8. Listening' = Listening /\ \A i \in Ids : Attached(i)' = Attached(i)
  BY <1>5 DEF Listening, Attached
<1>9. WaitersCounted'
  BY <1>1, <1>8 DEF StreamInv, WaitersCounted, Attached
<1>10. EveryReaderServed'
  <2>1. \A b \in Agents : HasSender(stream[b]) => HasSender(stream[b])'
    BY <1>1, <1>5 DEF HasSender, commandVars
  <2>2. ~stream[a].done
    BY DEF ReadStream
  <2> QED  BY <1>2, <1>3, <1>4, <2>1, <2>2 DEF StreamInv, EveryReaderServed
<1>11. WantedCommandRead'
  BY <1>1, <1>5 DEF WantedCommandRead, commandVars
<1> QED  BY <1>6, <1>7, <1>8, <1>9, <1>10, <1>11 DEF StreamInv

\* A waiter that leaves is counted out of the one thing its uuid names; the
\* request is withdrawn only when nobody else waits for it.  A command that is
\* left is told to stop.
LEMMA DroppingIsSafe ==
    ASSUME TypeOK, StreamInv, WantedCommandRead, NEW a \in Agents, DropStream(a)
    PROVE  StreamInv' /\ WantedCommandRead'
<1> DEFINE waits == stream[a].role = "waiter"
<1>0. PICK i : i = stream[a].target
  OBVIOUS
<1>1. /\ stream' = [stream EXCEPT ![a] = NoStream]
      /\ stream'[a] = NoStream /\ NoStream.role = "none" /\ NoStream.target = None
      /\ \A b \in Agents \ {a} : stream'[b] = stream[b]
      /\ UNCHANGED <<call, executions, commands>>
  BY DEF DropStream, TypeOK, NoStream
<1>2. \A j \in Ids : ~(waits /\ j = i) =>
         shares'[j] = shares[j] /\ requests'[j] = requests[j]
  BY <1>0 DEF DropStream, TypeOK
<1>3. ASSUME waits, shares[i].state # "none"
      PROVE  /\ requests'[i] = requests[i]
             /\ shares'[i].state = shares[i].state
             /\ shares'[i].waiters = IF shares[i].waiters = 0 THEN 0
                                                              ELSE shares[i].waiters - 1
  <2>1. i \in Ids /\ shares[i] \in Share
    BY <1>0, <1>3, StreamRoles, EntryType
  <2>2. shares'[i] = Detach(shares[i]) /\ requests'[i] = requests[i]
    BY <1>0, <1>3, <2>1 DEF DropStream, TypeOK
  <2> QED  BY <2>1, <2>2 DEF Detach, Share
<1>4. ASSUME waits, shares[i].state = "none", requests[i].state # "none"
      PROVE  /\ shares'[i] = shares[i]
             /\ \/ requests'[i].state = "none" /\ requests[i].waiters \in {0, 1}
                \/ /\ requests'[i].state = requests[i].state
                   /\ requests'[i].waiters = IF requests[i].waiters = 0 THEN 0
                                             ELSE requests[i].waiters - 1
  <2>1. i \in Ids /\ requests[i] \in Request
    BY <1>0, <1>4, StreamRoles, EntryType
  <2>2. /\ Detach(requests[i]).state = requests[i].state
        /\ Detach(requests[i]).waiters = IF requests[i].waiters = 0 THEN 0
                                         ELSE requests[i].waiters - 1
        /\ requests[i].waiters \in Nat
    BY <2>1 DEF Detach, Request
  <2>3. /\ shares' = shares
        /\ requests'[i] = IF /\ Detach(requests[i]).waiters = 0
                             /\ Detach(requests[i]).state = "pending"
                            THEN NoRequest ELSE Detach(requests[i])
    BY <1>0, <1>4, <2>1 DEF DropStream, TypeOK
  <2> QED  BY <2>2, <2>3 DEF NoRequest
<1>5. ASSUME waits, shares[i].state = "none", requests[i].state = "none"
      PROVE  requests' = requests /\ shares' = shares
  BY <1>0, <1>5 DEF DropStream
<1>6. IsFiniteSet(Listening') /\ \A j \in Ids : i # j => Attached(j)' = Attached(j)
  BY <1>0, <1>1, DropCounts DEF StreamInv
<1>7. waits => /\ i \in Ids /\ Cardinality(Attached(i)) \in Nat \ {0}
               /\ Cardinality(Attached(i)') = Cardinality(Attached(i)) - 1
               /\ Cardinality(Attached(i)) = 1 => Attached(i) = {a}
  <2>1. waits => i \in Ids
    BY <1>0, StreamRoles
  <2> QED  BY <1>0, <1>1, <2>1, DropCounts DEF StreamInv
<1>8. ASSUME waits
      PROVE  /\ requests[i].state # "none" =>
                  requests[i].waiters = Cardinality(Attached(i))
             /\ shares[i].state # "none" =>
                  shares[i].waiters = Cardinality(Attached(i))
             /\ ~(requests[i].state # "none" /\ shares[i].state # "none")
  BY <1>7, <1>8 DEF StreamInv, WaitersCounted, Attached, UuidsUsedOnce, LiveRequests, LiveShares
<1> HIDE DEF waits
<1>9. \A j \in Ids : /\ requests'[j].state \in {requests[j].state, "none"}
                     /\ shares'[j].state = shares[j].state
  BY <1>2, <1>3, <1>4, <1>5
<1>10. OneCallPerAgent'
  BY <1>1 DEF StreamInv, OneCallPerAgent
<1>11. UuidsUsedOnce'
  <2>1. /\ LiveRequests' \subseteq LiveRequests /\ LiveShares' = LiveShares
        /\ CommandIds' = CommandIds
    BY <1>1, <1>9 DEF LiveRequests, LiveShares, CommandIds
  <2> QED  BY <1>1, <2>1 DEF StreamInv, UuidsUsedOnce
<1>12. WaitersCounted'
  <2> SUFFICES ASSUME NEW j \in Ids
               PROVE  /\ requests'[j].state # "none" =>
                           requests'[j].waiters = Cardinality(Attached(j)')
                      /\ shares'[j].state # "none" =>
                           shares'[j].waiters = Cardinality(Attached(j)')
    BY DEF WaitersCounted, Attached
  <2>1. CASE waits /\ j = i
    <3>1. CASE shares[i].state # "none"
      BY <1>3, <1>7, <1>8, <2>1, <3>1
    <3>2. CASE shares[i].state = "none" /\ requests[i].state # "none"
      BY <1>4, <1>7, <1>8, <2>1, <3>2
    <3>3. CASE shares[i].state = "none" /\ requests[i].state = "none"
      BY <1>5, <2>1, <3>3
    <3> QED  BY <3>1, <3>2, <3>3
  <2>2. CASE j = i /\ ~waits
    <3>1. stream[a].role = "command" /\ stream[a].target = j
      BY <1>0, <1>1, <2>2, StreamRoles DEF waits
    <3>2. requests[j].state = "none" /\ shares[j].state = "none"
      BY <3>1 DEF StreamInv, UuidsUsedOnce, LiveRequests, LiveShares
    <3> QED  BY <1>2, <2>2, <3>2
  <2>3. CASE j # i
    BY <1>2, <1>6, <2>3 DEF StreamInv, WaitersCounted, Attached
  <2> QED  BY <2>1, <2>2, <2>3
<1>13. EveryReaderServed'
  <2> SUFFICES ASSUME NEW b \in Agents, stream'[b].role # "none", ~stream'[b].done
               PROVE  Told(stream'[b]) \/ HasSender(stream[b])'
    BY DEF EveryReaderServed
  <2>1. b # a /\ stream'[b] = stream[b]
    BY <1>1
  <2>2. Told(stream[b]) \/ HasSender(stream[b])
    BY <2>1 DEF StreamInv, EveryReaderServed
  <2>3. ASSUME HasSender(stream[b])
        PROVE  HasSender(stream[b])'
    <3>1. stream[b].target \in Ids
      BY <2>3, StreamRoles DEF HasSender
    <3>2. CASE stream[b].role = "command"
      BY <1>1, <2>1, <2>3, <3>2 DEF HasSender
    <3>3. CASE stream[b].role = "waiter" /\ ~(waits /\ stream[b].target = i)
      BY <1>2, <2>1, <2>3, <3>1, <3>3 DEF HasSender
    <3>4. CASE stream[b].role = "waiter" /\ waits /\ stream[b].target = i
      <4>1. b \in Attached(i)
        BY <3>4 DEF Attached
      <4>2. Cardinality(Attached(i)) \notin {0, 1}
        BY <1>7, <2>1, <3>4, <4>1
      <4>3. requests[i].state # "none" => requests'[i].state # "none"
        BY <1>3, <1>4, <1>8, <3>4, <4>2
      <4>4. i \in Ids
        BY <1>7, <3>4
      <4> QED  BY <1>9, <2>1, <2>3, <3>4, <4>3, <4>4 DEF HasSender
    <3> QED  BY <2>3, <3>2, <3>3, <3>4 DEF HasSender
  <2> QED  BY <2>1, <2>2, <2>3
<1>14. WantedCommandRead'
  <2> SUFFICES ASSUME NEW j \in Ids, commands'[j] = "running", j \notin canceled'
               PROVE  /\ executions'[j] # None
                      /\ \E b \in Agents : /\ stream'[b].role = "command"
                                           /\ stream'[b].target = j
    BY DEF WantedCommandRead
  <2>1. j \notin canceled /\ ~(stream[a].role = "command" /\ i = j)
    BY <1>0, <1>1 DEF DropStream, Cancel
  <2>2. PICK b \in Agents : stream[b].role = "command" /\ stream[b].target = j
    BY <1>1, <2>1 DEF WantedCommandRead
  <2>3. b # a
    BY <1>0, <2>1, <2>2
  <2> QED  BY <1>1, <2>1, <2>2, <2>3 DEF WantedCommandRead
<1> QED  BY <1>6, <1>10, <1>11, <1>12, <1>13, <1>14 DEF StreamInv

-----------------------------------------------------------------------------
(* The steps of the manager.                                               *)

\* clear_terminal and the reaper: what is forgotten is told, and the commands
\* are canceled.
LEMMA ClearTells ==
    ASSUME TypeOK, StreamInv, NEW ts, Clear(ts)
    PROVE  \E told : Tells(told)
<1> DEFINE dead   == {i \in LiveRequests : requests[i].terminal \in ts}
           gone   == {i \in LiveShares : shares[i].terminal \in ts}
           halted == {i \in Ids : executions[i] \in ts}
           told   == dead \cup {i \in gone : shares[i].state = "pending"}
<1>1. /\ \A i \in Ids : /\ requests'[i] = IF i \in dead THEN NoRequest ELSE requests[i]
                        /\ shares'[i] = IF i \in gone THEN NoShare ELSE shares[i]
                        /\ executions'[i] = IF i \in halted THEN None
                                                            ELSE executions[i]
      /\ canceled' = canceled \cup halted /\ commands' = commands /\ call' = call
      /\ \A a \in Agents : stream'[a] = IF stream[a].target \in told
                                          THEN Push(stream[a], "failed") ELSE stream[a]
  BY DEF Clear, Notify
<1>2. told \subseteq Ids /\ "failed" \in Verdicts /\ "failed" \in Events
  BY DEF LiveRequests, LiveShares, Verdicts, Events
<1>3. NoRequest.state = "none" /\ NoShare.state = "none"
  BY DEF NoRequest, NoShare
<1>4. \A i \in Ids \ told : i \notin dead /\ (i \in gone => shares[i].state # "pending")
  OBVIOUS
<1>5. \A i \in Ids : executions[i] # None => commands[i] # "none"
  BY DEF StreamInv, UuidsUsedOnce, CommandIds
<1>6. \A a \in Agents : call'[a] # None => stream[a] = NoStream
  BY <1>1 DEF StreamInv, OneCallPerAgent
<1>7. \A i \in Ids : executions'[i] # None => executions[i] # None /\ commands'[i] # "none"
  BY <1>1, <1>5
<1>8. \A i \in Ids : executions[i] # None => executions'[i] # None \/ i \in canceled'
  BY <1>1
<1> HIDE DEF dead, gone, halted, told
<1>9. Tells(told)
  BY <1>1, <1>2, <1>3, <1>4, <1>6, <1>7, <1>8 DEF Tells
<1> QED  BY <1>9

\* What an answered request, a resolved share and a finished command have in
\* common: one verdict for those who waited for it.
LEMMA NotifyTells ==
    ASSUME TypeOK, StreamInv, NEW ids \in SUBSET Ids, NEW e \in Verdicts,
           stream' = Notify(ids, e), UNCHANGED <<executions, canceled>>,
           \A c \in Callers : call'[c] \in {call[c], None},
           \A i \in Ids :
               /\ requests'[i].state # "none" =>
                    /\ requests[i].state # "none"
                    /\ requests'[i].waiters = requests[i].waiters
               /\ shares'[i].state # "none" =>
                    /\ shares[i].state # "none"
                    /\ shares'[i].waiters = shares[i].waiters
               /\ commands'[i] = "none" <=> commands[i] = "none"
               /\ commands'[i] = "running" => commands[i] = "running",
           \A i \in Ids \ ids :
               /\ requests[i].state # "none" => requests'[i].state # "none"
               /\ shares[i].state = "pending" => shares'[i].state = "pending"
               /\ commands[i] = "running" => commands'[i] = "running"
    PROVE  Tells(ids)
<1>1. \A a \in Agents : stream'[a] = IF stream[a].target \in ids
                                       THEN Push(stream[a], e) ELSE stream[a]
  BY DEF Notify
<1>2. e \in Events
  BY DEF Events
<1>3. \A a \in Agents : call'[a] # None => stream[a] = NoStream
  BY DEF StreamInv, OneCallPerAgent, Callers
<1>4. \A i \in Ids : executions[i] # None => commands[i] # "none"
  BY DEF StreamInv, UuidsUsedOnce, CommandIds
<1> QED  BY <1>1, <1>2, <1>3, <1>4 DEF Tells

\* Output of a command reaches whoever reads it.
LEMMA ProgressTells ==
    ASSUME TypeOK, StreamInv, NEW i \in Ids, stream' = Notify({i}, "progress"),
           UNCHANGED <<call, shares, commandVars>>,
           \A j \in Ids : /\ requests'[j].state = "none" <=> requests[j].state = "none"
                          /\ requests[j].state # "none" =>
                               requests'[j].waiters = requests[j].waiters
    PROVE  Tells({})
<1>1. \A a \in Agents : stream'[a] = IF stream[a].target = i
                                       THEN Push(stream[a], "progress") ELSE stream[a]
  BY DEF Notify
<1>2. "progress" \in Events
  BY DEF Events
<1>3. \A a \in Agents : call'[a] # None => stream[a] = NoStream
  BY DEF StreamInv, OneCallPerAgent
<1>4. \A j \in Ids : executions[j] # None => commands[j] # "none"
  BY DEF StreamInv, UuidsUsedOnce, CommandIds
<1> QED  BY <1>1, <1>2, <1>3, <1>4 DEF Tells, commandVars

\* request_secret and request_sudo, which join a pending request or file one.
LEMMA AskWaits ==
    ASSUME TypeOK, StreamInv, WantedCommandRead, NEW a \in Agents, NEW k, NEW s, NEW p,
           call[a] # None, Ask(a, k, s, p)
    PROVE  StreamInv' /\ WantedCommandRead'
<1>1. stream[a] = NoStream /\ call' = [call EXCEPT ![a] = None]
  BY DEF StreamInv, OneCallPerAgent, Ask, Return
<1>2. UNCHANGED <<shares, commandVars>>
  BY DEF Ask
<1>3. CASE \E i \in Pending(call[a]) :
             /\ requests' = [requests EXCEPT ![i].waiters = @ + 1]
             /\ stream' = [stream EXCEPT ![a] = Waiter(i)]
  <2>1. PICK i \in Ids : /\ requests[i].state = "pending"
                         /\ requests' = [requests EXCEPT ![i].waiters = @ + 1]
                         /\ stream' = [stream EXCEPT ![a] = Waiter(i)]
    BY <1>3 DEF Pending
  <2>2. i \in LiveRequests /\ requests[i] \in Request
    BY <2>1, EntryType DEF LiveRequests
  <2>3. requests'[i] = [requests[i] EXCEPT !.waiters = @ + 1]
    BY <2>1 DEF TypeOK
  <2>4. /\ requests'[i].state = "pending"
        /\ requests'[i].waiters = Cardinality(Attached(i)) + 1
        /\ \A j \in Ids \ {i} : requests'[j] = requests[j]
    BY <2>1, <2>2, <2>3 DEF TypeOK, Request, StreamInv, WaitersCounted, Attached
  <2>5. shares[i].state = "none" /\ commands[i] = "none"
    BY <2>2 DEF StreamInv, UuidsUsedOnce, LiveShares, CommandIds
  <2>6. \A b \in Agents : stream[b].role = "command" => stream[b].target # i
    BY <2>2 DEF StreamInv, UuidsUsedOnce
  <2> QED  BY <1>1, <1>2, <2>1, <2>4, <2>5, <2>6, WaitingIsSafe
<1>4. CASE \E i \in Ids :
             /\ FreshId(i)
             /\ requests' = [requests EXCEPT ![i] =
                  [state |-> "pending", kind |-> k, terminal |-> call[a],
                   subject |-> s, purpose |-> p, waiters |-> 1]]
             /\ stream' = [stream EXCEPT ![a] = Waiter(i)]
  <2>1. PICK i \in Ids :
             /\ FreshId(i)
             /\ requests' = [requests EXCEPT ![i] =
                  [state |-> "pending", kind |-> k, terminal |-> call[a],
                   subject |-> s, purpose |-> p, waiters |-> 1]]
             /\ stream' = [stream EXCEPT ![a] = Waiter(i)]
    BY <1>4
  <2>2. /\ requests'[i].state = "pending" /\ requests'[i].waiters = 1
        /\ \A j \in Ids \ {i} : requests'[j] = requests[j]
    BY <2>1 DEF TypeOK
  <2>3. /\ shares[i].state = "none" /\ commands[i] = "none"
        /\ \A b \in Agents : stream[b].target # i
    BY <2>1 DEF FreshId
  <2>4. requests'[i].waiters = Cardinality(Attached(i)) + 1
    <3>1. Attached(i) = {}
      BY <2>3 DEF Attached
    <3>2. Cardinality(Attached(i)) = 0
      BY <3>1, FS_EmptySet
    <3> QED  BY <2>2, <3>2
  <2> QED  BY <1>1, <1>2, <2>1, <2>2, <2>3, <2>4, WaitingIsSafe
<1> QED  BY <1>3, <1>4 DEF Ask

\* share_secret, which joins the offer of a name or makes one.
LEMMA ShareWaits ==
    ASSUME TypeOK, StreamInv, WantedCommandRead, NEW a \in Agents, NEW n, NEW p,
           ShareSecret(a, n, p)
    PROVE  StreamInv' /\ WantedCommandRead'
<1> DEFINE t == call[a]
<1>1. stream[a] = NoStream /\ call' = [call EXCEPT ![a] = None]
  BY DEF StreamInv, OneCallPerAgent, ShareSecret, Return
<1>2. UNCHANGED <<requests, commandVars>>
  BY DEF ShareSecret
<1>3. CASE \E i \in PendingShares(t, n) :
             /\ shares' = [shares EXCEPT ![i].waiters = @ + 1]
             /\ stream' = [stream EXCEPT ![a] = Waiter(i)]
  <2>1. PICK i \in Ids : /\ i \in LiveShares /\ shares[i].state = "pending"
                         /\ shares' = [shares EXCEPT ![i].waiters = @ + 1]
                         /\ stream' = [stream EXCEPT ![a] = Waiter(i)]
    BY <1>3 DEF PendingShares, LiveShares
  <2>2. shares[i] \in Share
    BY <2>1, EntryType
  <2>3. shares'[i] = [shares[i] EXCEPT !.waiters = @ + 1]
    BY <2>1 DEF TypeOK
  <2>4. /\ shares'[i].state = "pending"
        /\ shares'[i].waiters = Cardinality(Attached(i)) + 1
        /\ \A j \in Ids \ {i} : shares'[j] = shares[j]
    BY <2>1, <2>2, <2>3 DEF TypeOK, Share, StreamInv, WaitersCounted, Attached
  <2>5. requests[i].state = "none" /\ commands[i] = "none"
    BY <2>1 DEF StreamInv, UuidsUsedOnce, LiveRequests, CommandIds
  <2>6. \A b \in Agents : stream[b].role = "command" => stream[b].target # i
    BY <2>1 DEF StreamInv, UuidsUsedOnce
  <2> QED  BY <1>1, <1>2, <2>1, <2>4, <2>5, <2>6, WaitingIsSafe
<1>4. CASE \E g \in GrantOf(t, n), i \in Ids, evicted \in Evictions(t) :
             /\ FreshId(i)
             /\ shares' = [[j \in Ids |-> IF j \in evicted THEN NoShare
                                                         ELSE shares[j]]
                  EXCEPT ![i] =
                    [state |-> "pending", terminal |-> t, name |-> n,
                     purpose |-> p, waiters |-> 1, value |-> g.id,
                     due |-> FALSE]]
             /\ stream' = [stream EXCEPT ![a] = Waiter(i)]
  <2>1. PICK g \in GrantOf(t, n), i \in Ids, evicted \in Evictions(t) :
             /\ FreshId(i)
             /\ shares' = [[j \in Ids |-> IF j \in evicted THEN NoShare
                                                         ELSE shares[j]]
                  EXCEPT ![i] =
                    [state |-> "pending", terminal |-> t, name |-> n,
                     purpose |-> p, waiters |-> 1, value |-> g.id,
                     due |-> FALSE]]
             /\ stream' = [stream EXCEPT ![a] = Waiter(i)]
    BY <1>4
  <2>2. /\ shares'[i].state = "pending" /\ shares'[i].waiters = 1
        /\ \A j \in Ids \ {i} : shares'[j] = IF j \in evicted THEN NoShare ELSE shares[j]
    BY <2>1
  <2>3. \A j \in evicted : shares[j].state # "pending"
    BY DEF Evictions, Offers, SharesOf, LiveShares
  <2>4. \A j \in Ids \ {i} :
           \/ shares'[j] = shares[j]
           \/ shares[j].state # "pending" /\ shares'[j].state = "none"
    BY <2>2, <2>3 DEF NoShare
  <2>5. /\ requests[i].state = "none" /\ commands[i] = "none"
        /\ \A b \in Agents : stream[b].target # i
    BY <2>1 DEF FreshId
  <2>6. shares'[i].waiters = Cardinality(Attached(i)) + 1
    <3>1. Attached(i) = {}
      BY <2>5 DEF Attached
    <3>2. Cardinality(Attached(i)) = 0
      BY <3>1, FS_EmptySet
    <3> QED  BY <2>2, <3>2
  <2> QED  BY <1>1, <1>2, <2>1, <2>2, <2>4, <2>5, <2>6, WaitingIsSafe
<1> QED  BY <1>3, <1>4 DEF ShareSecret

\* wait_share, which joins an offer or reports how it ended.
LEMMA WaitShareWaits ==
    ASSUME TypeOK, StreamInv, WantedCommandRead, NEW a \in Agents, NEW i \in Ids,
           WaitShare(a, i)
    PROVE  StreamInv' /\ WantedCommandRead'
<1>1. stream[a] = NoStream /\ call' = [call EXCEPT ![a] = None]
  BY DEF StreamInv, OneCallPerAgent, WaitShare, Return
<1>2. UNCHANGED <<requests, commandVars>>
  BY DEF WaitShare
<1>3. i \in LiveShares /\ shares[i] \in Share
  BY EntryType DEF WaitShare, LiveShares
<1>4. CASE shares[i].state = "pending"
  <2>1. /\ shares' = [shares EXCEPT ![i].waiters = @ + 1]
        /\ stream' = [stream EXCEPT ![a] = Waiter(i)]
    BY <1>4 DEF WaitShare
  <2>2. shares'[i] = [shares[i] EXCEPT !.waiters = @ + 1]
    BY <2>1 DEF TypeOK
  <2>3. /\ shares'[i].state = "pending"
        /\ shares'[i].waiters = Cardinality(Attached(i)) + 1
        /\ \A j \in Ids \ {i} : shares'[j] = shares[j]
    BY <1>3, <1>4, <2>1, <2>2 DEF TypeOK, Share, StreamInv, WaitersCounted,
       Attached, LiveShares
  <2>4. requests[i].state = "none" /\ commands[i] = "none"
    BY <1>3 DEF StreamInv, UuidsUsedOnce, LiveRequests, CommandIds
  <2>5. \A b \in Agents : stream[b].role = "command" => stream[b].target # i
    BY <1>3 DEF StreamInv, UuidsUsedOnce
  <2> QED  BY <1>1, <1>2, <2>1, <2>3, <2>4, <2>5, WaitingIsSafe
<1>5. CASE shares[i].state # "pending"
  <2>1. shares[i].state \in Verdicts
    BY <1>3, <1>5 DEF Share, Verdicts
  <2>2. stream' = [stream EXCEPT ![a] = Immediate(shares[i].state)] /\ shares' = shares
    BY <1>5 DEF WaitShare
  <2> QED  BY <1>1, <1>2, <2>1, <2>2, AnsweringIsSafe
<1> QED  BY <1>4, <1>5

\* Whoever grants a secret tells those who asked for it.
LEMMA GrantTells ==
    ASSUME TypeOK, StreamInv, NEW c \in Callers, NEW ids \in SUBSET Ids, NEW kept,
           NEW t, NEW n, GrantAndWake(kept, t, n, ids),
           stream' = Notify(ids, "granted"), Return(c),
           UNCHANGED <<shares, commandVars>>
    PROVE  Tells(ids)
<1>1. "granted" \in Verdicts
  BY DEF Verdicts
<1>2. \A d \in Callers : call'[d] \in {call[d], None}
  BY DEF Return, TypeOK
<1>3. \A i \in Ids : requests'[i] = IF i \in ids THEN NoRequest ELSE requests[i]
  BY DEF GrantAndWake
<1> QED  BY <1>1, <1>2, <1>3, NotifyTells DEF NoRequest, commandVars

\* An offer that ends keeps its waiters.
LEMMA ResolveKeeps ==
    ASSUME NEW sh \in Share, NEW o \in ShareVerdicts
    PROVE  /\ Resolve(sh, o).waiters = sh.waiters
           /\ Resolve(sh, o).state = o /\ o \notin {"none", "pending"}
           /\ sh.state # "none"
  BY DEF Resolve, Share, ShareVerdicts

\* generate_secret tells who asked for the secret and, when it replaces one,
\* who offered the old value.
LEMMA GenerateTells ==
    ASSUME TypeOK, StreamInv, NEW a \in Agents, NEW n, NEW r,
           GenerateSecret(a, n, r)
    PROVE  \E told : Tells(told)
<1> DEFINE t == call[a]
           old == GrantOf(t, n)
           asked == PendingSecret(t, n)
           offered == IF old = {} THEN {} ELSE PendingShares(t, n)
<1>1. /\ \A i \in Ids : /\ requests'[i] = IF i \in asked THEN NoRequest ELSE requests[i]
                        /\ shares'[i] = IF i \in offered
                                          THEN Resolve(shares[i], "expired")
                                          ELSE shares[i]
      /\ UNCHANGED commandVars
  BY DEF GenerateSecret, GrantAndWake, Withdraw, TypeOK
<1>2. \A b \in Agents :
         \/ stream'[b] = stream[b] /\ stream[b].target \notin asked \cup offered
         \/ stream[b].target \in asked /\ stream'[b] = Push(stream[b], "granted")
         \/ stream[b].target \in offered /\ stream'[b] = Push(stream[b], "expired")
  BY DEF GenerateSecret
<1>3. \A b \in Agents : call'[b] # None => stream[b] = NoStream
  BY DEF GenerateSecret, Return, TypeOK, Callers, StreamInv, OneCallPerAgent
<1>4. asked \subseteq Ids /\ offered \subseteq Ids
  BY DEF PendingSecret, Pending, PendingShares, LiveShares
<1>5. \A i \in offered : /\ Resolve(shares[i], "expired").waiters = shares[i].waiters
                         /\ shares[i].state # "none"
  BY EntryType, ResolveKeeps DEF PendingShares, LiveShares, ShareVerdicts
<1>6. {"granted", "expired"} \subseteq Events \cap Verdicts
  BY DEF Events, Verdicts
<1>7. \A i \in Ids : executions[i] # None => commands[i] # "none"
  BY DEF StreamInv, UuidsUsedOnce, CommandIds
<1> HIDE DEF asked, offered
<1>8. Tells(asked \cup offered)
  BY <1>1, <1>2, <1>3, <1>4, <1>5, <1>6, <1>7 DEF Tells, NoRequest, commandVars
<1> QED  BY <1>8

\* Revoking a grant tells those who wait for its offers.
LEMMA RevokeTells ==
    ASSUME TypeOK, StreamInv, NEW g \in grants, RevokeGrant(g)
    PROVE  \E told : Tells(told)
<1> DEFINE offered == PendingShares(g.terminal, g.name)
<1>1. /\ \A i \in Ids : shares'[i] = IF i \in offered THEN Resolve(shares[i], "expired")
                                                     ELSE shares[i]
      /\ stream' = Notify(offered, "expired")
      /\ UNCHANGED <<call, requests, commandVars>>
  BY DEF RevokeGrant, Withdraw
<1>2. offered \in SUBSET Ids /\ "expired" \in Verdicts
  BY DEF PendingShares, LiveShares, Verdicts
<1>3. \A i \in offered : /\ Resolve(shares[i], "expired").waiters = shares[i].waiters
                         /\ shares[i].state # "none"
  BY EntryType, ResolveKeeps DEF PendingShares, LiveShares, ShareVerdicts
<1> HIDE DEF offered
<1>4. Tells(offered)
  BY <1>1, <1>2, <1>3, NotifyTells DEF commandVars
<1> QED  BY <1>4

\* Deadlines tell those who wait for what they end.
LEMMA ExpireTells ==
    ASSUME TypeOK, StreamInv, ExpireShares
    PROVE  \E told : Tells(told)
<1>1. /\ \A i \in Ids : shares'[i] = IF i \in DueShares THEN Resolve(shares[i], "expired")
                                     ELSE IF i \in StaleShares THEN NoShare
                                     ELSE shares[i]
      /\ stream' = Notify(DueShares, "expired")
      /\ UNCHANGED <<call, requests, commandVars>>
  BY DEF ExpireShares, Expired
<1>2. DueShares \in SUBSET Ids /\ "expired" \in Verdicts
  BY DEF DueShares, LiveShares, Verdicts
<1>3. \A i \in DueShares : /\ Resolve(shares[i], "expired").waiters = shares[i].waiters
                           /\ shares[i].state # "none"
  BY EntryType, ResolveKeeps DEF DueShares, LiveShares, ShareVerdicts
<1>4. \A i \in StaleShares : shares[i].state # "pending" /\ NoShare.state = "none"
  BY DEF StaleShares, NoShare
<1>5. Tells(DueShares)
  BY <1>1, <1>2, <1>3, <1>4, NotifyTells DEF commandVars
<1> QED  BY <1>5

\* One offer that is revealed or dismissed.
LEMMA ResolveTells ==
    ASSUME TypeOK, StreamInv, NEW i \in Ids, NEW o \in {"viewed", "dismissed"},
           shares[i].state = "pending",
           shares' = [shares EXCEPT ![i] = Resolve(@, o)],
           stream' = Notify({i}, o), UNCHANGED <<call, requests, commandVars>>
    PROVE  Tells({i})
<1>1. o \in Verdicts /\ o \in ShareVerdicts /\ {i} \in SUBSET Ids
  BY DEF Verdicts, ShareVerdicts
<1>2. /\ shares'[i] = Resolve(shares[i], o)
      /\ \A j \in Ids \ {i} : shares'[j] = shares[j]
  BY DEF TypeOK
<1>3. Resolve(shares[i], o).waiters = shares[i].waiters
  BY <1>1, EntryType, ResolveKeeps
<1> QED  BY <1>1, <1>2, <1>3, NotifyTells DEF commandVars

\* One request that is answered, by a user, by its task or by a refusal.
LEMMA AnswerTells ==
    ASSUME TypeOK, StreamInv, NEW i \in Ids,
           \/ FailRequest(i)
           \/ /\ requests' = [requests EXCEPT ![i] = NoRequest]
              /\ stream' = Notify({i}, "rejected") \/ stream' = Notify({i}, "completed"),
           UNCHANGED <<call, shares, commandVars>>
    PROVE  \E told : Tells(told)
<1>1. /\ requests'[i].state = "none"
      /\ \A j \in Ids \ {i} : requests'[j] = requests[j]
  BY DEF FailRequest, TypeOK, NoRequest
<1>2. CASE \E e \in {"failed", "rejected", "completed"} : stream' = Notify({i}, e)
  <2>1. PICK e \in Verdicts : stream' = Notify({i}, e)
    BY <1>2 DEF Verdicts
  <2>2. Tells({i})
    BY <1>1, <2>1, NotifyTells DEF commandVars
  <2> QED  BY <2>2
<1>3. CASE stream' = stream /\ requests[i].state = "none"
  <2>1. Tells({})
    <3>1. \A a \in Agents : call'[a] # None => stream[a] = NoStream
      BY DEF StreamInv, OneCallPerAgent
    <3>2. \A j \in Ids : executions[j] # None => commands[j] # "none"
      BY DEF StreamInv, UuidsUsedOnce, CommandIds
    <3> QED  BY <1>1, <1>3, <3>1, <3>2 DEF Tells, commandVars
  <2> QED  BY <2>1
<1> QED  BY <1>2, <1>3 DEF FailRequest

\* An approval changes the state of a request that stays.
LEMMA ApprovingTells ==
    ASSUME TypeOK, StreamInv, NEW i \in Ids, NEW s \in {"pending", "authenticating"},
           \/ requests' = requests
           \/ /\ requests[i].state # "none"
              /\ requests' = [requests EXCEPT ![i].state = s],
           \A c \in Callers : call'[c] \in {call[c], None},
           UNCHANGED <<shares, commandVars, stream>>
    PROVE  Tells({})
<1>1. \A j \in Ids : /\ requests'[j].state = "none" <=> requests[j].state = "none"
                     /\ requests[j].state # "none" =>
                          requests'[j].waiters = requests[j].waiters
  <2>1. requests[i].state # "none" => requests[i] \in Request
    BY EntryType
  <2> QED  BY <2>1 DEF TypeOK, Request
<1>2. \A a \in Agents : call'[a] # None => stream[a] = NoStream
  BY DEF StreamInv, OneCallPerAgent, Callers
<1>3. \A j \in Ids : executions[j] # None => commands[j] # "none"
  BY DEF StreamInv, UuidsUsedOnce, CommandIds
<1> QED  BY <1>1, <1>2, <1>3 DEF Tells, commandVars

\* The task starts for the request that was approved.
LEMMA StartTells ==
    ASSUME TypeOK, SudoInv, StreamInv, NEW u \in Users, StartApproved(u)
    PROVE  Tells({})
<1> DEFINE i == approval[u].request
<1>1. i \in Ids
  BY InApproval DEF StartApproved
<1>2. UNCHANGED <<call, shares, commandVars>>
  BY DEF StartApproved
<1>3. \A a \in Agents : call'[a] # None => stream[a] = NoStream
  BY <1>2 DEF StreamInv, OneCallPerAgent
<1>4. \A j \in Ids : executions[j] # None => commands[j] # "none"
  BY DEF StreamInv, UuidsUsedOnce, CommandIds
<1>5. CASE requests[i].state = "none"
  <2>1. UNCHANGED <<requests, stream>>
    BY <1>5 DEF StartApproved
  <2> QED  BY <1>2, <1>3, <1>4, <2>1 DEF Tells, commandVars
<1>6. CASE requests[i].state # "none"
  <2>1. /\ requests' = [requests EXCEPT ![i].state = "running"]
        /\ stream' = Notify({i}, "progress")
    BY <1>6 DEF StartApproved
  <2>2. \A j \in Ids : /\ requests'[j].state = "none" <=> requests[j].state = "none"
                       /\ requests[j].state # "none" =>
                            requests'[j].waiters = requests[j].waiters
    BY <1>1, <1>6, <2>1, EntryType DEF TypeOK, Request
  <2> HIDE DEF i
  <2> QED  BY <1>1, <1>2, <2>1, <2>2, ProgressTells
<1> QED  BY <1>5, <1>6

LEMMA StreamInvKept ==
    ASSUME TypeOK, SudoInv, StreamInv, WantedCommandRead, [Next]_vars
    PROVE  StreamInv' /\ WantedCommandRead'
<1>1. ASSUME \E told : Tells(told)
      PROVE  StreamInv' /\ WantedCommandRead'
  BY <1>1, TellingIsSafe
<1>2. ASSUME UNCHANGED <<requests, shares, commandVars, stream, call>>
      PROVE  StreamInv' /\ WantedCommandRead'
  BY <1>2, QuietIsSafe DEF StreamInv, OneCallPerAgent
<1>3. CASE RegistryStep
  <2>1. ASSUME NEW ts, Clear(ts)
        PROVE  StreamInv' /\ WantedCommandRead'
    BY <1>1, <2>1, ClearTells
  <2> QED
    BY <1>2, <1>3, <2>1 DEF RegistryStep, CreateTerminal, TerminalExits,
       PruneExited, RemoveTerminal, ClearTerminal, ReaperLists, ReaperClears
<1>4. CASE CallerStep
  <2>1. ASSUME NEW c \in Callers, NEW t \in Terminals, Authorize(c, t)
        PROVE  StreamInv' /\ WantedCommandRead'
    <3>1. \A a \in Agents : call'[a] # None => stream[a] = NoStream
      BY <2>1 DEF Authorize, Idle, StreamInv, OneCallPerAgent, TypeOK, Callers
    <3> QED  BY <2>1, <3>1, QuietIsSafe DEF Authorize
  <2>2. ASSUME NEW c \in Callers, Refuse(c)
        PROVE  StreamInv' /\ WantedCommandRead'
    <3>1. \A a \in Agents : call'[a] # None => stream[a] = NoStream
      BY <2>2 DEF Refuse, StreamInv, OneCallPerAgent, TypeOK, Callers
    <3> QED  BY <2>2, <3>1, QuietIsSafe DEF Refuse
  <2> QED  BY <1>4, <2>1, <2>2 DEF CallerStep
<1>5. CASE AgentStep
  <2>1. ASSUME NEW a \in Agents, NEW n \in Names, NEW p \in Purposes,
               RequestSecret(a, n, p)
        PROVE  StreamInv' /\ WantedCommandRead'
    <3>1. CASE GrantOf(call[a], n) # {}
      <4>1. /\ stream[a] = NoStream /\ call' = [call EXCEPT ![a] = None]
            /\ stream' = [stream EXCEPT ![a] = Immediate("granted")]
            /\ UNCHANGED <<requests, shares, commandVars>>
        BY <2>1, <3>1 DEF RequestSecret, Return, StreamInv, OneCallPerAgent
      <4>2. "granted" \in Verdicts
        BY DEF Verdicts
      <4> QED  BY <4>1, <4>2, AnsweringIsSafe
    <3>2. CASE GrantOf(call[a], n) = {}
      BY <2>1, <3>2, AskWaits DEF RequestSecret
    <3> QED  BY <3>1, <3>2
  <2>2. ASSUME NEW a \in Agents, NEW c \in Commands, NEW p \in Purposes,
               RequestSudo(a, c, p)
        PROVE  StreamInv' /\ WantedCommandRead'
    BY <2>2, AskWaits DEF RequestSudo
  <2>3. ASSUME NEW a \in Agents, NEW n \in Names, NEW r \in BOOLEAN,
               GenerateSecret(a, n, r)
        PROVE  StreamInv' /\ WantedCommandRead'
    BY <1>1, <2>3, GenerateTells
  <2> QED
    BY <1>5, <2>1, <2>2, <2>3, ShareWaits, WaitShareWaits, ExecutingIsSafe,
       ReadingIsSafe, DroppingIsSafe DEF AgentStep
<1>6. CASE UserStep
  <2>1. ASSUME NEW u \in Users, NEW n \in Names, AddSecret(u, n)
        PROVE  StreamInv' /\ WantedCommandRead'
    <3>1. PendingSecret(call[u], n) \in SUBSET Ids /\ u \in Callers
      BY DEF PendingSecret, Pending, Callers
    <3>2. /\ GrantAndWake(grants, call[u], n, PendingSecret(call[u], n))
          /\ stream' = Notify(PendingSecret(call[u], n), "granted")
          /\ Return(u) /\ UNCHANGED <<shares, commandVars>>
      BY <2>1 DEF AddSecret
    <3> QED  BY <1>1, <3>1, <3>2, GrantTells
  <2>2. ASSUME NEW u \in Users, NEW i \in Ids, ApproveSecret(u, i)
        PROVE  StreamInv' /\ WantedCommandRead'
    <3>1. {i} \in SUBSET Ids /\ u \in Callers
      BY DEF Callers
    <3>2. /\ GrantAndWake(grants, call[u], requests[i].subject, {i})
          /\ stream' = Notify({i}, "granted")
          /\ Return(u) /\ UNCHANGED <<shares, commandVars>>
      BY <2>2 DEF ApproveSecret
    <3> QED  BY <1>1, <3>1, <3>2, GrantTells
  <2>3. ASSUME NEW u \in Users, NEW i \in Ids, ApproveSudo(u, i)
        PROVE  StreamInv' /\ WantedCommandRead'
    <3>1. /\ requests[i].state # "none"
          /\ requests' = [requests EXCEPT ![i].state = "authenticating"]
          /\ UNCHANGED <<shares, commandVars, stream>>
          /\ \A c \in Callers : call'[c] \in {call[c], None}
      BY <2>3 DEF ApproveSudo, Approvable, Pending, Return, TypeOK
    <3> QED  BY <1>1, <3>1, ApprovingTells
  <2>4. ASSUME NEW u \in Users, PasswordRejected(u)
        PROVE  StreamInv' /\ WantedCommandRead'
    <3> DEFINE i == approval[u].request
    <3>1. /\ requests' = BackToPending(i) /\ i \in Ids
          /\ UNCHANGED <<call, shares, commandVars, stream>>
      BY <2>4, InApproval DEF PasswordRejected
    <3>2. \/ requests' = requests
          \/ /\ requests[i].state # "none"
             /\ requests' = [requests EXCEPT ![i].state = "pending"]
      BY <3>1 DEF BackToPending
    <3> HIDE DEF i
    <3> QED  BY <1>1, <3>1, <3>2, ApprovingTells
  <2>5. ASSUME NEW u \in Users, RefuseChangedObjects(u)
        PROVE  StreamInv' /\ WantedCommandRead'
    <3>1. /\ FailRequest(approval[u].request) /\ approval[u].request \in Ids
          /\ UNCHANGED <<call, shares, commandVars>>
      BY <2>5, InApproval DEF RefuseChangedObjects
    <3> QED  BY <1>1, <3>1, AnswerTells
  <2>6. ASSUME NEW u \in Users,
               AbandonApproval(u) \/ \E m \in BOOLEAN : PasswordAccepted(u, m)
        PROVE  StreamInv' /\ WantedCommandRead'
    BY <1>2, <2>6 DEF AbandonApproval, PasswordAccepted
  <2>7. ASSUME NEW i \in Ids, Reject(i)
        PROVE  StreamInv' /\ WantedCommandRead'
    BY <1>1, <2>7, AnswerTells DEF Reject
  <2>8. ASSUME NEW i \in Ids, RevealShare(i) \/ DismissShare(i)
        PROVE  StreamInv' /\ WantedCommandRead'
    <3>1. PICK o \in {"viewed", "dismissed"} :
             /\ shares[i].state = "pending"
             /\ shares' = [shares EXCEPT ![i] = Resolve(@, o)]
             /\ stream' = Notify({i}, o)
             /\ UNCHANGED <<call, requests, commandVars>>
      BY <2>8 DEF RevealShare, DismissShare
    <3> QED  BY <1>1, <3>1, ResolveTells
  <2>9. ASSUME NEW u \in Users, StartApproved(u)
        PROVE  StreamInv' /\ WantedCommandRead'
    BY <1>1, <2>9, StartTells
  <2>10. ASSUME NEW g \in grants, RevokeGrant(g)
         PROVE  StreamInv' /\ WantedCommandRead'
    BY <1>1, <2>10, RevokeTells
  <2> QED
    BY <1>6, <2>1, <2>2, <2>3, <2>4, <2>5, <2>6, <2>7, <2>8, <2>9, <2>10
       DEF UserStep
<1>7. CASE TaskStep
  <2>1. CASE ExpireShares
    BY <1>1, <2>1, ExpireTells
  <2>2. ASSUME NEW i \in Ids, TimePasses(i)
        PROVE  StreamInv' /\ WantedCommandRead'
    <3>1. /\ shares'[i] = [shares[i] EXCEPT !.due = TRUE] /\ shares[i] \in Share
          /\ \A j \in Ids \ {i} : shares'[j] = shares[j]
          /\ UNCHANGED <<call, requests, commandVars, stream>>
      BY <2>2, EntryType DEF TimePasses, LiveShares, TypeOK
    <3>2. /\ shares'[i].state = shares[i].state
          /\ shares'[i].waiters = shares[i].waiters
          /\ shares[i].state # "none"
      BY <3>1 DEF Share
    <3>3. \A a \in Agents : call'[a] # None => stream[a] = NoStream
      BY <3>1 DEF StreamInv, OneCallPerAgent
    <3>4. \A j \in Ids : executions[j] # None => commands[j] # "none"
      BY DEF StreamInv, UuidsUsedOnce, CommandIds
    <3>5. Tells({})
      BY <3>1, <3>2, <3>3, <3>4 DEF Tells, commandVars
    <3> QED  BY <1>1, <3>5
  <2>3. ASSUME NEW i \in Ids, RootStarts(i)
        PROVE  StreamInv' /\ WantedCommandRead'
    BY <1>2, <2>3 DEF RootStarts
  <2>4. ASSUME NEW i \in Ids, RootWrites(i) \/ CommandWrites(i)
        PROVE  StreamInv' /\ WantedCommandRead'
    <3>1. Tells({})
      BY <2>4, ProgressTells DEF RootWrites, CommandWrites
    <3> QED  BY <1>1, <3>1
  <2>5. ASSUME NEW i \in Ids, RootFails(i) \/ RootExits(i)
        PROVE  StreamInv' /\ WantedCommandRead'
    BY <1>1, <2>5, AnswerTells DEF RootFails, RootExits
  <2>6. ASSUME NEW i \in Ids, NEW e \in {"completed", "failed"}, CommandEnds(i, e)
        PROVE  StreamInv' /\ WantedCommandRead'
    <3>1. /\ commands[i] = "running" /\ commands'[i] = "finishing"
          /\ \A j \in Ids \ {i} : commands'[j] = commands[j]
          /\ UNCHANGED <<call, requests, shares, executions, canceled>>
          /\ stream' = Notify({i}, e)
      BY <2>6 DEF CommandEnds, TypeOK
    <3>2. e \in Verdicts /\ {i} \in SUBSET Ids
      BY DEF Verdicts
    <3>3. Tells({i})
      BY <3>1, <3>2, NotifyTells
    <3> QED  BY <1>1, <3>3
  <2>7. ASSUME NEW i \in Ids, FinishSecretExecution(i)
        PROVE  StreamInv' /\ WantedCommandRead'
    <3>1. /\ commands[i] = "finishing" /\ commands'[i] = "none"
          /\ executions'[i] = None /\ canceled' = canceled \ {i}
          /\ \A j \in Ids \ {i} : /\ commands'[j] = commands[j]
                                  /\ executions'[j] = executions[j]
          /\ UNCHANGED <<call, requests, shares, stream>>
      BY <2>7 DEF FinishSecretExecution, TypeOK
    <3>2. \A a \in Agents : call'[a] # None => stream[a] = NoStream
      BY <3>1 DEF StreamInv, OneCallPerAgent
    <3>3. \A j \in Ids : executions[j] # None => commands[j] # "none"
      BY DEF StreamInv, UuidsUsedOnce, CommandIds
    <3>4. Tells({})
      BY <3>1, <3>2, <3>3 DEF Tells
    <3> QED  BY <1>1, <3>4
  <2> QED
    BY <1>7, <2>1, <2>2, <2>3, <2>4, <2>5, <2>6, <2>7 DEF TaskStep
<1>8. CASE UNCHANGED vars
  BY <1>2, <1>8 DEF vars, commandVars
<1> QED  BY <1>3, <1>4, <1>5, <1>6, <1>7, <1>8 DEF Next

-----------------------------------------------------------------------------
(* Caps.                                                                   *)

LEMMA CapInit == Init => CapInv
<1> SUFFICES ASSUME Init PROVE CapInv
  OBVIOUS
<1>1. grants = {} /\ LiveShares = {}
  BY DEF Init, LiveShares, NoShare
<1>2. \A t \in Terminals : GrantsOf(t) = {} /\ SharesOf(t) = {} /\ Offers(t) = {}
  BY <1>1 DEF GrantsOf, SharesOf, Offers
<1>3. IsFiniteSet({}) /\ Cardinality({}) = 0
  BY FS_EmptySet
<1>4. 0 <= MaxGrants /\ 0 <= MaxShares /\ 0 <= MaxPendingShares
  BY BoundsAssumption
<1>5. GrantCapHolds /\ ShareCapsHold
  BY <1>2, <1>3, <1>4 DEF GrantCapHolds, ShareCapsHold
<1> QED  BY <1>1, <1>3, <1>5 DEF CapInv, CapsHold

\* What the terminals hold is finite, as counting it needs.
LEMMA HeldIsFinite ==
    ASSUME CapInv, NEW t
    PROVE  /\ IsFiniteSet(GrantsOf(t)) /\ IsFiniteSet(SharesOf(t))
           /\ IsFiniteSet(Offers(t))
           /\ {Cardinality(GrantsOf(t)), Cardinality(SharesOf(t)),
               Cardinality(Offers(t))} \subseteq Nat
<1>1. /\ GrantsOf(t) \subseteq grants /\ SharesOf(t) \subseteq LiveShares
      /\ Offers(t) \subseteq LiveShares
  BY DEF GrantsOf, SharesOf, Offers
<1>2. IsFiniteSet(GrantsOf(t)) /\ IsFiniteSet(SharesOf(t)) /\ IsFiniteSet(Offers(t))
  BY <1>1, FS_Subset DEF CapInv
<1> QED  BY <1>2, FS_CardinalityType

\* Fewer things are within the same cap.
LEMMA FewerWithinCap ==
    ASSUME NEW S, IsFiniteSet(S), NEW cap, Cardinality(S) <= cap, cap \in Nat,
           NEW T, T \subseteq S
    PROVE  IsFiniteSet(T) /\ Cardinality(T) <= cap
<1>1. /\ IsFiniteSet(T) /\ Cardinality(T) <= Cardinality(S)
      /\ Cardinality(S) \in Nat /\ Cardinality(T) \in Nat
  BY FS_Subset, FS_CardinalityType
<1> QED  BY <1>1

GrantsGoAway == grants' \subseteq grants

SharesGoAway ==
    \A i \in Ids : shares'[i].state # "none" =>
        /\ shares[i].state # "none"
        /\ shares'[i].terminal = shares[i].terminal
        /\ shares'[i].state = "pending" => shares[i].state = "pending"

\* Revoking, clearing and replacing make no terminal hold more grants.
LEMMA FewerGrants ==
    ASSUME CapInv, GrantsGoAway
    PROVE  GrantCapHolds' /\ IsFiniteSet(grants')
<1>1. IsFiniteSet(grants')
  BY FS_Subset DEF CapInv, GrantsGoAway
<1>2. ASSUME NEW t \in Terminals
      PROVE  Cardinality(GrantsOf(t)') <= MaxGrants
  <2>1. GrantsOf(t)' \subseteq GrantsOf(t)
    BY DEF GrantsOf, GrantsGoAway
  <2>2. IsFiniteSet(GrantsOf(t)) /\ Cardinality(GrantsOf(t)) <= MaxGrants
    BY HeldIsFinite DEF CapInv, CapsHold, GrantCapHolds
  <2>3. MaxGrants \in Nat
    BY BoundsAssumption
  <2> QED  BY <2>1, <2>2, <2>3, FewerWithinCap
<1> QED  BY <1>1, <1>2 DEF GrantCapHolds

\* A grant is inserted where the ones kept leave room.
LEMMA RoomMadeForGrant ==
    ASSUME CapInv, NEW t \in Terminals, NEW n, NEW kept, NEW ids,
           kept \subseteq grants, RoomForGrant(kept, t),
           GrantAndWake(kept, t, n, ids)
    PROVE  GrantCapHolds' /\ IsFiniteSet(grants')
<1>1. PICK g : grants' = kept \cup {g} /\ g.terminal = t
  <2>1. PICK i \in GrantIds : grants' = kept \cup {[id |-> i, terminal |-> t, name |-> n]}
    BY DEF GrantAndWake
  <2> WITNESS [id |-> i, terminal |-> t, name |-> n]
  <2> QED  BY <2>1
<1>2. IsFiniteSet(kept) /\ IsFiniteSet(grants')
  BY <1>1, FS_Subset, FS_AddElement DEF CapInv
<1>3. ASSUME NEW s \in Terminals
      PROVE  Cardinality(GrantsOf(s)') <= MaxGrants
  <2>1. MaxGrants \in Nat
    BY BoundsAssumption
  <2>2. CASE s # t
    <3>1. GrantsOf(s)' \subseteq GrantsOf(s)
      BY <1>1, <2>2 DEF GrantsOf
    <3>2. IsFiniteSet(GrantsOf(s)) /\ Cardinality(GrantsOf(s)) <= MaxGrants
      BY HeldIsFinite DEF CapInv, CapsHold, GrantCapHolds
    <3> QED  BY <2>1, <3>1, <3>2, FewerWithinCap
  <2>3. CASE s = t
    <3> DEFINE held == kept \cap GrantsOf(t)
    <3>1. GrantsOf(s)' = held \cup {g}
      BY <1>1, <2>3 DEF GrantsOf
    <3>2. IsFiniteSet(held) /\ Cardinality(held) < MaxGrants
      BY <1>2, FS_Subset DEF RoomForGrant
    <3>3. Cardinality(held) \in Nat
      BY <3>2, FS_CardinalityType
    <3> HIDE DEF held
    <3>4. Cardinality(held \cup {g}) \in {Cardinality(held), Cardinality(held) + 1}
      BY <3>2, FS_AddElement
    <3> QED  BY <2>1, <3>1, <3>2, <3>3, <3>4
  <2> QED  BY <2>2, <2>3
<1> QED  BY <1>2, <1>3 DEF GrantCapHolds

\* Resolving and forgetting make no terminal keep or offer more.
LEMMA FewerShares ==
    ASSUME CapInv, SharesGoAway
    PROVE  ShareCapsHold' /\ IsFiniteSet(LiveShares')
<1>1. /\ LiveShares' \subseteq LiveShares
      /\ \A t \in Terminals : /\ SharesOf(t)' \subseteq SharesOf(t)
                              /\ Offers(t)' \subseteq Offers(t)
  BY DEF SharesGoAway, LiveShares, SharesOf, Offers
<1>2. IsFiniteSet(LiveShares')
  BY <1>1, FS_Subset DEF CapInv
<1>3. ASSUME NEW t \in Terminals
      PROVE  /\ Cardinality(SharesOf(t)') <= MaxShares
             /\ Cardinality(Offers(t)') <= MaxPendingShares
  <2>1. /\ IsFiniteSet(SharesOf(t)) /\ Cardinality(SharesOf(t)) <= MaxShares
        /\ IsFiniteSet(Offers(t)) /\ Cardinality(Offers(t)) <= MaxPendingShares
    BY HeldIsFinite DEF CapInv, CapsHold, ShareCapsHold
  <2>2. MaxShares \in Nat /\ MaxPendingShares \in Nat
    BY BoundsAssumption
  <2> QED  BY <1>1, <2>1, <2>2, FewerWithinCap
<1> QED  BY <1>2, <1>3 DEF ShareCapsHold

\* A new offer takes the room below the cap, or that of a resolved share.
LEMMA RoomMadeForShare ==
    ASSUME TypeOK, CapInv, NEW t \in Terminals, NEW i \in Ids,
           NEW evicted \in Evictions(t), shares[i].state = "none",
           Cardinality(Offers(t)) < MaxPendingShares,
           shares'[i].state = "pending", shares'[i].terminal = t,
           \A j \in Ids \ {i} :
               shares'[j] = IF j \in evicted THEN NoShare ELSE shares[j]
    PROVE  ShareCapsHold' /\ IsFiniteSet(LiveShares')
<1>1. evicted \subseteq SharesOf(t) \ Offers(t) /\ i \notin evicted
  BY DEF Evictions, SharesOf, LiveShares
<1>2. /\ LiveShares' = (LiveShares \ evicted) \cup {i} /\ i \notin LiveShares
      /\ SharesOf(t)' = (SharesOf(t) \ evicted) \cup {i} /\ i \notin SharesOf(t)
      /\ Offers(t)' = Offers(t) \cup {i} /\ i \notin Offers(t)
      /\ \A s \in Terminals \ {t} : /\ SharesOf(s)' \subseteq SharesOf(s)
                                    /\ Offers(s)' \subseteq Offers(s)
  BY <1>1 DEF LiveShares, SharesOf, Offers, NoShare
<1>3. IsFiniteSet(LiveShares')
  <2>1. IsFiniteSet(LiveShares \ evicted)
    BY FS_Subset DEF CapInv
  <2> QED  BY <1>2, <2>1, FS_AddElement
<1>4. /\ MaxShares \in Nat /\ MaxPendingShares \in Nat
      /\ IsFiniteSet(SharesOf(t)) /\ IsFiniteSet(Offers(t))
      /\ Cardinality(SharesOf(t)) \in Nat /\ Cardinality(Offers(t)) \in Nat
      /\ Cardinality(SharesOf(t)) <= MaxShares
  BY HeldIsFinite, BoundsAssumption DEF CapInv, CapsHold, ShareCapsHold
<1>5. Cardinality(Offers(t)') <= MaxPendingShares
  <2>1. Offers(t)' = Offers(t) \cup {i} /\ i \notin Offers(t)
    BY <1>2
  <2>2. IsFiniteSet(Offers(t))
    BY <1>4
  <2>3. Cardinality(Offers(t) \cup {i}) = Cardinality(Offers(t)) + 1
    BY <2>1, <2>2, FS_AddElement
  <2>4. Cardinality(Offers(t)') = Cardinality(Offers(t)) + 1
    BY <2>1, <2>3
  <2> QED  BY <1>4, <2>4
<1>6. Cardinality(SharesOf(t)') <= MaxShares
  <2>1. CASE Cardinality(SharesOf(t)) < MaxShares
    <3>1. evicted = {}
      BY <2>1 DEF Evictions
    <3>2. SharesOf(t)' = SharesOf(t) \cup {i}
      BY <1>2, <3>1
    <3>3. Cardinality(SharesOf(t) \cup {i}) = Cardinality(SharesOf(t)) + 1
      BY <1>2, <1>4, FS_AddElement
    <3> QED  BY <1>4, <2>1, <3>2, <3>3
  <2>2. CASE ~(Cardinality(SharesOf(t)) < MaxShares)
    <3>1. PICK j \in SharesOf(t) : evicted = {j}
      BY <2>2 DEF Evictions
    <3>2. /\ IsFiniteSet(SharesOf(t) \ {j})
          /\ Cardinality(SharesOf(t) \ {j}) = Cardinality(SharesOf(t)) - 1
      BY <1>4, <3>1, FS_RemoveElement
    <3>3. i \notin SharesOf(t) \ {j} /\ SharesOf(t)' = (SharesOf(t) \ {j}) \cup {i}
      BY <1>2, <3>1
    <3>4. Cardinality((SharesOf(t) \ {j}) \cup {i}) = Cardinality(SharesOf(t) \ {j}) + 1
      BY <3>2, <3>3, FS_AddElement
    <3> QED  BY <1>4, <3>2, <3>3, <3>4
  <2> QED  BY <2>1, <2>2
<1>7. ASSUME NEW s \in Terminals \ {t}
      PROVE  /\ Cardinality(SharesOf(s)') <= MaxShares
             /\ Cardinality(Offers(s)') <= MaxPendingShares
  <2>1. /\ IsFiniteSet(SharesOf(s)) /\ Cardinality(SharesOf(s)) <= MaxShares
        /\ IsFiniteSet(Offers(s)) /\ Cardinality(Offers(s)) <= MaxPendingShares
    BY HeldIsFinite DEF CapInv, CapsHold, ShareCapsHold
  <2> QED  BY <1>2, <1>4, <2>1, FewerWithinCap
<1> QED  BY <1>3, <1>5, <1>6, <1>7 DEF ShareCapsHold

LEMMA CapInvKept ==
    ASSUME TypeOK, CapInv, [Next]_vars
    PROVE  CapInv'
<1>1. ASSUME GrantsGoAway, SharesGoAway
      PROVE  CapInv'
  BY <1>1, FewerGrants, FewerShares DEF CapInv, CapsHold
<1>2. ASSUME UNCHANGED <<grants, shares>>
      PROVE  CapInv'
  BY <1>1, <1>2 DEF GrantsGoAway, SharesGoAway
<1>3. ASSUME NEW t \in Terminals, NEW n, NEW kept, NEW ids, kept \subseteq grants,
             RoomForGrant(kept, t), GrantAndWake(kept, t, n, ids), SharesGoAway
      PROVE  CapInv'
  BY <1>3, RoomMadeForGrant, FewerShares DEF CapInv, CapsHold
<1>4. \A i \in Ids, o \in ShareVerdicts : shares[i].state # "none" =>
         /\ Resolve(shares[i], o).state \notin {"none", "pending"}
         /\ Resolve(shares[i], o).terminal = shares[i].terminal
  BY EntryType DEF Resolve, Share, ShareVerdicts
<1>5. ASSUME NEW t, NEW n, shares' = Withdraw(t, n)
      PROVE  SharesGoAway
  BY <1>4, <1>5 DEF Withdraw, PendingShares, LiveShares, SharesGoAway, ShareVerdicts
<1>6. ASSUME NEW i \in Ids, shares'[i].state = shares[i].state,
             shares[i].state # "none" => shares'[i].terminal = shares[i].terminal,
             \A j \in Ids \ {i} : shares'[j] = shares[j]
      PROVE  SharesGoAway
  BY <1>6 DEF SharesGoAway
<1>7. CASE RegistryStep
  <2>1. ASSUME NEW ts, Clear(ts)
        PROVE  CapInv'
    BY <1>1, <2>1 DEF Clear, GrantsGoAway, SharesGoAway, NoShare
  <2> QED
    BY <1>2, <1>7, <2>1 DEF RegistryStep, CreateTerminal, TerminalExits,
       PruneExited, RemoveTerminal, ClearTerminal, ReaperLists, ReaperClears
<1>8. CASE CallerStep
  BY <1>2, <1>8 DEF CallerStep, Authorize, Refuse
<1>9. CASE AgentStep
  <2>1. ASSUME NEW a \in Agents,
               \/ \E n \in Names, p \in Purposes : RequestSecret(a, n, p)
               \/ \E c \in Commands, p \in Purposes : RequestSudo(a, c, p)
               \/ \E n \in Names : ExecuteSecret(a, n)
               \/ ReadStream(a)
        PROVE  CapInv'
    BY <1>2, <2>1 DEF RequestSecret, RequestSudo, Ask, ExecuteSecret, ReadStream
  <2>2. ASSUME NEW a \in Agents, NEW n \in Names, NEW r \in BOOLEAN,
               GenerateSecret(a, n, r)
        PROVE  CapInv'
    <3>1. /\ call[a] \in Terminals /\ RoomForGrant(grants \ GrantOf(call[a], n), call[a])
          /\ GrantAndWake(grants \ GrantOf(call[a], n), call[a], n,
                          PendingSecret(call[a], n))
          /\ shares' = shares \/ shares' = Withdraw(call[a], n)
      BY <2>2 DEF GenerateSecret, TypeOK, Callers
    <3>2. SharesGoAway
      BY <1>5, <3>1 DEF SharesGoAway
    <3>3. grants \ GrantOf(call[a], n) \subseteq grants
      OBVIOUS
    <3> QED  BY <1>3, <3>1, <3>2, <3>3
  <2>3. ASSUME NEW a \in Agents, NEW n \in Names, NEW p \in Purposes,
               ShareSecret(a, n, p)
        PROVE  CapInv'
    <3> DEFINE t == call[a]
    <3>1. t \in Terminals /\ grants' = grants
      BY <2>3 DEF ShareSecret, TypeOK, Callers
    <3>2. GrantCapHolds' /\ IsFiniteSet(grants')
      BY <3>1, FewerGrants DEF GrantsGoAway
    <3>3. CASE \E i \in PendingShares(t, n) : shares' = [shares EXCEPT ![i].waiters = @ + 1]
      <4>1. PICK i \in Ids : shares[i].state = "pending"
                             /\ shares' = [shares EXCEPT ![i].waiters = @ + 1]
        BY <3>3 DEF PendingShares, LiveShares
      <4>2. /\ shares'[i] = [shares[i] EXCEPT !.waiters = @ + 1] /\ shares[i] \in Share
            /\ \A j \in Ids \ {i} : shares'[j] = shares[j]
        BY <4>1, EntryType DEF TypeOK
      <4>3. SharesGoAway
        BY <1>6, <4>2 DEF Share
      <4> QED  BY <1>1, <3>1, <4>3 DEF GrantsGoAway
    <3>4. CASE \E g \in GrantOf(t, n), i \in Ids, evicted \in Evictions(t) :
             /\ FreshId(i) /\ Cardinality(Offers(t)) < MaxPendingShares
             /\ shares' = [[j \in Ids |-> IF j \in evicted THEN NoShare
                                                         ELSE shares[j]]
                  EXCEPT ![i] =
                    [state |-> "pending", terminal |-> t, name |-> n,
                     purpose |-> p, waiters |-> 1, value |-> g.id,
                     due |-> FALSE]]
      <4>1. PICK g \in GrantOf(t, n), i \in Ids, evicted \in Evictions(t) :
             /\ FreshId(i) /\ Cardinality(Offers(t)) < MaxPendingShares
             /\ shares' = [[j \in Ids |-> IF j \in evicted THEN NoShare
                                                         ELSE shares[j]]
                  EXCEPT ![i] =
                    [state |-> "pending", terminal |-> t, name |-> n,
                     purpose |-> p, waiters |-> 1, value |-> g.id,
                     due |-> FALSE]]
        BY <3>4
      <4>2. /\ shares[i].state = "none"
            /\ shares'[i].state = "pending" /\ shares'[i].terminal = t
            /\ \A j \in Ids \ {i} :
                  shares'[j] = IF j \in evicted THEN NoShare ELSE shares[j]
        BY <4>1 DEF FreshId
      <4>3. Cardinality(Offers(t)) < MaxPendingShares
        BY <4>1
      <4> HIDE DEF t
      <4>4. ShareCapsHold' /\ IsFiniteSet(LiveShares')
        BY <3>1, <4>2, <4>3, RoomMadeForShare
      <4> QED  BY <3>2, <4>4 DEF CapInv, CapsHold
    <3> QED  BY <2>3, <3>3, <3>4 DEF ShareSecret
  <2>4. ASSUME NEW a \in Agents, NEW i \in Ids, WaitShare(a, i)
        PROVE  CapInv'
    <3>1. /\ shares'[i].state = shares[i].state
          /\ shares'[i].terminal = shares[i].terminal
          /\ \A j \in Ids \ {i} : shares'[j] = shares[j]
          /\ grants' = grants
      BY <2>4, EntryType DEF WaitShare, LiveShares, TypeOK, Share
    <3> QED  BY <1>1, <1>6, <3>1 DEF GrantsGoAway
  <2>5. ASSUME NEW a \in Agents, DropStream(a)
        PROVE  CapInv'
    <3>1. \A i \in Ids : shares[i].state # "none" =>
             /\ Detach(shares[i]).state = shares[i].state
             /\ Detach(shares[i]).terminal = shares[i].terminal
      BY EntryType DEF Detach, Share
    <3>2. SharesGoAway
      BY <2>5, <3>1 DEF DropStream, TypeOK, SharesGoAway
    <3> QED  BY <1>1, <2>5, <3>2 DEF DropStream, GrantsGoAway
  <2> QED  BY <1>9, <2>1, <2>2, <2>3, <2>4, <2>5 DEF AgentStep
<1>10. CASE UserStep
  <2>1. SharesGoAway \/ ~UNCHANGED shares
    BY DEF SharesGoAway
  <2>2. ASSUME NEW u \in Users, NEW n \in Names, AddSecret(u, n)
        PROVE  CapInv'
    <3>1. /\ call[u] \in Terminals /\ RoomForGrant(grants, call[u])
          /\ GrantAndWake(grants, call[u], n, PendingSecret(call[u], n))
          /\ shares' = shares
      BY <2>2 DEF AddSecret, TypeOK, Callers
    <3> QED  BY <1>3, <2>1, <3>1
  <2>3. ASSUME NEW u \in Users, NEW i \in Ids, ApproveSecret(u, i)
        PROVE  CapInv'
    <3>1. /\ call[u] \in Terminals /\ RoomForGrant(grants, call[u])
          /\ GrantAndWake(grants, call[u], requests[i].subject, {i})
          /\ shares' = shares
      BY <2>3 DEF ApproveSecret, TypeOK, Callers
    <3> QED  BY <1>3, <2>1, <3>1
  <2>4. ASSUME NEW u \in Users,
               \/ \E i \in Ids : ApproveSudo(u, i)
               \/ PasswordRejected(u) \/ RefuseChangedObjects(u)
               \/ StartApproved(u) \/ AbandonApproval(u)
               \/ \E m \in BOOLEAN : PasswordAccepted(u, m)
        PROVE  CapInv'
    BY <1>2, <2>4 DEF ApproveSudo, PasswordRejected, RefuseChangedObjects,
       StartApproved, AbandonApproval, PasswordAccepted
  <2>5. ASSUME NEW g \in grants, RevokeGrant(g)
        PROVE  CapInv'
    BY <1>1, <1>5, <2>5 DEF RevokeGrant, GrantsGoAway
  <2>6. ASSUME NEW i \in Ids, Reject(i)
        PROVE  CapInv'
    BY <1>2, <2>6 DEF Reject
  <2>7. ASSUME NEW i \in Ids, RevealShare(i) \/ DismissShare(i)
        PROVE  CapInv'
    <3>1. PICK o \in ShareVerdicts : shares' = [shares EXCEPT ![i] = Resolve(@, o)]
      BY <2>7 DEF RevealShare, DismissShare, ShareVerdicts
    <3>2. shares[i].state # "none" /\ grants' = grants
      BY <2>7 DEF RevealShare, DismissShare
    <3>3. /\ shares'[i] = Resolve(shares[i], o)
          /\ \A j \in Ids \ {i} : shares'[j] = shares[j]
      BY <3>1 DEF TypeOK
    <3>4. SharesGoAway
      BY <1>4, <3>2, <3>3 DEF SharesGoAway
    <3> QED  BY <1>1, <3>2, <3>4 DEF GrantsGoAway
  <2> QED  BY <1>10, <2>2, <2>3, <2>4, <2>5, <2>6, <2>7 DEF UserStep
<1>11. CASE TaskStep
  <2>1. CASE ExpireShares
    <3>1. SharesGoAway
      BY <1>4, <2>1 DEF ExpireShares, Expired, DueShares, StaleShares, LiveShares,
         SharesGoAway, ShareVerdicts, NoShare
    <3> QED  BY <1>1, <2>1, <3>1 DEF ExpireShares, GrantsGoAway
  <2>2. ASSUME NEW i \in Ids, TimePasses(i)
        PROVE  CapInv'
    <3>1. /\ shares'[i].state = shares[i].state
          /\ shares'[i].terminal = shares[i].terminal
          /\ \A j \in Ids \ {i} : shares'[j] = shares[j]
          /\ grants' = grants
      BY <2>2, EntryType DEF TimePasses, LiveShares, TypeOK, Share
    <3> QED  BY <1>1, <1>6, <3>1 DEF GrantsGoAway
  <2>3. ASSUME \E i \in Ids :
                    \/ RootStarts(i) \/ RootFails(i) \/ RootWrites(i)
                    \/ RootExits(i) \/ CommandWrites(i)
                    \/ FinishSecretExecution(i)
                    \/ \E e \in {"completed", "failed"} : CommandEnds(i, e)
        PROVE  CapInv'
    BY <1>2, <2>3 DEF RootStarts, RootFails, RootWrites, RootExits,
       CommandWrites, FinishSecretExecution, CommandEnds
  <2> QED  BY <1>11, <2>1, <2>2, <2>3 DEF TaskStep
<1>12. CASE UNCHANGED vars
  BY <1>2, <1>12 DEF vars
<1> QED  BY <1>7, <1>8, <1>9, <1>10, <1>11, <1>12 DEF Next

-----------------------------------------------------------------------------

\* The inductive invariant of the streams.
THEOREM StreamInvariance == Spec => [](StreamInv /\ WantedCommandRead)
<1>1. Init => StreamInv /\ WantedCommandRead
  BY StreamInit
<1>2. /\ TypeOK /\ SudoInv /\ StreamInv /\ WantedCommandRead /\ [Next]_vars
      => (StreamInv /\ WantedCommandRead)'
  BY StreamInvKept
<1> QED  BY <1>1, <1>2, TypeCorrect, SudoInvariance, PTL DEF Spec

\* However requests are joined, answered, cleared and abandoned, a waiter count
\* is the number of agents waiting.
THEOREM WaitersAreCounted == Spec => []WaitersCounted
<1>1. StreamInv => WaitersCounted
  BY DEF StreamInv
<1> QED  BY <1>1, StreamInvariance, PTL

\* No agent waits for a verdict that nobody can send any more.
THEOREM NobodyWaitsForNothing == Spec => []NoSilentStream
<1>1. StreamInv => NoSilentStream
  BY DEF StreamInv, EveryReaderServed, Told, HasSender, NoSilentStream
<1> QED  BY <1>1, StreamInvariance, PTL

\* Both together, as the run checks them.
THEOREM StreamsHold == Spec => []StreamsServed
  BY WaitersAreCounted, NobodyWaitsForNothing, PTL DEF StreamsServed

\* A command whose reader left or whose terminal was cleared has been told to
\* stop, in whatever order the two and the end of the command happen.
THEOREM AbandonedIsCanceled == Spec => []AbandonedCommandCanceled
<1>1. WantedCommandRead => AbandonedCommandCanceled
  BY DEF WantedCommandRead, AbandonedCommandCanceled
<1> QED  BY <1>1, StreamInvariance, PTL

\* Whichever of add, approve and generate inserts grants, and however offers
\* are made, resolved, evicted and retained, a terminal holds no more than its
\* caps.
THEOREM CapsAlwaysHold == Spec => []CapsHold
<1>1. Init => CapInv
  BY CapInit
<1>2. TypeOK /\ CapInv /\ [Next]_vars => CapInv'
  BY CapInvKept
<1>3. CapInv => CapsHold
  BY DEF CapInv
<1> QED  BY <1>1, <1>2, <1>3, TypeCorrect, PTL DEF Spec
=============================================================================
