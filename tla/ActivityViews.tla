----------------------------- MODULE ActivityViews -----------------------------
(***************************************************************************)
(* Which completions a user has seen (activity_view.rs, and the handlers   *)
(* of api.rs that call it).  A terminal counts its agent's and its         *)
(* commands' completions; here one counter stands for either.  Browsers    *)
(* report the completion they showed, in any order and more than once.     *)
(***************************************************************************)
EXTENDS Naturals, FiniteSets, Functions

CONSTANTS Viewed, Browsers, NoTerminal,
          MaxCompletions   \* bound

VARIABLES
    completed,   \* terminal -> its last completion; none once it is gone
    gone,        \* terminals that were removed
    seenViews,   \* terminal -> the last completion seen
    storedViews, \* activity-views.json
    refused,     \* a change that reached the file and was answered an error
    report,      \* browser -> its call, past the lookup of the terminal
    ahead        \* history: a view was ahead of its terminal when stored

viewVars == <<completed, gone, seenViews, storedViews, refused, report, ahead>>

Seen(f, t) == IF t \in DOMAIN f THEN f[t] ELSE 0
NoReport == [terminal |-> NoTerminal, seen |-> 0]

\* Mutant: the last report wins.
FaultyMerged(current, update) == update
Merged(current, update) == IF current > update THEN current ELSE update

\* persist, then the memory: a write that fails leaves both, or, when only the
\* directory's flush failed, the memory alone.
Keep(f) == \/ seenViews' = f /\ storedViews' = f /\ refused' = refused
           \/ UNCHANGED <<seenViews, storedViews, refused>>
           \/ storedViews' = f /\ refused' = f /\ UNCHANGED seenViews

Completes(t) ==
    /\ completed[t] < MaxCompletions /\ t \notin gone
    /\ completed' = [completed EXCEPT ![t] = @ + 1]
    /\ UNCHANGED <<gone, seenViews, storedViews, refused, report, ahead>>

\* The handler lists the terminals and validates the report against the one it
\* names; a report of a later completion is refused.
Report(b) ==
    /\ report[b] = NoReport
    /\ \E t \in Viewed \ gone : \E n \in 1..completed[t] :
         report' = [report EXCEPT ![b] = [terminal |-> t, seen |-> n]]
    /\ UNCHANGED <<completed, gone, seenViews, storedViews, refused, ahead>>
Update(b) ==
    LET t == report[b].terminal
        next == Merged(Seen(seenViews, t), report[b].seen) IN
    /\ report[b] # NoReport /\ report' = [report EXCEPT ![b] = NoReport]
    /\ IF next = Seen(seenViews, t)
       THEN UNCHANGED <<seenViews, storedViews, refused>>
       ELSE Keep([x \in DOMAIN seenViews \cup {t} |->
                     IF x = t THEN next ELSE seenViews[x]])
    /\ ahead' = (ahead \/ next > completed[t])
    /\ UNCHANGED <<completed, gone>>

\* remove_terminal: the terminal first, its view after.
Remove(t) ==
    /\ t \notin gone /\ gone' = gone \cup {t}
    /\ IF t \in DOMAIN seenViews
       THEN Keep(Restrict(seenViews, DOMAIN seenViews \ {t}))
       ELSE UNCHANGED <<seenViews, storedViews, refused>>
    /\ UNCHANGED <<completed, report, ahead>>

Restart == /\ seenViews' = storedViews
           /\ report' = [b \in Browsers |-> NoReport]
           /\ refused' = storedViews
           /\ UNCHANGED <<completed, gone, storedViews, ahead>>

ViewInit ==
    /\ completed = [t \in Viewed |-> 0] /\ gone = {}
    /\ seenViews = <<>> /\ storedViews = <<>> /\ refused = <<>>
    /\ report = [b \in Browsers |-> NoReport] /\ ahead = FALSE
ViewNext == \/ Restart
            \/ \E t \in Viewed : Completes(t) \/ Remove(t)
            \/ \E b \in Browsers : Report(b) \/ Update(b)
ViewSpec == ViewInit /\ [][ViewNext]_viewVars

ViewTypeOK == /\ DOMAIN seenViews \cup DOMAIN storedViews \subseteq Viewed
              /\ \A t \in DOMAIN seenViews : seenViews[t] \in 1..MaxCompletions
              /\ gone \subseteq Viewed

\* However browsers' reports overtake each other, a completion once seen is not
\* shown as new again while its terminal exists, also over a restart.
SeenStaysSeen ==
    [][\A t \in Viewed \ gone' :
           Seen(seenViews', t) >= Seen(seenViews, t)]_viewVars

\* A completion is not seen before it happened, and the file is what the
\* browsers were answered, but for a change answered with an error.
ViewsSound == /\ [](~ahead /\ storedViews \in {seenViews, refused})
              /\ SeenStaysSeen
=============================================================================
