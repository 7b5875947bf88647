------------------------------ MODULE PaneLayout ------------------------------
(***************************************************************************)
(* The panes of a browser's workspace (client/lib/layout.ts and its use in *)
(* client/App.tsx).                                                        *)
(*                                                                         *)
(* A layout is a tree of splits with a terminal at each leaf.  The user    *)
(* opens, closes, drags and resizes panes and creates terminals, while     *)
(* listings of the server arrive and take away panes of terminals that are *)
(* gone.  A ratio is in quarters, so that its limits are 1 and 3.  What a  *)
(* render's effects do is part of the step that causes it.                 *)
(***************************************************************************)
EXTENDS Naturals, Sequences, SequencesExt, FiniteSets

CONSTANTS Panes,            \* terminals, in the order of listings
          NoPane, MaxPanes, CachedTerminals,
          MaxChanges        \* bound

VARIABLES
    layout, active, mounted,
    listed,     \* terminals
    living,     \* on the server
    listing,    \* {}, or {what a refresh under way has read}
    creating,   \* {}, or {a creation under way: [id, active, stored]}
    changes     \* terminals created and removed, and pages reloaded

layoutVars == <<layout, active, mounted, listed, living, listing, creating, changes>>

Whole == 64                 \* the side of the workspace
NoLayout == [type |-> "none"]
PaneLeaf(id) == [type |-> "leaf", id |-> id]
SplitOf(direction, first, second) ==
    [type |-> "split", direction |-> direction, ratio |-> 2, first |-> first, second |-> second]

ClampSplitRatio(r) == IF r < 1 THEN 1 ELSE IF r > 3 THEN 3 ELSE r

RECURSIVE PaneIds(_)
PaneIds(l) == CASE l.type = "none" -> <<>>
                [] l.type = "leaf" -> <<l.id>>
                [] OTHER           -> PaneIds(l.first) \o PaneIds(l.second)
Shown(l) == ToSet(PaneIds(l))

Area(x, y, width, height) == [x |-> x, y |-> y, width |-> width, height |-> height]
FirstHalf(l, b) == LET r == ClampSplitRatio(l.ratio)
                   IN IF l.direction = "horizontal" THEN [b EXCEPT !.width = (@ * r) \div 4]
                      ELSE [b EXCEPT !.height = (@ * r) \div 4]
SecondHalf(l, b) == LET f == FirstHalf(l, b)
                    IN IF l.direction = "horizontal"
                       THEN Area(b.x + f.width, b.y, b.width - f.width, b.height)
                       ELSE Area(b.x, b.y + f.height, b.width, b.height - f.height)

RECURSIVE RectsIn(_, _)
RectsIn(l, b) == CASE l.type = "none" -> <<>>
                   [] l.type = "leaf" -> <<[id |-> l.id, at |-> b]>>
                   [] OTHER -> RectsIn(l.first, FirstHalf(l, b)) \o RectsIn(l.second, SecondHalf(l, b))
PaneRects(l) == RectsIn(l, Area(0, 0, Whole, Whole))

RECURSIVE DividersIn(_, _, _)
DividersIn(l, path, b) ==
    IF l.type # "split" THEN {}
    ELSE {[path |-> path, parent |-> b]}
         \cup DividersIn(l.first, Append(path, "first"), FirstHalf(l, b))
         \cup DividersIn(l.second, Append(path, "second"), SecondHalf(l, b))
SplitDividers(l) == DividersIn(l, <<>>, Area(0, 0, Whole, Whole))

RECURSIVE UpdateSplitRatio(_, _, _)
UpdateSplitRatio(l, path, r) ==
    CASE l.type # "split" -> l
      [] l.type = "split" /\ path = <<>> -> [l EXCEPT !.ratio = ClampSplitRatio(r)]
      [] OTHER -> [l EXCEPT ![Head(path)] = UpdateSplitRatio(@, Tail(path), r)]

\* A split that lost one side is replaced by the other.
Joined(l, first, second) == CASE first = NoLayout  -> second
                              [] second = NoLayout -> first
                              [] OTHER -> [l EXCEPT !.first = first, !.second = second]
RECURSIVE PruneLayout(_, _)
PruneLayout(l, available) ==
    CASE l.type = "none" -> l
      [] l.type = "leaf" -> IF l.id \in available THEN l ELSE NoLayout
      [] OTHER -> Joined(l, PruneLayout(l.first, available), PruneLayout(l.second, available))
RemovePane(l, id) == PruneLayout(l, Panes \ {id})

RECURSIVE SplitAt(_, _, _, _)
SplitAt(l, target, source, position) ==
    IF l.type = "leaf"
    THEN IF l.id # target THEN l
         ELSE LET direction == IF position \in {"left", "right"} THEN "horizontal" ELSE "vertical"
              IN IF position \in {"left", "top"} THEN SplitOf(direction, PaneLeaf(source), l)
                 ELSE SplitOf(direction, l, PaneLeaf(source))
    ELSE [l EXCEPT !.first = SplitAt(@, target, source, position),
                   !.second = SplitAt(@, target, source, position)]

\* Leaves renamed: replacePane, swapPanes
RECURSIVE Renamed(_, _)
Renamed(l, name) == IF l.type = "leaf" THEN PaneLeaf(name[l.id])
                    ELSE [l EXCEPT !.first = Renamed(@, name), !.second = Renamed(@, name)]
Same == [id \in Panes |-> id]

Largest(l) ==
    LET rects == PaneRects(l)
        SizeOf(i) == rects[i].at.width * rects[i].at.height
    IN rects[CHOOSE i \in DOMAIN rects :
                /\ \A j \in DOMAIN rects : SizeOf(j) <= SizeOf(i)
                /\ \A j \in 1..(i - 1) : SizeOf(j) < SizeOf(i)]
InsertBalanced(l, id) ==
    CASE l = NoLayout -> PaneLeaf(id)
      [] l # NoLayout /\ id \in Shown(l) -> l
      [] OTHER -> LET p == Largest(l)
                  IN SplitAt(l, p.id, id, IF p.at.width >= p.at.height THEN "right" ELSE "bottom")
LayoutFromIds(ids) == FoldLeft(InsertBalanced, NoLayout, ids)

\* The layout itself when the pane cannot be placed
ReplacingArrange(l, source, target, position) ==
    IF position = "center" THEN Renamed(l, [Same EXCEPT ![target] = source])
    ELSE SplitAt(RemovePane(l, source), target, source, position)
ArrangeLayout(l, source, target, position) ==
    LET visible == source \in Shown(l)
    IN CASE target \notin Shown(l) \/ source = target -> l
         [] target \in Shown(l) /\ source # target /\ position = "center" ->
              Renamed(l, IF visible THEN [Same EXCEPT ![source] = target, ![target] = source]
                         ELSE [Same EXCEPT ![target] = source])
         [] OTHER -> IF ~visible /\ Len(PaneIds(l)) >= MaxPanes THEN l
                     ELSE SplitAt(RemovePane(l, source), target, source, position)

TargetIn(l, wanted) == IF wanted \in Shown(l) THEN wanted ELSE Head(PaneIds(l))
PlaceNewTerminal(l, id, wanted, tile) ==
    CASE l = NoLayout -> PaneLeaf(id)
      [] l # NoLayout /\ id \in Shown(l) -> l
      [] OTHER -> IF tile /\ Len(PaneIds(l)) < MaxPanes THEN InsertBalanced(l, id)
                  ELSE ArrangeLayout(l, id, TargetIn(l, wanted), "center")

\* removePaneAndSelect: the pane that becomes active
Selected(l, id) ==
    LET ids == PaneIds(l)
        rest == SelectSeq(ids, LAMBDA p : p # id)
        at == CHOOSE i \in DOMAIN ids : ids[i] = id
    IN CASE id \notin Shown(l) -> active
         [] id \in Shown(l) /\ active # id /\ active \in Shown(l) -> active
         [] OTHER -> IF at <= Len(rest) THEN rest[at]
                     ELSE IF rest = <<>> THEN NoPane ELSE rest[at - 1]

ReconcileMounted(m, visible, available) ==
    LET kept == SelectSeq(m, LAMBDA id : id \in available /\ id \notin ToSet(visible))
        next == kept \o SelectSeq(visible, LAMBDA id : id \in available)
        over == IF Len(next) > CachedTerminals THEN Len(next) - CachedTerminals ELSE 0
    IN SubSeq(next, 1 + (IF over < Len(kept) THEN over ELSE Len(kept)), Len(next))

RECURSIVE IsTree(_)
IsTree(l) == \/ l.type = "leaf"
             \/ l.type = "split" /\ l.ratio \in 1..3 /\ IsTree(l.first) /\ IsTree(l.second)
IsPaneLayout(l) == IsTree(l) /\ IsInjective(PaneIds(l))

-----------------------------------------------------------------------------
(* App.tsx: a step, and what the effects of its render do *)

Becomes(l, a, terminals) ==
    LET ids == PaneIds(l) IN
    /\ layout' = l /\ listed' = terminals
    /\ active' = IF a # NoPane /\ a \notin ToSet(ids)
                 THEN IF ids = <<>> THEN NoPane ELSE ids[1]
                 ELSE a
    /\ mounted' = ReconcileMounted(mounted, ids, terminals)
Shows(l, a) == Becomes(l, a, listed)
Rest == <<living, listing, creating, changes>>
Changed == changes < MaxChanges /\ changes' = changes + 1

OpenTerminal(id, split) ==
    /\ id \in listed
    /\ CASE id \in Shown(layout) -> Shows(layout, id)
         [] layout = NoLayout    -> Shows(PaneLeaf(id), id)
         [] OTHER -> LET room == split /\ Len(PaneIds(layout)) < MaxPanes
                     IN Shows(ArrangeLayout(layout, id, TargetIn(layout, active),
                                            IF room THEN "right" ELSE "center"), id)
    /\ UNCHANGED Rest
DropOnPane(source, target, position) ==
    /\ source \in listed /\ target \in Shown(layout)
    /\ LET next == ArrangeLayout(layout, source, target, position)
       IN Shows(next, IF source \in Shown(next) THEN source ELSE active)
    /\ UNCHANGED Rest
ClosePane(id) ==
    /\ id \in Shown(layout)
    /\ Shows(RemovePane(layout, id), Selected(layout, id))
    /\ UNCHANGED Rest
FocusAdjacentPane ==
    /\ Len(PaneIds(layout)) > 1 /\ active \in Shown(layout)
    /\ LET ids == PaneIds(layout)
           at == CHOOSE i \in DOMAIN ids : ids[i] = active
       IN Shows(layout, ids[(at % Len(ids)) + 1])
    /\ UNCHANGED Rest

\* The dragged divider is known by its path, which another may have taken by the time
\* the pointer moves: any divider may move at any time.
MoveDivider(path, r) ==
    /\ Shows(UpdateSplitRatio(layout, path, r), active)
    /\ UNCHANGED Rest

CreateTerminal ==
    /\ creating = {} /\ Changed
    /\ \E id \in Panes \ (living \cup listed) :
          creating' = {[id |-> id, active |-> active, stored |-> FALSE]}
    /\ UNCHANGED <<layout, active, mounted, listed, living, listing>>
Stored ==
    /\ \E c \in creating : /\ ~c.stored
                           /\ creating' = {[c EXCEPT !.stored = TRUE]}
                           /\ living' = living \cup {c.id}
    /\ UNCHANGED <<layout, active, mounted, listed, listing, changes>>
Created(tile) ==
    /\ \E c \in creating :
          /\ c.stored
          /\ Becomes(PlaceNewTerminal(layout, c.id, c.active, tile), c.id, listed \cup {c.id})
    /\ creating' = {}
    /\ UNCHANGED <<living, listing, changes>>

\* removeTerminal, forgetTerminal; or the terminal is removed elsewhere
ForgetTerminal(id) ==
    /\ id \in listed /\ Changed
    /\ living' = living \ {id}
    /\ Becomes(RemovePane(layout, id), active, listed \ {id})
    /\ UNCHANGED <<listing, creating>>
RemovedElsewhere(id) ==
    /\ id \in living /\ Changed
    /\ living' = living \ {id}
    /\ UNCHANGED <<layout, active, mounted, listed, listing, creating>>

StartRefresh ==
    /\ listing = {} /\ listing' = {living}
    /\ UNCHANGED <<layout, active, mounted, listed, living, creating, changes>>
Refreshed ==
    /\ \E read \in listing : Becomes(PruneLayout(layout, read), active, read)
    /\ listing' = {}
    /\ UNCHANGED <<living, creating, changes>>

\* The page is loaded anew, with what session storage keeps, and lists terminals.
LoadWorkspace ==
    /\ Changed
    /\ LET stored == IF IsPaneLayout(layout) THEN layout ELSE LayoutFromIds(PaneIds(layout))
           kept == PruneLayout(stored, living)
           first == IF living = {} THEN NoPane ELSE CHOOSE id \in living : \A o \in living : id <= o
           l == IF kept # NoLayout THEN kept ELSE IF living = {} THEN NoLayout ELSE PaneLeaf(first)
       IN /\ layout' = l /\ listed' = living
          /\ active' = IF first \in Shown(l) \/ l = NoLayout THEN first ELSE PaneIds(l)[1]
          /\ mounted' = ReconcileMounted(<<>>, PaneIds(l), living)
    /\ listing' = {} /\ creating' = {}
    /\ UNCHANGED living

\* A page of a new browser, with three terminals on the server
LayoutInit ==
    /\ living = 1..3 /\ listed = living
    /\ layout = PaneLeaf(1) /\ active = 1 /\ mounted = <<1>>
    /\ listing = {} /\ creating = {} /\ changes = 0

Positions == {"top", "center"}   \* OpenTerminal splits to the right
LayoutNext ==
    \/ \E id \in Panes : \/ \E split \in BOOLEAN : OpenTerminal(id, split)
                         \/ ClosePane(id) \/ ForgetTerminal(id) \/ RemovedElsewhere(id)
    \/ \E source, target \in Panes, position \in Positions : DropOnPane(source, target, position)
    \/ FocusAdjacentPane
    \/ \E d \in SplitDividers(layout) : MoveDivider(d.path, 0)
    \/ CreateTerminal \/ Stored \/ (\E tile \in BOOLEAN : Created(tile))
    \/ StartRefresh \/ Refreshed \/ LoadWorkspace
LayoutSpec == LayoutInit /\ [][LayoutNext]_layoutVars

-----------------------------------------------------------------------------
\* Whatever was opened, dragged, resized, pruned and closed, in any order, the panes
\* tile the workspace: none is lost behind another or twice in the tree, none has no
\* room, and there are at most MaxPanes.  The stored layout is accepted on a reload.
Apart(b, c) == \/ b.x + b.width <= c.x \/ c.x + c.width <= b.x
               \/ b.y + b.height <= c.y \/ c.y + c.height <= b.y
PanesTile ==
    LET rects == PaneRects(layout)
        Size(sum, r) == sum + r.at.width * r.at.height
    IN layout # NoLayout =>
         /\ IsPaneLayout(layout) /\ Len(rects) <= MaxPanes
         /\ \A i \in DOMAIN rects : rects[i].at.width > 0 /\ rects[i].at.height > 0
         /\ \A i, j \in DOMAIN rects : i # j => Apart(rects[i].at, rects[j].at)
         /\ FoldLeft(Size, 0, rects) = Whole * Whole

\* Moving a divider moves only the panes between which it stands.
DividersLocal ==
    \A d \in SplitDividers(layout), r \in {1, 3} :
        LET before == PaneRects(layout)
            after == PaneRects(UpdateSplitRatio(layout, d.path, r))
        IN \A i \in DOMAIN before :
              \/ after[i] = before[i]
              \/ ~Apart(before[i].at, d.parent) /\ ~Apart(after[i].at, d.parent)

\* A visible pane is active whenever there is one, visible terminals are mounted,
\* and no terminal that the server no longer lists is shown.
PagesFollow ==
    /\ IF layout = NoLayout THEN active = NoPane ELSE active \in Shown(layout)
    /\ Shown(layout) \subseteq ToSet(mounted) /\ ToSet(mounted) \subseteq listed
    /\ IsInjective(mounted)
    /\ Len(mounted) <= CachedTerminals \/ ToSet(mounted) = Shown(layout)

LayoutSound == PanesTile /\ DividersLocal /\ PagesFollow
=============================================================================
