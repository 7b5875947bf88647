--------------------------- MODULE ClientViewports ---------------------------
(***************************************************************************)
(* Who decides the size of a terminal (src/terminal.rs: ClientViewports    *)
(* and update_viewports; src/workspace.rs: the socket that drives them).   *)
(* Every connected client may report a viewport; the focused one decides,  *)
(* otherwise the grid is the smallest in each direction; one client, the   *)
(* responder, answers the terminal's queries.  Resizing the pty may fail:  *)
(* the update then stops half way, and the client whose message caused it  *)
(* is disconnected.                                                        *)
(*                                                                         *)
(* Every action runs under the viewports lock, and from the resize to the  *)
(* announcement under the output lock too.  Clients are numbers, ordered   *)
(* as their ids are; pixels go as columns and rows do and are left out,    *)
(* and so is the epoch of the grid, which TerminalStream models.           *)
(***************************************************************************)
EXTENDS Naturals, FiniteSetsExt

CONSTANTS
    Clients,        \* a set of numbers
    NoClient,
    Viewports,      \* a set of records [cols, rows]
    DefaultSize     \* DEFAULT_VIEWPORT_SIZE

\* Ids are numbers, and TerminalViewport::new leaves no dimension at zero.
ASSUME ViewportsAssumption ==
    /\ Clients \subseteq Nat /\ NoClient \notin Clients
    /\ Viewports \subseteq [cols : Nat \ {0}, rows : Nat \ {0}]
    /\ DefaultSize \in [cols : Nat \ {0}, rows : Nat \ {0}]

VARIABLES
    alive,          \* TerminalInfo::status is Running
    sizes,          \* client -> its viewport or Hidden, of those attached
    focused, responder,
    published,      \* [size, focused, responder]: what every socket was told
    pty, emulator,  \* the size of the pty, and of the emulator's grid
    leaving,        \* clients whose message failed: their socket is closing
    refused         \* history: the last update failed at the pty

viewportVars == <<alive, sizes, focused, responder, published, pty, emulator,
                  leaving, refused>>

Hidden == [cols |-> 0, rows |-> 0]
Attached == DOMAIN sizes

ViewportsInit ==
    /\ alive = TRUE
    /\ sizes = [c \in {} |-> Hidden]
    /\ focused = NoClient /\ responder = NoClient
    /\ published = [size |-> DefaultSize, focused |-> NoClient,
                    responder |-> NoClient]
    /\ pty = DefaultSize /\ emulator = DefaultSize
    /\ leaving = {} /\ refused = FALSE

-----------------------------------------------------------------------------
Visible(s) == {c \in DOMAIN s : s[c] # Hidden}

\* state(): the size the clients agree on; with nobody visible, the last one.
Negotiated(s, f) ==
    IF f \in Visible(s) THEN s[f]
    ELSE IF Visible(s) = {} THEN published.size
    ELSE [cols |-> Min({s[c].cols : c \in Visible(s)}),
          rows |-> Min({s[c].rows : c \in Visible(s)})]

\* update_viewports, after the change itself: resize the pty (which may fail,
\* and then nothing is announced), then the emulator, then announce.
Update(s, f, r) ==
    LET size == Negotiated(s, f) IN
    /\ sizes' = s /\ focused' = f /\ responder' = r
    /\ \/ /\ refused' = FALSE
          /\ pty' = IF alive THEN size ELSE pty
          /\ emulator' = size
          /\ published' = [size |-> size, focused |-> f, responder |-> r]
       \/ /\ alive /\ size # published.size
          /\ refused' = TRUE
          /\ UNCHANGED <<pty, emulator, published>>
    /\ UNCHANGED alive

\* The socket of a client whose message failed stops.
ToldOrLeaves(c) ==
    leaving' = IF refused' THEN leaving \cup {c} ELSE leaving

Smallest(S, else) == IF S = {} THEN else ELSE Min(S)

-----------------------------------------------------------------------------
\* A socket opens, with the viewport its pane has, if it has one.  Its id is
\* fresh, and may be above or below any other.
Attach(c, view) ==
    /\ c \notin Attached
    /\ Update([d \in Attached \cup {c} |-> IF d = c THEN view ELSE sizes[d]],
              focused, IF responder = NoClient THEN c ELSE responder)
    /\ ToldOrLeaves(c)

\* The socket is gone.  The update may fail like any other.
FaultyDetach(c) ==
    LET s == [d \in Attached \ {c} |-> sizes[d]] IN
    /\ c \in Attached
    /\ Update(s, IF focused = c THEN NoClient ELSE focused, responder)
    /\ leaving' = leaving \ {c}
Detach(c) ==
    LET s == [d \in Attached \ {c} |-> sizes[d]] IN
    /\ c \in Attached
    /\ Update(s, IF focused = c THEN NoClient ELSE focused,
              IF responder = c
              THEN Smallest(Visible(s), Smallest(DOMAIN s, NoClient))
              ELSE responder)
    /\ leaving' = leaving \ {c}

Listening(c) == c \in Attached \ leaving

Resize(c, view) ==
    /\ Listening(c)
    /\ Update([sizes EXCEPT ![c] = view], focused, responder)
    /\ ToldOrLeaves(c)

\* Input: whoever types answers the terminal's queries.
Activate(c) ==
    /\ Listening(c)
    /\ Update(sizes, focused, c)
    /\ ToldOrLeaves(c)

\* A pane that is kept but not shown.
Release(c) ==
    LET s == [sizes EXCEPT ![c] = Hidden] IN
    /\ Listening(c)
    /\ Update(s, IF focused = c THEN NoClient ELSE focused,
              IF responder = c THEN Smallest(Visible(s), c) ELSE responder)
    /\ ToldOrLeaves(c)

\* Only a client that is shown takes the focus, and the queries with it.
Focus(c) ==
    LET shown == sizes[c] # Hidden IN
    /\ Listening(c)
    /\ Update(sizes, IF shown THEN c ELSE focused,
              IF shown THEN c ELSE responder)
    /\ ToldOrLeaves(c)

Blur(c) ==
    /\ Listening(c)
    /\ Update(sizes, IF focused = c THEN NoClient ELSE focused, responder)
    /\ ToldOrLeaves(c)

ShellExits ==
    /\ alive /\ alive' = FALSE
    /\ UNCHANGED <<sizes, focused, responder, published, pty, emulator,
                   leaving, refused>>

ViewportsNext ==
    \/ ShellExits
    \/ \E c \in Clients :
           \/ Detach(c) \/ Activate(c) \/ Release(c)
           \/ Focus(c) \/ Blur(c)
           \/ \E view \in Viewports : Resize(c, view)
           \/ \E view \in Viewports \cup {Hidden} : Attach(c, view)

ViewportsSpec == ViewportsInit /\ [][ViewportsNext]_viewportVars

-----------------------------------------------------------------------------
(* Properties.                                                             *)

ViewportsTypeOK ==
    /\ alive \in BOOLEAN /\ refused \in BOOLEAN
    /\ Attached \subseteq Clients
    /\ \A c \in Attached : sizes[c] \in Viewports \cup {Hidden}
    /\ focused \in Clients \cup {NoClient}
    /\ responder \in Clients \cup {NoClient}
    /\ leaving \subseteq Clients

\* What the programs in the terminal draw for is what the emulator keeps and
\* what the browsers were told, also when the pty refused the last resize.
GridAgrees ==
    /\ emulator = published.size
    /\ alive => pty = published.size

\* The roles are held by clients that are there: somebody answers the
\* terminal's queries whenever anybody is attached, and only a client that is
\* shown decides the size.
RolesHeld ==
    /\ focused # NoClient => focused \in Visible(sizes)
    /\ IF Attached = {} THEN responder = NoClient ELSE responder \in Attached

\* Unless the pty refused, the size fits: it is the focused client's, or none
\* of those shown has to scroll; and everybody was told the roles.
FitsThoseShown ==
    ~refused =>
        /\ published.focused = focused /\ published.responder = responder
        /\ IF focused # NoClient THEN published.size = sizes[focused]
           ELSE \A c \in Visible(sizes) :
                    /\ published.size.cols <= sizes[c].cols
                    /\ published.size.rows <= sizes[c].rows

ViewportsAgree == GridAgrees /\ RolesHeld /\ FitsThoseShown
=============================================================================
