------------------------------ MODULE Portlets ------------------------------
(***************************************************************************)
(* The pages made of portlets in columns (web/jsframework/portlet.js): the *)
(* home page and the dashboard.  The user drags portlets from column to    *)
(* column and closes them; the arrangement is kept in cookies, one for     *)
(* each column, and restored when a page is displayed again.  The cookies  *)
(* are named after the columns, and both pages have a column "col1".       *)
(*                                                                         *)
(* The portlets of the home page come with it.  Those of the dashboard are *)
(* asked of the server (class AjaxPage), again and again: each answer      *)
(* replaces the whole portlet.                                             *)
(***************************************************************************)
EXTENDS Integers, Sequences, SequencesExt, FiniteSets

CONSTANTS
    Pages,
    Columns,  \* the columns of the pages, in their order
    Layout,   \* of each page: the portlets of its columns, as the server sends it
    Fetched,  \* the pages whose portlets are asked of the server
    NoPage

HasColumn(p, c) == c \in DOMAIN Layout[p]
PortletsOf(p) == UNION {ToSet(Layout[p][c]) : c \in DOMAIN Layout[p]}

ASSUME LayoutAssumption ==
    /\ NoPage \notin Pages /\ Fetched \subseteq Pages
    /\ Columns \in Seq(ToSet(Columns)) /\ IsInjective(Columns)
    /\ \A p \in Pages :
          /\ DOMAIN Layout[p] \subseteq ToSet(Columns)
          /\ Layout[p] \in [DOMAIN Layout[p] -> Seq(PortletsOf(p))]
          /\ \A c \in DOMAIN Layout[p] : IsInjective(Layout[p][c])
          /\ \A c, d \in DOMAIN Layout[p] :
                c # d => ToSet(Layout[p][c]) \cap ToSet(Layout[p][d]) = {}

VARIABLES
    page,     \* the page displayed
    ready,    \* its ready handler has run
    columns,  \* the portlets of each of its columns
    loaded,   \* the portlets that have a header and a content
    visible,  \* those whose content is visible
    icon,     \* of each portlet, the icon of its header
    cookie,   \* of each column: the portlets saved, with their visibility
    kept      \* ghost: the arrangement that was saved last, and by which page

NotSaved == <<>>
NothingKept == [by |-> NoPage, columns |-> <<>>, hidden |-> {}]

shape == <<columns, loaded, visible, icon>>
portletVars == <<page, ready, shape, cookie, kept>>
-----------------------------------------------------------------------------
PortletsInit ==
    /\ page = NoPage /\ ready = FALSE
    /\ columns = <<>> /\ loaded = {} /\ visible = {} /\ icon = <<>>
    /\ cookie = [c \in ToSet(Columns) |-> NotSaved]
    /\ kept = NothingKept

\* The page as the server sends it.
Displays(p) ==
    /\ page' = p /\ ready' = FALSE
    /\ columns' = Layout[p]
    /\ loaded' = IF p \in Fetched THEN {} ELSE PortletsOf(p)
    /\ visible' = loaded'
    /\ icon' = [q \in PortletsOf(p) |-> "none"]
    /\ UNCHANGED <<cookie, kept>>

\* The success callback of AjaxPage: a new content, which is visible, and a
\* new header, which has no icon.
Loads(q) ==
    /\ page \in Fetched /\ q \in PortletsOf(page)
    /\ loaded' = loaded \cup {q} /\ visible' = visible \cup {q}
    /\ icon' = [icon EXCEPT ![q] = "none"]
    /\ UNCHANGED <<page, ready, columns, cookie, kept>>

\* saveOrder: the cookies of all the columns of the page.  A portlet that has
\* not been loaded has no content, and none that is visible.
SaveOrder(cols, vis) ==
    /\ cookie' = [c \in DOMAIN cookie |->
            IF HasColumn(page, c)
            THEN [i \in DOMAIN cols[c] |-> [id |-> cols[c][i], visible |-> cols[c][i] \in vis]]
            ELSE cookie[c]]
    /\ kept' = [by |-> page, columns |-> cols, hidden |-> PortletsOf(page) \ vis]

TakenOut(cols, q) == [c \in DOMAIN cols |-> RemoveFirst(cols[c], q)]

AppendedTo_Prepending(cols, q, c) == [TakenOut(cols, q) EXCEPT ![c] = <<q>> \o @]

\* appendTo: the portlet leaves its column for the end of c.
AppendedTo(cols, q, c) == [TakenOut(cols, q) EXCEPT ![c] = Append(@, q)]

\* The entries of a cookie, one after the other; those that name a portlet of
\* the page bring it to the column.
RestoredColumn(cols, c) ==
    LET upTo[i \in 0..Len(cookie[c])] ==
            IF i = 0 THEN cols
            ELSE IF cookie[c][i].id \in PortletsOf(page)
            THEN AppendedTo(upTo[i - 1], cookie[c][i].id, c)
            ELSE upTo[i - 1]
    IN  upTo[Len(cookie[c])]

\* restoreOrder: the columns of the page, one after the other.
Restored ==
    LET upTo[n \in 0..Len(Columns)] ==
            IF n = 0 THEN columns
            ELSE IF HasColumn(page, Columns[n]) THEN RestoredColumn(upTo[n - 1], Columns[n])
            ELSE upTo[n - 1]
    IN  upTo[Len(Columns)]

Closed == {e.id : e \in {f \in UNION {ToSet(cookie[c]) : c \in DOMAIN Layout[page]} :
                            ~f.visible}}

IconAfter_AllOpen(q, closed) == IF q \in loaded THEN "minus" ELSE "none"

IconAfter(q, closed) ==
    IF q \notin loaded THEN "none" ELSE IF q \in closed THEN "plus" ELSE "minus"

\* The ready handler: an icon for what is loaded, then the saved arrangement.
Ready ==
    /\ page # NoPage /\ ~ready
    /\ ready' = TRUE
    /\ columns' = Restored
    /\ visible' = visible \ Closed
    /\ icon' = [q \in DOMAIN icon |-> IconAfter(q, Closed)]
    /\ UNCHANGED <<page, loaded, cookie, kept>>
-----------------------------------------------------------------------------
\* A portlet is dropped at place i of a column (stop of sortable).
Drags(q, c, i) ==
    /\ ready /\ q \in PortletsOf(page) /\ HasColumn(page, c)
    /\ i \in 1..Len(TakenOut(columns, q)[c]) + 1
    /\ columns' = [TakenOut(columns, q) EXCEPT ![c] = InsertAt(@, i, q)]
    /\ SaveOrder(columns', visible)
    /\ UNCHANGED <<page, ready, loaded, visible, icon>>

\* A click on the icon, which changes it and the content.
Toggles(q) ==
    /\ ready /\ q \in PortletsOf(page) /\ icon[q] # "none"
    /\ icon' = [icon EXCEPT ![q] = IF @ = "minus" THEN "plus" ELSE "minus"]
    /\ visible' = IF q \in visible THEN visible \ {q} ELSE visible \cup {q}
    /\ SaveOrder(columns, visible')
    /\ UNCHANGED <<page, ready, columns, loaded>>

\* The handle of a content is dragged; the widths are left out.
Resizes(q) ==
    /\ ready /\ q \in visible
    /\ SaveOrder(columns, visible)
    /\ UNCHANGED <<page, ready, shape>>

PortletsNext ==
    \/ \E p \in Pages : Displays(p)
    \/ Ready
    \/ page # NoPage /\ \E q \in PortletsOf(page) :
          \/ Loads(q) \/ Toggles(q) \/ Resizes(q)
          \/ \E c \in DOMAIN Layout[page], i \in 1..Cardinality(PortletsOf(page)) :
                Drags(q, c, i)

PortletsSpec == PortletsInit /\ [][PortletsNext]_portletVars
-----------------------------------------------------------------------------
(* A page that was the last to save finds its portlets where they were,    *)
(* and those that have arrived are closed if they were saved so            *)
(* (portlet.js:2-48).                                                      *)
RestoresOwn ==
    [][Ready /\ kept.by = page =>
         columns' = kept.columns /\ visible' = loaded \ kept.hidden]_portletVars

(* The icon of a portlet tells whether its content is visible, though each *)
(* is toggled by itself and contents are replaced (portlet.js:40-44, 70).  *)
IconsTell ==
    \A q \in DOMAIN icon : icon[q] # "none" => (icon[q] = "minus" <=> q \in visible)
=============================================================================
