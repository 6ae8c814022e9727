----------------------------- MODULE MCWebPages -----------------------------
(***************************************************************************)
(* Model checking of the pages of the web interface.  A list has two       *)
(* filters and two pages; four events let the user type twice, follow a    *)
(* link and come back.  The home page has a portlet in each of two         *)
(* columns; the dashboard has two portlets in the first of its three       *)
(* columns, as it puts two in each.  Lists and portlets share nothing, so  *)
(* the two are searched one beside the other.                              *)
(***************************************************************************)
EXTENDS AjaxFilter, Portlets

VARIABLE part

PageColumns == <<"col1", "col2", "col3">>
PageLayout ==
    [home      |-> [col1 |-> <<"users">>, col2 |-> <<"groups">>],
     dashboard |-> [col1 |-> <<"general", "space">>, col2 |-> <<>>, col3 |-> <<>>]]

MCInit == Init /\ PortletsInit /\ part \in {"lists", "portlets"}

MCNext ==
    /\ \/ part = "lists" /\ Next /\ UNCHANGED portletVars
       \/ part = "portlets" /\ PortletsNext /\ UNCHANGED vars
    /\ UNCHANGED part

MCSpec == MCInit /\ [][MCNext]_<<vars, portletVars, part>> /\ Fairness
=============================================================================
