---------------------------- MODULE MCExtRegistry -----------------------------
(* ExtRegistry for TLC.  *)
EXTENDS ExtRegistry, TLC

CONSTANTS crm1x, crm_x, ext_crm1x_, ext_crm_x_, ext_crm_, crm_, orders, x_orders,
          ext_crm1x_orders, ext_crm1x_x_orders, ext_crm_x_orders, ext_crm_x_x_orders,
          ext_crm_orders, crm_orders, crm_x_orders

\* ext_crm1x_ and ext_crm_x_ are the default prefixes of crm1x and crm_x, ext_crm_
\* and crm_ are custom ones, and crm_ is not reserved.
MCDefault == crm1x :> ext_crm1x_ @@ crm_x :> ext_crm_x_

\* The names ext_crm_ and x_orders spell is that of ext_crm_x_ and orders.
MCFull ==
    [x \in Prefix \X Short |->
        CASE x[1] = ext_crm1x_ -> IF x[2] = orders THEN ext_crm1x_orders ELSE ext_crm1x_x_orders
          [] x[1] = ext_crm_x_ -> IF x[2] = orders THEN ext_crm_x_orders ELSE ext_crm_x_x_orders
          [] x[1] = ext_crm_ -> IF x[2] = orders THEN ext_crm_orders ELSE ext_crm_x_orders
          [] x[1] = crm_ -> IF x[2] = orders THEN crm_orders ELSE crm_x_orders]

\* The pattern of crm_x matches the tables of crm1x, in which the "1" stands for
\* its second "_"; that of ext_crm_ matches every table whose name starts so.
MCLike ==
    LET one == {ext_crm1x_orders, ext_crm1x_x_orders}
        two == {ext_crm_x_orders, ext_crm_x_x_orders}
    IN  ext_crm1x_ :> one @@
        ext_crm_x_ :> one \cup two @@
        ext_crm_ :> one \cup two \cup {ext_crm_orders} @@
        crm_ :> {crm_orders, crm_x_orders}

\* The pattern of crm_x matches the pages of crm1x too.
MCPageLike == crm1x :> {crm1x} @@ crm_x :> {crm1x, crm_x}

MCPolicy == {{}, {"can_subscribe_events"}}

Column(name, type, key, refs) == [name |-> name, type |-> type, key |-> key, refs |-> refs]

Keyed == <<Column("id", "int", TRUE, "none")>>

\* Two lists that are accepted and one of each kind that is not.
MCColumns ==
    {Keyed, Keyed \o <<Column("page", "text", FALSE, "formed")>>,
     <<>>, Keyed \o Keyed, Keyed \o <<Column("page", "text", TRUE, "none")>>,
     <<Column("id", "money", TRUE, "none")>>, <<Column("page", "text", FALSE, "free")>>}

MCDeclared == crm1x :> {orders}

CallSymmetry == Permutations(Calls)
=============================================================================
