\* Two extensions, one of whose prefixes matches the tables of the other; four calls.
SPECIFICATION RegistrySpec
CONSTANTS
    crm1x = crm1x
    crm_x = crm_x
    ext_crm1x_ = ext_crm1x_
    ext_crm_x_ = ext_crm_x_
    ext_crm_ = ext_crm_
    crm_ = crm_
    orders = orders
    x_orders = x_orders
    ext_crm1x_orders = ext_crm1x_orders
    ext_crm1x_x_orders = ext_crm1x_x_orders
    ext_crm_x_orders = ext_crm_x_orders
    ext_crm_x_x_orders = ext_crm_x_x_orders
    ext_crm_orders = ext_crm_orders
    crm_orders = crm_orders
    crm_x_orders = crm_x_orders
    Name = {crm1x, crm_x}
    Prefix = {ext_crm1x_, ext_crm_x_, ext_crm_, crm_}
    Reserved = {ext_crm1x_, ext_crm_x_, ext_crm_}
    Default <- MCDefault
    Short = {orders, x_orders}
    Table = {ext_crm1x_orders, ext_crm1x_x_orders, ext_crm_x_orders, ext_crm_x_x_orders, ext_crm_orders,
             crm_orders, crm_x_orders}
    Full <- MCFull
    Like <- MCLike
    PageLike <- MCPageLike
    Policy <- MCPolicy
    Seeded = {crm1x}
    Declared <- MCDeclared
    Columns <- MCColumns
    SeedColumns <- Keyed
    Calls = {c1, c2, c3, c4}
    Nil = Nil
SYMMETRY CallSymmetry
INVARIANTS RegistryTypeOK RoleMatchesRow LeftoversAreStray DeclaredStays RowsAreOwn
\* The calls run out.
CHECK_DEADLOCK FALSE
