SPECIFICATION Spec
CONSTANTS
    t1 = t1
    t2 = t2
    None = None
    Tenants <- MCTenants
    Customers <- MCCustomers
    Keys = {k1, k2}
    Requests = {r1, r2}
    Connections = {c1, c2}
    MaxOwned = 2
    Sold = {"starter", "pro"}
    Named <- MCNamed
    Subscriptions = {s1, s2}
    MaxEvents = 3
CONSTRAINT FewEvents
SYMMETRY Symmetry
INVARIANTS
    TypeOK
    NoForeignRows
    PaidPlanHolds
PROPERTIES
    ConsoleStable
    NumbersWithinPlan
CHECK_DEADLOCK FALSE
