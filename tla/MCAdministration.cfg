SPECIFICATION OfficeSpec
CONSTANTS
    Account = {a1, a2}
    Client = {c1}
    Vendor = {v1}
    Member = {m1, m2}
    User = {s, p}
    Staff = {s}
    Role = {"analyst", "account_viewer", "account_admin"}
    Invited = {p}
    Slot = {q1, q2}
    MaxChanges = 2
    Nil = Nil
    Row = {1, 2, 3}
    Stamp <- MCStamp
    PageLimit = 1
    Load = {l1, l2}
    Setting = {"viewer", "admin"}
    MaxEdits = 2
    NoCursor = NoCursor
    b1 = b1
    b2 = b2
    k1 = k1
    k2 = k2
    RateClient = {b1, b2}
    ContractVersion = {k1, k2}
    VersionOwner <- MCVersionOwner
    Rate = {ra, rb}
    Amount = {lo}
    RateLoad = {o1, o2}
    MaxRateEdits = 2
    Nothing = Nothing
    MaxClients = 2
    StVendor = {w1}
    StUser = {u1}
    StFile = {x1, x2}
    MaxStEdits = 1
    NoScope = NoScope
    MaxCommits = 3
    MaxMigrateRetries = 1
    PollRetries = 2
    MaxDispatches = 1
    NoCommit = NoCommit
SYMMETRY Symm
INVARIANTS ScopeChainConsistent CurrentRoleIsExplained WalkIsComplete RatesStayWithTheirTenant RowsStayWithTheirClient CodeNeverAheadOfSchema
PROPERTIES LastGoodOnlyAdvances PortalLeavesStaffRolesSerially
CHECK_DEADLOCK FALSE
