\* Two tenants of one application; the second tenant's key may not delete.
SPECIFICATION FairSpec
CONSTANTS
    Keys <- MCKeys
    Tenants <- MCTenants
    TenantOf <- MCTenantOf
    ScopesOf <- MCScopesOf
    LifeOf <- MCLifeOf
    SessionIds = {s1}
    Requests <- MCRequests
    Asks <- MCAsks
    Names = {1, 2}
    UploadName = 2
    GrantLife = 1
INVARIANTS
    SweptMediaIsGone
    AccessStaysInTenant
PROPERTIES
    AccessEndsWithKey
