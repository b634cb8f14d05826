CONSTANTS
    shop = shop  store = store  phone1 = phone1  phone2 = phone2
    r1 = r1  r2 = r2  r3 = r3
    Names = {shop, store}
    Instances = {phone1, phone2}
    Runs = {r1, r2}
    MixedUp = {}
    LegacyOn <- MCLegacyOn
    NoTenant = NoTenant
    NoSecret = NoSecret
SPECIFICATION Spec
CHECK_DEADLOCK FALSE
SYMMETRY Symmetry
PROPERTIES RerunRecovers
