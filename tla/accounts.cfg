SPECIFICATION Spec
CONSTANTS
    Registration = {r1, r2, r3}
    r1 = r1
    Creation = {w1, w2}
    Typed = {"Ali", "ali", "bo"}
    Canon <- MCCanon
    acme = acme
    Word = {acme, 1}
    OrgName <- MCOrgName
    Owner <- MCOwner
    Named <- MCNamed
    General = "general"
    MaxSuffix = 1
INVARIANTS OneAccountEach FailsOnlyInARace
PROPERTIES RegistrationsEnd
CHECK_DEADLOCK FALSE
