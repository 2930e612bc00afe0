SPECIFICATION Spec
CONSTANTS
    ana = ana
    bea = bea
    c1 = c1
    c2 = c2
    bad = bad
    NoOne = NoOne
    NoValue = NoValue
    Citizens <- MCCitizens
    Blinded <- MCBlinded
    Unsignable <- MCUnsignable
    Roll <- MCRoll
    Signed <- MCSigned
    Malformed <- MCMalformed
    Qualified <- MCQualified
    OpenEnrolment = TRUE
    MaxAudit = 4
PROPERTY
    AuditShowsDisclosure
