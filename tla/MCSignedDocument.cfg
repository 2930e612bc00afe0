SPECIFICATION Spec
CHECK_DEADLOCK FALSE
CONSTANTS
    alice = alice
    bob = bob
    p = p
    x = x
    root = root
    ca = ca
    l1 = l1
    l2 = l2
    k = k
    Roots = {root}
    Lists = {l1, l2}
    Authorities <- MCAuthorities
    Granted <- MCGranted
    SignerOf <- MCSignerOf
    MaxAccidents = 2
    None = None
    NoFile = NoFile
    Torn = Torn
    Spoilt = Spoilt
    Stopped = Stopped
    Payloads = {p, x}
    Drawable = {p}
    Holders = {alice, bob}
    Issuers = {root, ca}
    Signatures <- MCSignatures
    MaxParts = 5
    NotRead = NotRead
VIEW MCView
INVARIANTS
    OnlyWhatWasSigned
    SignedRequestStands
    TrustIsThePinned
    CheckSaysWhatLoadFinds
