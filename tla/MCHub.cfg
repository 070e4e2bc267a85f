SPECIFICATION Spec
CONSTANTS
    phone = phone
    laptop = laptop
    ann = ann
    User = {ann}
    Conn <- MCConn
    Owner <- MCOwner
    Publisher = {p1, p2}
    Buffer = 2
INVARIANTS
    TypeOK
    NoSendOnClosed
    NobodyMissed
PROPERTIES
    PublisherReturns
    CleanedUp
