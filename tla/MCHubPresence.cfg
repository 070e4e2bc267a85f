SPECIFICATION Spec
CONSTANTS
    phone = phone
    laptop = laptop
    ann = ann
    User = {ann}
    Conn <- MCConn
    Owner <- MCOwner
    Publisher = {p1}
    Buffer = 1
PROPERTY PresenceEnds
