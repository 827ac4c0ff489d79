SPECIFICATION Spec
CONSTANTS
    c1 = c1
    c2 = c2
    master = master
    derived = derived
    fresh = fresh
    old = old
    new = new
    empty = empty
    None = None
    Clients = {c1, c2}
    Keys = {master, derived, fresh}
    Passphrases = {old, new, empty}
    NoPassphrase = empty
    Fresh = {fresh}
    Child <- MCChild
    Commands <- MCCommands
    MaxVersions <- MCMaxVersions
SYMMETRY Processes
INVARIANTS
    TypeOK
    OwnAddress
    NothingLeftBehind
    
PROPERTY Implements
