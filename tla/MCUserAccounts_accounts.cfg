SPECIFICATION Spec
CONSTANTS
    c1 = c1
    c2 = c2
    upper = upper
    lower = lower
    other = other
    p1 = p1
    p2 = p2
    n1 = n1
    n2 = n2
    new = new
    NoName = NoName
    NoPassword = NoPassword
    NoRequest = NoRequest
    NoUser = 0
    NotFound <- MinusOne
    Clients <- TwoClients
    Names <- ThreeNames
    LowerCase <- ToLower
    ValidNames <- Variants
    Passwords <- TwoPasswords
    LongPasswords <- OnePassword
    Nicknames <- TwoNicknames
    ShortNicknames <- OneNickname
    DefaultNickname = new
    MaxAccounts = 2
    MayRestart = TRUE
SYMMETRY Symmetry
INVARIANTS
    TypeOK
    OneAccountPerName
    RegisteredCanLogin
    
