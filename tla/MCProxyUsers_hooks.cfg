SPECIFICATION Spec
CONSTANTS
    Names = {n1}
    Passwords = {Blank, p1}
    Blank = Blank
    Hooks = {h1, h2, h3}
    NoHook = NoHook
    Sessions = {s1}
    RequireValidPassword = TRUE
    MaxUsers = 2
SYMMETRY Symmetry
INVARIANTS
    TypeOK
    SessionsSeeHooks
    
    
CHECK_DEADLOCK FALSE
