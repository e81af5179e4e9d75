\* Two users share a browser: three sign-ins, a sign-out and two submissions.
CONSTANTS
    alice = alice
    bob = bob
    NoUser = NoUser
    Placeholder = Placeholder
    Users <- TwoUsers
    MaxLogins = 3
    MaxLogouts = 1
    MaxPosts = 2
SPECIFICATION Spec
SYMMETRY UserSymmetry
INVARIANTS
    TypeOK
    PageIsTheSessions
    SignInMatchesCookie
    FlashWillFade
CHECK_DEADLOCK FALSE
