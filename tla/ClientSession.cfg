SPECIFICATION Spec
CONSTANTS
    ann = ann
    bob = bob
    alias = alias
    Sender = {ann, bob}
    NoSender = NoSender
    Mails <- MCMails
    Invited <- MCInvited
    Host = {"chat", "tui", "web", "shell"}
    MaxEvents = 2
    MaxFaults = 1
INVARIANTS
    TypeOK
    
    
    
    ReportIsTrue
    CrashesAreNamed
PROPERTIES
    StreamStops
    
CHECK_DEADLOCK FALSE
