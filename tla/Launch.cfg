SPECIFICATION LaunchFairSpec
CONSTANTS
    Terminals = {t1, t2, t3}
    Usernames = {"admin", "Admin", "bob"}
    Passwords = {"admin123", "pw"}
    Collate <- MCCollate
    MaxId <- MCMaxId
    Registrations <- MCRegistrations
INVARIANTS
    SchemaReady
    AdminSeat
    NothingMissing
PROPERTIES
    ImplementsApp
    StartUpSucceeds
