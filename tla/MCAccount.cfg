CONSTANTS
    Usernames = {"ops", "net", "Ops", "root", "users"}
    Valid = {"ops", "net", "root", "users"}
    System = {"root"}
    Groups = {"root", "users"}
    Passwords = {"first one", "new one", "short"}
    Acceptable = {"first one", "new one"}
    None = "none"
SPECIFICATION Spec
PROPERTIES
    SetupOnce
    NeedsCurrent
    ReplyIsTrue
