\* Requests of different browsers and calls of admin.py overlap freely, files
\* and commands fail, and everything that was started comes to an end.
CONSTANTS
  Null = Null  Undef = Undef
  Names = {ann}  ann = ann
  Passwords = {p1}  p1 = p1
  Mails = {m1}  m1 = m1
  Browsers = {b1, b2}  b1 = b1  b2 = b2
  Slots = {s1, s2}  s1 = s1  s2 = s2
  Glob <- PlainGlob
  Kinds = {"login", "secure", "logout", "update_mail", "update_password", "create_user", "verify", "verify_mail", "show_mail", "reset_password", "new_password", "set_password"}
  AdminOps = {"-c", "-p"}
  Faults = {"write", "admin"}
  Overlap = "browser"
  Start = {"absent", "confirmed"}
  Epoch = 5  MaxTime = 0  Window = 1  AdminDiv = 3
  MaxRequests = 2  MaxCommands = 1
SPECIFICATION FairSpec
INVARIANTS TypeOK SaltedByOwner CallbackMatched
PROPERTIES SessionByOwnRequest AddressChangeUnconfirms EveryRequestAnswered
