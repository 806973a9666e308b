\* Requests and calls of admin.py are served one by one.
CONSTANTS
  Null = Null  Undef = Undef
  Names = {ann, bob}  ann = ann  bob = bob
  Passwords = {p1}  p1 = p1
  Mails = {m1, m2}  m1 = m1  m2 = m2
  Browsers = {b1}  b1 = b1
  Slots = {s1}  s1 = s1
  Glob <- PlainGlob
  Kinds = {"login", "update_mail", "verify", "verify_mail", "show_mail", "reset_password", "new_password"}
  AdminOps = {"-c", "-m", "-d"}
  Faults = {}
  Overlap = "none"
  Start = {"absent", "confirmed"}
  Epoch = 5  MaxTime = 1  Window = 1  AdminDiv = 3
  MaxRequests = 3  MaxCommands = 1
SPECIFICATION Spec
INVARIANT PendingCanConfirm
PROPERTIES LinkActsOnItsUser LinkSingleUse ImplementsLifecycle
SYMMETRY Symmetry
