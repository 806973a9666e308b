\* Two people click their confirmation links at the same time.
CONSTANTS
  Null = Null  Undef = Undef
  Names = {ann, bob}  ann = ann  bob = bob
  Passwords = {p1}  p1 = p1
  Mails = {m1}  m1 = m1
  Browsers = {b1, b2}  b1 = b1  b2 = b2
  Slots = {s1, s2}  s1 = s1  s2 = s2
  Glob <- PlainGlob
  Kinds = {"verify"}
  AdminOps = {}
  Faults = {}
  Overlap = "browser"
  Start = {"pending"}
  Epoch = 5  MaxTime = 0  Window = 1  AdminDiv = 3
  MaxRequests = 2  MaxCommands = 0
SPECIFICATION Spec
PROPERTY LinkActsOnItsUser
