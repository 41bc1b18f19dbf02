SPECIFICATION MSpec
CONSTANTS
  Name <- Names3
  Password <- Passwords2
  Empty = ""
  Stored <- AllStored
  DefaultMax = 2
  CommandLines <- CommandLines2
  Limits = {0, 1, 3}
  Session = {s1, s2}
  Kept <- KeptNames
  Missing = Missing
  Number <- Numbers
VIEW Program
SYMMETRY Symmetry
INVARIANT MTypeOK
PROPERTIES ImplementsAccounts SessionsAreAdministrators RefusedChangesNothing RepliesTrue
