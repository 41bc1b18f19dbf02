SPECIFICATION MSpec
CONSTANTS
  Name <- Names3
  Password <- Passwords2
  Empty = ""
  Stored <- AllStored
  DefaultMax = 2
  CommandLines <- CommandLines2
  Limits = {0, 1, 3}
  Session = {s1}
  Kept <- KeptNames
  Missing = Missing
  Number <- Numbers
PROPERTY StatusRepliesTrue
