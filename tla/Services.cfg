CONSTANTS
  Offered = {"CREATE_RESERVATION_REQUEST", "CREATE_CONVERSATION_SHARE_LINK", "REVOKE_SHARE_LINK"}
  MaxProposals = 2
  Nil = Nil
  Chats = {s1, s2}
  Events = {e1}
  MaxLoads = 2
  Void = Void
  Units = {u1, u2}
  Places = {a}
  Amounts = {1}
  Budgets = {5, 6}
  Areas = {"Zayed"}
  SearchCall = "PROPERTY_SEARCH"
  MediaCall = "GET_MEDIA"
  None = None
  Homes = {u1}
  BothWays = {u1}
  Numbers = {f1}
  Turns = {t1, t2}
  WebLeads = {l1}
  Alerts = {n1}
  MaxMessages = 2
  Absent = Absent
  Zones <- MC_Zones
  Nows <- MC_Nows
  Clocks = {0, 1, 5, 12, 13, 23, 24}
  Unsaid = Unsaid
  Constraints = {"BUDGET", "PROPERTY_TYPE", "BEDROOMS"}
  Extractions = {{}, {"BUDGET", "PROPERTY_TYPE"}}
  ModelOps <- MC_ModelOps
  Unset = Unset
  Nothing = Nothing
  MaxTurns = 3
  MaxRequirements = 2
  u1 = u1
  p1 = p1
  p2 = p2
  h1 = h1
  b1 = b1
  a1 = a1
  a2 = a2
  q1 = q1
  k1 = k1
  k2 = k2
  w1 = w1
  w2 = w2
  c1 = c1
  c2 = c2
  l1 = l1
  f1 = f1
  x1 = x1
  t1 = t1
  t2 = t2
  n1 = n1
  r1 = r1
  s1 = s1
  s2 = s2
  e1 = e1
  Callers = {w1, w2}
  Ttl = 1
  Stale = 2
  Timeout = 1
  MaxTime = 5
  NoQuote = NoQuote
  Projects = {p1, p2}
  Phases = {h1}
  Buildings = {b1}
  Inventory = {u1}
  Admins = {a1, a2}
  Null = Null
  MaxRequests = 7
  Texts = {k1, k2}
  Items = {1, 2, 3}
  Readings <- MC_Readings
  Editors = {a1, a2}
  MaxEdits = 3
  Blank = Blank
  Images = {1, 2}
  PaymentPlans = {1}
  Gates = {1, 2}
  MinImages = 1
  Keys = {k1, k2}
  Clients = {w1, w2}
  Customers = {c1, c2}
  Leads = {l1}
  PhoneNumbers = {f1}
  Channels = {x1}
  Empty = Empty
  Requests <- MC_Requests
  Listings = {1, 2}
  ProjectOf <- MC_ProjectOf
  TwoBaths = {1}
  Prices = {1, 2}
  Ceilings = {1}
  Named = {"p1"}
  Readers = {q1}
  Limit = 1
  CacheTtl = 1
  MaxEntries = 2
  MaxWrites = 2
  Anything = Anything
  Terms <- MC_Terms
  UnitPrices = {12000, 24000}
  Wishes <- MC_Wishes
  MaxChanges = 1
  NoTerm = NoTerm
  Enquiries = {r1}
  FastModel = "20b"
  StandardModel = "120b"
  BackupModel = "20b"
  LastResortModel = "20b"
  MaxTokens = 7
SPECIFICATION ServicesSpec
INVARIANTS TypesOK   
   InsideProject Applied 
  OneVoice ExplicitStands ScreenStands ContentStands NothingClaimedUndone
  RatesAreCurrent DueAsAsked WordsDecide
PROPERTIES CacheConverges VerdictStands
CHECK_DEADLOCK FALSE
