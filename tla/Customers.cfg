\* Four requests with sessions; two tills or visitors; two edits of a list.
CONSTANTS
  None = None
  Keep = Keep
  o1 = o1
  o2 = o2
  c1 = c1
  c2 = c2
  m1 = m1
  m2 = m2
  t1 = t1
  t2 = t2
  male = male
  female = female
  Requests = {r1, r2, r3, r4}
  Emails = {e1}
  Passwords = {p1, p2}
  MaxEdits = 2
  Stores = {o1, o2}
  People = {c1, c2}
  Msgs = {m1, m2}
  Store <- TwoStores
  Recipient <- OneRecipient
  Welcome = {m2}
  Stickers = {t1, t2}
  TagStore <- OneTagStore
  Campaign = {t2}
  Tills = {s1, s2}
  MaxChanges = 2
  Genders = {}
  Persons <- Some
  Bounds = {24}
  Edits = {x1, x2}
  MaxPersons = 1
  AllGenders = {male, female}
  AllPersons <- Everyone
  AllBounds = {18, 24}
SPECIFICATION CustomersSpec
SYMMETRY Alike
CHECK_DEADLOCK FALSE
INVARIANTS LogoutStands SessionStands ProfileIsFresh OffersAreKept AudienceAgrees
PROPERTY SyncExact
