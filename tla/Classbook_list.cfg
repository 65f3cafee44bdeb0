SPECIFICATION ClassbookFairSpec
CONSTANTS
  u1 = u1
  en = en
  ru = ru
  x = x
  y = y
  Uuids <- TheUuids
  English = en
  Langs <- TheLangs
  Texts <- TheTexts
  PathRounds = 3
  MaxArticles = 3
  MaxLocals = 2
  MaxProposals = 1
  MaxRequests = 3
PROPERTIES
  ListingEnds
CHECK_DEADLOCK FALSE
