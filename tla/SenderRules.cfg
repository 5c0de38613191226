SPECIFICATION MCSpec
CONSTANTS
  m1 = m1
  s1 = s1
  c1 = c1
  c2 = c2
  c3 = c3
  Messages = {m1}
  Senders = {s1}
  SenderOf <- OneSender
  Changes = {c1, c2, c3}
  About <- OneRule
  Boxes = {Imbox, Feed}
  Imbox = Imbox
  Feed = Feed
  Screener = Screener
  NoBox = NoBox
  NoChange = NoChange
  x = x
  y = y
  photoX = photoX
  photoY = photoY
  photoYX = photoYX
  Addresses = {x, y}
  Accessible = {x, y}
  Photos = {photoX, photoY, photoYX}
  NoPhoto = NoPhoto
  Files <- MCFiles
  Editors = {e1, e2}
  Photographers = {u1, u2, web}
  ThePage = web
  MaxContacts = 3
  MaxPhotos = 3
SYMMETRY Requests
INVARIANT FollowsRule
INVARIANT CardIsWhole
INVARIANT AvatarIsKept
CHECK_DEADLOCK FALSE
