SPECIFICATION Spec
CONSTANTS
  Null = Null
  root = root
  ann = ann
  n1 = n1
  n2 = n2
  t1 = t1
  t2 = t2
  slug = slug
  code = code
  code2 = code2
  a = a
  b = b
  c = c
  d = d
  Calls = {1, 2, 3, 4, 5, 6, 7, 8}
  Emails = {root, ann}
  Usernames = {n1, n2}
  Superadmins = {root}
  Titles = {t1, t2}
  Slugs = {slug}
  JoinCodes = {code, code2}
  Letters = {"A", "B"}
  Countries = {a, b, c, d}
  SlugOf <- McSlugOf
  FullName <- McFullName
  Scripts <- McScripts
INVARIANTS TypeOK LoginsAgree EntriesAreJoined OwnersAreIn ContestsAreWhole
PROPERTIES OnlyOwnersDelete BoardsShowWhatWasChecked
