\* Two requests at a time, four in all, on two administrators and a newcomer.
CONSTANTS
  ada = ada
  bob = bob
  cyd = cyd
  adaMail = adaMail
  bobMail = bobMail
  cydMail = cydMail
  adaGoogle = adaGoogle
  cydGoogle = cydGoogle
  Workers = {w1, w2}
  Users = {ada, bob, cyd}
  Emails = {adaMail, bobMail, cydMail}
  TokenIds = {r1, r2, r3}
  ResetIds = {p1}
  StateIds = {s1, s2}
  Identities <- TwoIdentities
  InitialUsers <- TwoAdmins
  Changes <- TwoChanges
  MaxRequests = 4
  None = None
SYMMETRY Symmetry
SPECIFICATION Spec
CHECK_DEADLOCK FALSE
INVARIANTS
  AccountsTypeOK
  OneTokenPerFamily
  OldSessionsEnd
  GoogleEntersItsOwn
  SomebodyManagesUsers
  AuditAgrees
PROPERTIES
  DeadFamiliesStayDead
