CONSTANTS
  None = None
  FaultKinds = {"sweep", "mapcrash", "savecrash", "charlink", "savelink"}
  MaxVersion = 2
  MaxQueue = 2
  MaxFaults = 1
SPECIFICATION Spec
INVARIANTS
  TypeOK
  LogoutSaveStands
PROPERTIES
  LoginSeesLogout
  SaveNeverUndoesSession
