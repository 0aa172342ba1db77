\* Three requests over two users, beside two sessions or none.
\* The system rests when every request has ended.
CONSTANTS
  Users = {"root", "user"}
  Root = "root"
  MaxRequests = 3
  MaxAdmin = 2
  MaxSessions = 3
  MaxTokens = 4
  Aging = {1}
SPECIFICATION AuthSpec
CHECK_DEADLOCK FALSE
INVARIANTS LiveSessionIsCurrent FamilyNeverForks AdministratorRemains NoStandstill
PROPERTY NoLostPassword
