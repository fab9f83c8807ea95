\* A deactivation, a verification, a PATCH of the profile whose body holds a
\* password and isActive too, and a deletion of one user.
CONSTANTS
  Requests = {"deactivate", "verify", "profile", "delete"}
  Task <- TaskOfName
  Patch <- PatchOfName
SPECIFICATION Spec
INVARIANTS
  TypeOK
  AnsweredUpdateSurvives
  DeletedIsNotFound
