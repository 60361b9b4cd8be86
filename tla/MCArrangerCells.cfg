SPECIFICATION Spec
CONSTANTS
  Names <- MCNames
  FirstWindows <- MCBegin
  RoleOf <- MCRoleOf
  Texts <- MCNoTexts
  Mixed = TRUE
  Hasty = FALSE
  MaxUses = 5
INVARIANTS
  AllHaveCells
CHECK_DEADLOCK FALSE
