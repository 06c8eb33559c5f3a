SPECIFICATION FairSpec
CONSTANTS
  Callers = {c1, c2}
PROPERTIES
  ActionsNeedPermission
