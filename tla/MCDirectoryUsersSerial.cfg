CONSTANTS Uids = {ann, bob} Groups = {staff, guests} Workers = {w1} NoDN = NoDN
  MaxCalls = 5 Faults = {"ldap", "policy", "home", "copy"}
SPECIFICATION Spec
INVARIANTS PrimaryGroupExists UniqueNumbers SuccessMeansPrimary RemovedFromAll
CHECK_DEADLOCK FALSE
