CONSTANTS N = 3 MaxScripts = 3 Serial = TRUE
  Faults <- Survivable
  Commands <- ScriptOnly
  Schema <- ThreeScripts MaxStarts = 3 MaxFaults = 2
  Authenticators = {"externalldap", "baseldap"}
  Provisioners = {"externalldap provisioner", "groups", "inventory"}
  AuthMethod <- Chosen
  ProvMethod <- Chain
  Mandatory = {"baseldap", "groups"}
  MaxLogins = 2
SPECIFICATION MCSpec
INVARIANTS PidFileNamesServer SingleInstance VersionIsTrue SuccessIsUpToDate
  ServesWithMandatory ChainDecides SuccessIsProvisioned
PROPERTIES SuccessMeansRunning FatherIsReleased LoginIsAnswered
CHECK_DEADLOCK FALSE
