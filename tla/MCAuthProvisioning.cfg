CONSTANTS Authenticators = {"externalldap", "baseldap"}
  Provisioners = {"externalldap provisioner", "groups", "inventory"}
  AuthMethod <- Chosen
  ProvMethod <- Chain
  Mandatory = {"baseldap", "groups"}
  MaxLogins = 1
SPECIFICATION ChainsSpec
INVARIANTS ExcludedAreNotAsked
CHECK_DEADLOCK FALSE
