CONSTANTS
  MaxHosts = 2
  MaxChanges = 2
  MaxCrash = 2
SPECIFICATION Spec
INVARIANTS
  ServesValidCerts
  RepairedUnlessKeyExisted
  KubeletTrustsServer
