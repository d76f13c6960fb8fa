SPECIFICATION FairSpec
CONSTANTS
  KeyPolls = 2
  Hosts = 2
CONSTRAINTS Apart Running OneAstray
INVARIANTS Informed
 
