SPECIFICATION Spec
CONSTANTS
  h1 = h1
  h2 = h2
  h3 = h3
  g = g
  gp = gp
  x0 = x0
  x1 = x1
  xp = xp
  Hash = {h1, h2, h3}
  Genesis <- MCGenesis
  Stray <- MCStray
  Miner = {"auto_miner"}
  Importer = {"chain_manager"}
  Deployments <- OneMinerDeployments
  OverflowChecks = FALSE
  MaxNumber = 3
  U64 = 16
INVARIANTS TypeOK Contiguous HashIndexExact MinerNeverRefused ExtendTipIsOwn
PROPERTY ImplementsChain
