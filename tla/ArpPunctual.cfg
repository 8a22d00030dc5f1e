SPECIFICATION CacheSpec
CONSTANTS
  NET_ARP_CACHE_SIZE = 3
  Neighbours = {h1, h2, h3, h4}
  NoNeighbour = NoNeighbour
  MaxCount = 15
  MaxLookups = 1
  Late = FALSE
INVARIANTS
  CacheTypeOK
  Truthful
