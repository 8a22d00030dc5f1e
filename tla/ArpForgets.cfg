SPECIFICATION CacheSpec
CONSTANTS
  NET_ARP_CACHE_SIZE = 3
  Neighbours = {h1, h2, h3}
  NoNeighbour = NoNeighbour
  MaxCount = 7
  MaxLookups = 1
  Late = FALSE
PROPERTIES
  KeepsWhileRoom
