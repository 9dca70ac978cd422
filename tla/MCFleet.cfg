SPECIFICATION FleetSpec
CONSTANTS
  Nodes = {"a", "b"}
  Jobs = {"small", "big", "tagged"}
  Total = 2
  Need <- OneOrTwo
  Tags <- TwoTagged
  Home <- Homes
  Named = {"big"}
  Lease = 1
  Hardware <- FiveNodes
  Cards <- FourCards
  Mixes <- TwoMixes
INVARIANTS WithinMemory AllocationComplete DomainsSpread SecondaryFits
PROPERTIES RoomComesBack
