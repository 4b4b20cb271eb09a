\* A network whose manager is not the coordinator.
SPECIFICATION FormatsSpec
CONSTANTS
  Coordinator <- MCCoordinator
  Eui64s <- MCEui64s
  ShortAddress <- MCShortAddress
  Managers <- MCManagers
  LinkKeys <- MCLinkKeys
  Partners <- MCPartners
INVARIANT ManagerComesBack
CHECK_DEADLOCK FALSE
