\* Clients of three versions come and go, the administrator changes settings
\* and limits, and one client is followed.
SPECIFICATION Spec
CONSTANTS
  MaxClients = 3
  Followed = {1}
  Top = 3
  ClientTops = {1, 2, 3}
  ItemList <- BothItems
  Introduced <- FirstVersions
  BehaviorOf <- Behaviors
  Values = {0, 1, 2}
  MinVersions = {0, 2}
  MaxVersions = {0}
  MaxUndelivered = 1
INVARIANTS CurrentSupportedUnlessKicked BlockedClientsStayOut RevertedOnlyForOldClients ClientsAgreeOnSettings
