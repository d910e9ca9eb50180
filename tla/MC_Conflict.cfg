SPECIFICATION Spec
CONSTANTS
  Scenarios = {"combat", "supply", "foreign", "births", "ecology", "attrition", "peace", "spoilers"}
  Localities = {"north", "south"}
  Persons = {1, 2}
  Residence <- MCResidence
  Community <- MCCommunity
  SupplyDays = 1
  SourceCapacity = 1
  MaxOrganizations = 5
  MaxManpower = 2
  MaxFormations = 4
  MaxWealth = 2
  Costs = {1}
  MaxOrders = 2
  MaxShipments = 2
  ForeignStates <- MCStates
  Border <- MCBorder
  Expedition <- MCExpedition
  Funds = {0, 1}
  Materiel = {0, 1}
  MaxInterventions = 2
  Cohorts = 1
  TargetPersonnel = 2
  MinimumPersonnel = 1
  Contributions = {0, 1}
  MaxAgreements = 2
INVARIANTS AccountsBalance OneUnderWay NothingOrphaned MembershipReciprocal SettlementsStand
PROPERTIES WithdrawalIsFinal OrdersEnd
