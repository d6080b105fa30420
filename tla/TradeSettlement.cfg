SPECIFICATION Spec
CONSTANTS
  U64Max <- MCU64Max
  MaxContributions = 3
  MaxInputs = 6
  MaxOutputs = 9
  MaxReservationInputs = 4
  MaxSettlementInputs = 6
  MaxSettlementOutputs = 9
  MaxPayload = 60
  Provider <- MCProvider
  Catalog <- MCCatalog
  Policy <- MCPolicy
  Wallet <- MCWallet
  Inventories <- MCInventories
  WalletCoins <- MCWalletCoins
  VenueCoins <- MCVenueCoins
  Intents <- MCIntents
  Prices <- MCPriceOptions
  Destinations <- MCDestinations
  NetworkFees <- MCNetworkFees
INVARIANTS PricesAreFair SelectionIsComplete RouteHonoursRequest AcceptedSettlementPaysProvider AcceptedSettlementsFinalize HonestTradesSettle
CHECK_DEADLOCK FALSE
