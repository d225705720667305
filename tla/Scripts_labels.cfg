SPECIFICATION Spec
CONSTANTS
  Stacks = {"axum", "actix", "gin", "bun", "node"}
  Scenarios = {"quote", "checkout", "summary"}
  SIDS <- MCSIDS
  N_CUSTOMERS = 2
  N_PRODUCTS = 2
  N_WAREHOUSES = 2
  N_ORDERS = 2
  N_COUPONS = 1
  CATEGORIES <- MCCategories
  REGIONS <- MCRegions
  SAMPLED = 2
  SPECIALS = 1
  Price <- MCPrice
  None = None
  Inputs <- MCLabels
INVARIANTS
  LabelsSpread
