SPECIFICATION Spec
CONSTANTS
  Product <- MCProduct
  Rules <- MCRules
  RuleOrders <- MCOrders
  Taxes <- MCTaxes
  Requests <- MCRequests
  None = None
INVARIANTS
  EnginesAgree
  AmountsWhateverTheOrder
  InvoiceAddsUp
