SPECIFICATION OfficeSpec
CONSTANTS
    Clients = {c1, c2}
    Reviews = {r1, r2}
    None = None
    Commissions = {1, 2}
    Amount <- MCAmount
    CurrencyOf <- MCCurrencyOf
    Currencies = {"USD", "EUR"}
    Cent = 4
    Bodies <- MCBodies
    PayMethods = {"m1", "m2"}
    DefaultMethods = {"m1"}
    LegacyFallback = TRUE
    TargetBodies <- MCTargetBodies
    AppDocs <- MCAppDocs
    Editors = {e1, e2}
    Groups = {"g1"}
    Unread = Unread
    Legacy = {l1}
    Emails = {old, new}
    GoogleIds = {"id"}
    States = {"s", "s2"}
    Codes = {k1, k2}
    MaxRetries = 2
    Buyers = {b1}
    Foreign = {"SAR"}
    BillRates = {2, 4}
    FeedRates = {3}
    Workers = {w1, w2}
    UnitPrice = 1
    CreditLine = 4
    Transactional = TRUE
    OpeningWallets <- MCWallets
    Goods = {g1, g2}
    Uuids = {u1, u2}
    OrderIds = {i1, i2}
    Attempts = 2
    Checkouts = {b1}
    Quantities = {2}
    Suppliers = {"v1", "v2"}
    Stock = {"x1", "x2", "y"}
    OwnerOf <- MCOwnerOf
    Entries <- MCEntries
    OfferIds = {"o1", "o2"}
    OpeningOffers <- MCOpeningOffers
    OpeningSold <- MCOpeningSold
    OfferBodies <- MCOfferBodies
    MaxSyncs = 1
SYMMETRY OfficeSymmetry
INVARIANTS OfficeTypeOK  OneKeyOnePayout TargetOnce
    SlotMatchesRequest ResellerOnRecord EachOnce
    ChargedAsBilled IdsAreForGood SentAsRouted
PROPERTIES CodesAreForGood
CHECK_DEADLOCK FALSE
