SPECIFICATION CatalogueSpec
CONSTANTS
    Clients = {c1}
    Reviews = {r1}
    None = None
    Ids = {"p1", "p2"}
    Products = {a}
    Workers = {w1, w2}
    At <- MCAt
    Prices = {1, 2}
    Listings <- MCListings
    Own = Own
    MaxDisturbances = 1
INVARIANTS CatalogueTypeOK
PROPERTIES CatalogueConverges OrdersGoThrough
CHECK_DEADLOCK FALSE
