SPECIFICATION CatalogueSpec
CONSTANTS
    Clients = {}
    Reviews = {}
    None = None
    Ids = {"p1", "p2"}
    Products = {a}
    Workers = {w1, w2}
    At <- MCAt
    Prices = {1, 2}
    Listings <- MCListings
    Own = Own
    MaxDisturbances = 1
PROPERTIES ListedStaysActive
