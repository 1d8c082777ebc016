SPECIFICATION Spec
CONSTANTS
    Clients = {c1, c2}
    Workers = {w1}
    Stories = {1, 2}
    Langs = {"en", "fr"}
    Queries <- MCQueries
    SlugOf <- MCSlugOf
    Matches <- MCMatches
    Requests <- PageRequests
SYMMETRY ClientSymmetry
INVARIANTS
    TypeOK
    OnlyLateFillsMiss
