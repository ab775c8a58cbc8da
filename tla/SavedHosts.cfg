CONSTANTS
    a = a
    b = b
    k1 = k1
    k2 = k2
    p1 = p1
    None = None
    Ids <- MCIds
    Blobs <- SavedHosts
    Secrets = {k1, k2}
    Phrases = {p1}
    EditForm = TRUE
SPECIFICATION FormSpec
SYMMETRY Symmetry
INVARIANTS ListingExact StoredWithSecret
PROPERTIES HostsKeepPlace SavesOwnHost UntouchedKeyKept
