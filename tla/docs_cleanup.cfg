SPECIFICATION StoreSpec
CHECK_DEADLOCK FALSE
CONSTANTS
    Uploads = {u1, u2, u3}
    Readers = {}
    NoDocument = NoDocument
    MaxStoreFaults = 0
INVARIANTS
    RowsHaveBlobs
