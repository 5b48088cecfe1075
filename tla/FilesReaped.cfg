SPECIFICATION CleanersSpec
CONSTANTS
    AlbumSize = 1
    Photos = {1}
    ZERO_BYTE_ITEM_MAX_RETRIES = 2
    MaxPaths = 2
    MaxFileBoots = 0
PROPERTY
    DeferredIsReaped
CHECK_DEADLOCK FALSE
