SPECIFICATION FairEncodeSpec
CHECK_DEADLOCK FALSE
CONSTANTS
    Bytes = {114}
    MaxLength = 2
    MaxOut = 12
    Width = 16
    Signed = FALSE
PROPERTIES
    Returns
