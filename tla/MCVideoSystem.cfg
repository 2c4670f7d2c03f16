CONSTANTS
    CacheSize = 2
    Inputs = {}
    MaxCount = 2
    MaxTicks = 20
    MaxIterations = 6
SPECIFICATION SystemSpec
INVARIANTS PicturesAreTimed ShownInOrder
PROPERTIES TimeIsContiguous 
