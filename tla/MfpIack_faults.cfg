CONSTANTS
    Channel = {5, 13}
    MaxFault = 2
SPECIFICATION FairSpec
INVARIANT TypeOK
PROPERTIES FlatDeliverOwed WedgeBroken RetryEnds
