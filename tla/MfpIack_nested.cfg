CONSTANTS
    Channel = {5, 13}
    MaxFault = 0
SPECIFICATION Spec
PROPERTY DeliverOwed
