CONSTANTS
  Story <- Answer
  Visitors = {v1}
  Own = own
  MaxFaults = 1
  v1 = v1
  own = own
SPECIFICATION FairSpec
PROPERTY LostIsRecovered
