\* Every descriptor over five symbols: a complete code can be longer than a
\* word, and both the term and the sum can overflow the numerator.
CONSTANTS
  NumSymbols = 5
  Unused = 6
  LutBits = 2
  WordBits = 3
  NumeratorBits = 4
SPECIFICATION DescriptorSpec
INVARIANTS
  CodesPartitionStream
  TiersSearchable
  CompletenessDecided
  StatsDescribe
