CONSTANTS
  NULL = NULL
  AbsentIds <- MCAbsentIds
  UnknownNames <- MCUnknownNames
  RandByte = RandByte
SPECIFICATION Spec
INVARIANT CatalogSortedUnique
INVARIANT LookupByIdRoundTrip
INVARIANT StdNameRoundTrip
INVARIANT WireRoundTrip
INVARIANT IndexEnumeratesCatalog
INVARIANT PrfSuitsVersion
INVARIANT HelloRandomLayout
INVARIANT RequestedCertTypesRespectMask
