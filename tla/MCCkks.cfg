CONSTANTS
  Specs <- MCSpecs
  IntMax = 4
  Descs <- MCDescs
  Inputs <- MCInputs
  SlotCounts = {2, 4}
  Attributes <- MCAttributes
  MaxValues = 4
SPECIFICATION Spec
INVARIANTS TypeOK MetadataAgrees KeysCover
CHECK_DEADLOCK FALSE
