SPECIFICATION Spec
CONSTANTS
  RecordSize = 2
  BufferSize = 4
  MaxRecords = 3
  Value = {a, b}
  Zero = Zero
  EOF = EOF
  Refused = Refused
SYMMETRY Symmetry
INVARIANTS
  RecordsAreBacked
PROPERTIES
  ImplementsArray
