SPECIFICATION Spec
CONSTANTS
  Field = {field}
  Required = {field, "row"}
  FieldText = {text}
  Opinion = text
  RowText = {text1, text2}
INVARIANTS
  TypeOK
  SubmittedAsTyped
  ShownAsTyped
SYMMETRY Symmetry
CONSTRAINT Apart
CHECK_DEADLOCK FALSE
