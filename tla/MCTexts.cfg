CONSTANTS
    Width = 4
SPECIFICATION Spec
CHECK_DEADLOCK FALSE
PROPERTY ArithRight
PROPERTY FieldsRight
PROPERTY CaseRight
PROPERTY ReadBack
