SPECIFICATION Spec
CONSTANTS
 TableDefs <- DocDefs
 MaxRows = 1
 MaxStarts = 1
INVARIANTS UserTypesHandled
CHECK_DEADLOCK FALSE
