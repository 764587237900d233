SPECIFICATION Spec
CONSTANTS
  None = None
INVARIANTS Converged OriginIsOwner PayloadMatchesSchema KeyKept SinkFollowsEvents SchemaDescribesRow ColumnsIndependent DecodedAsSent HandedOver AllTablesPublished CreatedIsDropped SelectsAsDescribed
PROPERTIES ScheduledAsSelected LoadedAsStored
CHECK_DEADLOCK FALSE
