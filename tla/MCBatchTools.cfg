SPECIFICATION Spec
CHECK_DEADLOCK FALSE
INVARIANTS
    RecordsTold CountsReconcile TablesAgree OverTime NothingElse
