---------------------------- MODULE LiveMessages ----------------------------
(* The messages of the live API: for each class of the page's codec, the
   fields with the numbers and types its encode and decode handle, and what
   the adapter is told of them.  "Struct", "Value" and "ListValue" are the
   classes of google.protobuf; a type that is no message is a scalar.
   Generated code: the schema, the codec and this table agree number by
   number. *)
EXTENDS MessageShapes

(* google.protobuf: a JSON object, a JSON value, a JSON list. *)
Struct == Message([fields |-> MapOf(1, "Value")])
NullValue == 0
Value == OneOf([nullValue |-> Optional(1, "enum"), numberValue |-> Optional(2, "double"),
                stringValue |-> Optional(3, "string"), boolValue |-> Optional(4, "bool"),
                structValue |-> Optional(5, "Struct"), listValue |-> Optional(6, "ListValue")])
ListValue == Message([values |-> OptionalMany(1, "Value")])

InstanceRecord == Message([
    instance_id |-> Required(1, "string"),
    environment |-> Required(2, "string"),
    broker_profile |-> Required(3, "string")])
InstanceCatalog == Message([
    instances |-> Many(1, "InstanceRecord"),
    production_available |-> Optional(2, "bool")])
AccountCatchupRequest == Message([
    baseline_id |-> Required(1, "string"),
    request_id |-> Required(2, "string"),
    through_sequence |-> Required(3, "int64")])
AccountProgress == EvidenceMessage([status |-> Required(1, "string")])
ArchiveAttempt == EvidenceMessage([
    attempt_id |-> Required(1, "string"),
    parameters |-> Required(2, "Struct"),
    snapshot_id |-> RequiredNullable(3, "string"),
    source_id |-> Required(4, "string"), status |-> Required(5, "string")])
ArchiveDataset == Message([
    availability_basis |-> Required(1, "string"),
    availability_note |-> Required(2, "string"),
    bar_count |-> Required(3, "int64"),
    content_hash |-> Required(4, "string"),
    exchange |-> Required(5, "string"),
    import_specs |-> Many(6, "ImportSpecification"),
    limitations |-> Many(7, "string"),
    live_runtime |-> Required(8, "Struct"),
    processing_provenance |-> Nullable(9, "Struct"),
    product |-> Required(10, "string"),
    published_at |-> Required(11, "string"),
    quality |-> Required(12, "Struct"), semantics |-> Required(13, "Struct"),
    session_close |-> Required(14, "string"),
    session_open |-> Required(15, "string"),
    snapshot_id |-> Required(16, "string"),
    source_reference |-> Required(17, "string"),
    sources |-> Many(18, "Struct"), symbol |-> Required(19, "string"),
    trading_days |-> Many(20, "string")])
ArchiveReprocessRequest == Message([
    request_id |-> Required(1, "string"), spec |-> Required(2, "Struct")])
ArchiveRequest == Message([
    allow_download |-> Required(1, "bool"),
    request_id |-> Required(2, "string"),
    session_close |-> Required(3, "string"),
    session_open |-> Required(4, "string"),
    through_sequence |-> Required(5, "int64")])
ArchiveSource == EvidenceMessage([
    allow_download |-> Required(1, "bool"),
    filename |-> Required(2, "string"), source_id |-> Required(3, "string")])
BaselineCheckRequest == Message([
    baseline_id |-> Required(1, "string"),
    query_batch_id |-> Required(2, "string"),
    request_id |-> Required(3, "string")])
BaselineContext == EvidenceMessage([baseline |-> Nullable(1, "BaselineRecord")])
BaselineRecord == EvidenceMessage([baseline_id |-> Required(1, "string")])
BaselineRequest == Message([
    request_id |-> Required(1, "string"),
    source_batch_id |-> Required(2, "string")])
BrokerStatus == EvidenceMessage([
    connection |-> Required(1, "string"),
    credentials |-> Required(2, "Struct"), execution |-> MapOf(3, "string"),
    profiles |-> Many(4, "Struct"), sdk |-> Required(5, "Struct")])
BrowserSession == Message([csrf |-> Required(1, "string")])
BudgetContext == Message([
    budgets |-> Many(1, "Struct"), live_runtime |-> Nullable(2, "Struct"),
    order_checks |-> Many(3, "CheckRecord")])
CheckRecord == EvidenceMessage([check_id |-> Required(1, "string")])
CommandRecord == EvidenceMessage([
    request_id |-> Required(1, "string"), status |-> Required(2, "string")])
CompletedMinute == EvidenceMessage([
    close |-> Required(1, "string"), completed_at |-> Required(2, "string")])
ControlRequest == Message([
    action |-> Required(1, "string"), request_id |-> Required(2, "string")])
Diagnostics == EvidenceMessage([
    database |-> Required(1, "Struct"), duration_ms |-> Required(2, "int64"),
    observed_at |-> Required(3, "string"), scope |-> Required(4, "string"),
    source_filesystem |-> Required(5, "Struct"),
    status |-> Required(6, "string")])
FundsContext == EvidenceMessage([entries |-> OptionalMany(1, "Struct")])
FundsEntry == EvidenceMessage([entry_id |-> Required(1, "string")])
FundsEntryRequest == Message([
    baseline_id |-> Required(1, "string"),
    request_id |-> Required(2, "string"),
    source_batch_id |-> Required(3, "string")])
HttpError == Message([
    detail |-> Required(1, "string"), rejection_id |-> Nullable(2, "string"),
    request_id |-> Nullable(3, "string"),
    runtime_id |-> Nullable(4, "string"), status |-> Nullable(5, "string"),
    url |-> Nullable(6, "string")])
ImportSpecification == Message([
    session_kind |-> Required(16, "string"),
    availability_basis |-> Required(1, "string"),
    availability_note |-> Required(2, "string"),
    currency |-> Required(3, "string"), exchange |-> Required(4, "string"),
    multiplier |-> Required(5, "string"),
    price_tick |-> Required(6, "string"), product |-> Required(7, "string"),
    quantity_unit |-> Required(8, "string"),
    session_close |-> Required(9, "string"),
    session_open |-> Required(10, "string"),
    source_name |-> Required(11, "string"),
    source_reference |-> Required(12, "string"),
    symbol |-> Required(13, "string"), timezone |-> Required(14, "string"),
    trading_day |-> Required(15, "string")])
LedgerContext == EvidenceMessage([
    baseline |-> Nullable(1, "BaselineRecord"),
    baseline_id |-> Nullable(2, "string"),
    checks |-> OptionalMany(3, "CheckRecord"),
    entries |-> OptionalMany(4, "PositionEntry")])
LiveConfiguration == EvidenceMessage([
    config |-> Required(1, "Struct"),
    configuration_id |-> Required(2, "string"),
    name |-> Required(3, "string")])
MaterialRequest == Message([
    candidate |-> Required(1, "Struct"),
    request_id |-> Required(2, "string")])
OpeningBudget == EvidenceMessage([budget_id |-> Required(1, "string")])
OpeningBudgetRequest == Message([
    limit_price |-> Required(1, "string"),
    order_check_id |-> Required(2, "string"),
    request_id |-> Required(3, "string"), sequence |-> Required(4, "int64")])
OrderCheckRequest == Message([
    position_check_id |-> Required(1, "string"),
    request_id |-> Required(2, "string")])
PositionCheckRequest == Message([
    entry_id |-> Required(1, "string"),
    query_batch_id |-> Required(2, "string"),
    request_id |-> Required(3, "string")])
PositionEntry == EvidenceMessage([entry_id |-> Required(1, "string")])
PositionEntryRequest == Message([
    baseline_id |-> Required(1, "string"),
    request_id |-> Required(2, "string"),
    source_batch_id |-> Required(3, "string")])
QueryRecord == EvidenceMessage([
    batch_id |-> Required(1, "string"), instrument |-> Required(2, "string"),
    status |-> Required(3, "string")])
QueryRequest == Message([
    instrument |-> Required(1, "string"),
    request_id |-> Required(3, "string")])
Readiness == Message([status |-> Required(1, "string")])
RuntimeStatus == Message([
    instance_id |-> Nullable(11, "string"),
    environment |-> Nullable(12, "string"),
    broker_profile |-> Nullable(13, "string"),
    cancel_sending |-> Required(1, "bool"),
    control_available |-> Optional(2, "bool"),
    observed_at |-> Required(3, "string"),
    order_sending |-> Required(4, "bool"), pid |-> Required(5, "int64"),
    protocol |-> Required(6, "string"), release |-> Required(7, "string"),
    runtime_id |-> Required(8, "string"),
    started_at |-> Required(9, "string"), status |-> Required(10, "string")])
StrategyMaterial == EvidenceMessage([candidate_id |-> Required(1, "string")])
StreamAccountProgress == EvidenceMessage([
    status |-> Required(1, "string"),
    through_sequence |-> Nullable(2, "int64")])
StreamArchive == EvidenceMessage([source_id |-> Required(1, "string")])
StreamBinding == EvidenceMessage([request |-> Required(1, "StreamBindingRequest")])
StreamBindingRequest == EvidenceMessage([query_batch_id |-> Required(1, "string")])
StreamControl == EvidenceMessage([stream_id |-> Required(1, "string")])
StreamDecision == EvidenceMessage([sequence |-> Required(1, "int64")])
StreamDetail == EvidenceMessage([
    account_progress |-> Required(1, "StreamAccountProgress"),
    archives |-> Many(2, "Struct"), binding |-> Required(3, "StreamBinding"),
    connection |-> Required(4, "string"), cursor |-> Required(5, "int64"),
    paused |-> Required(6, "bool"), received |-> Required(7, "int64"),
    steps |-> Many(8, "StreamStep"), stream_id |-> Required(9, "string")])
StreamEvent == Message([
    committed_at |-> Required(1, "string"), event |-> Required(2, "Struct")])
StreamPositionsRequest == Message([
    baseline_id |-> Required(1, "string"),
    request_id |-> Required(2, "string"),
    through_sequence |-> Required(3, "int64")])
StreamRequest == Message([
    allow_retention |-> Required(1, "bool"),
    configuration_id |-> Required(2, "string"),
    duration_seconds |-> Required(3, "int64"),
    query_batch_id |-> Required(4, "string"),
    request_id |-> Required(5, "string"),
    use_basis |-> Required(6, "string")])
StreamStep == Message([
    committed_at |-> Required(1, "string"),
    result |-> Required(2, "StreamStepResult"),
    sequence |-> Required(3, "int64")])
StreamStepResult == EvidenceMessage([
    bar |-> RequiredNullable(1, "CompletedMinute"),
    intent |-> RequiredNullable(2, "Struct")])
StreamSummary == EvidenceMessage([stream_id |-> Required(1, "string")])
GetApiBrokerQueriesResponse == Array("QueryRecord")
GetApiConfigurationsResponse == Array("LiveConfiguration")
GetApiStrategyMaterialsResponse == Array("StrategyMaterial")
GetApiStreamsResponse == Array("StreamSummary")
GetApiStreamsStreamIdEventsResponse == Array("StreamEvent")
Empty == Message(NoFields)
Error == Message([
    detail |-> Optional(1, "string"), status |-> Optional(2, "string"),
    request_id |-> Optional(3, "string"),
    runtime_id |-> Optional(4, "string"), url |-> Optional(5, "string"),
    rejection_id |-> Optional(6, "string")])

(* The registry of the page: every message by its name. *)
Messages == [
    Struct |-> Struct, Value |-> Value, ListValue |-> ListValue,
    InstanceRecord |-> InstanceRecord, InstanceCatalog |-> InstanceCatalog,
    AccountCatchupRequest |-> AccountCatchupRequest,
    AccountProgress |-> AccountProgress, ArchiveAttempt |-> ArchiveAttempt,
    ArchiveDataset |-> ArchiveDataset,
    ArchiveReprocessRequest |-> ArchiveReprocessRequest,
    ArchiveRequest |-> ArchiveRequest, ArchiveSource |-> ArchiveSource,
    BaselineCheckRequest |-> BaselineCheckRequest,
    BaselineContext |-> BaselineContext, BaselineRecord |-> BaselineRecord,
    BaselineRequest |-> BaselineRequest, BrokerStatus |-> BrokerStatus,
    BrowserSession |-> BrowserSession, BudgetContext |-> BudgetContext,
    CheckRecord |-> CheckRecord, CommandRecord |-> CommandRecord,
    CompletedMinute |-> CompletedMinute, ControlRequest |-> ControlRequest,
    Diagnostics |-> Diagnostics, FundsContext |-> FundsContext,
    FundsEntry |-> FundsEntry, FundsEntryRequest |-> FundsEntryRequest,
    HttpError |-> HttpError, ImportSpecification |-> ImportSpecification,
    LedgerContext |-> LedgerContext, LiveConfiguration |-> LiveConfiguration,
    MaterialRequest |-> MaterialRequest, OpeningBudget |-> OpeningBudget,
    OpeningBudgetRequest |-> OpeningBudgetRequest,
    OrderCheckRequest |-> OrderCheckRequest,
    PositionCheckRequest |-> PositionCheckRequest,
    PositionEntry |-> PositionEntry,
    PositionEntryRequest |-> PositionEntryRequest,
    QueryRecord |-> QueryRecord, QueryRequest |-> QueryRequest,
    Readiness |-> Readiness, RuntimeStatus |-> RuntimeStatus,
    StrategyMaterial |-> StrategyMaterial,
    StreamAccountProgress |-> StreamAccountProgress,
    StreamArchive |-> StreamArchive, StreamBinding |-> StreamBinding,
    StreamBindingRequest |-> StreamBindingRequest,
    StreamControl |-> StreamControl, StreamDecision |-> StreamDecision,
    StreamDetail |-> StreamDetail, StreamEvent |-> StreamEvent,
    StreamPositionsRequest |-> StreamPositionsRequest,
    StreamRequest |-> StreamRequest, StreamStep |-> StreamStep,
    StreamStepResult |-> StreamStepResult, StreamSummary |-> StreamSummary,
    GetApiBrokerQueriesResponse |-> GetApiBrokerQueriesResponse,
    GetApiConfigurationsResponse |-> GetApiConfigurationsResponse,
    GetApiStrategyMaterialsResponse |-> GetApiStrategyMaterialsResponse,
    GetApiStreamsResponse |-> GetApiStreamsResponse,
    GetApiStreamsStreamIdEventsResponse |-> GetApiStreamsStreamIdEventsResponse,
    Empty |-> Empty, Error |-> Error]

(* The calls of the API: verb, path, what is sent and what is answered. *)
Calls == {
    <<"GET", "/api/live/instances", "Empty", "InstanceCatalog">>,
    <<"GET", "/api/attempts/{attempt_id}", "Empty", "ArchiveAttempt">>,
    <<"POST", "/api/broker/baseline-checks", "BaselineCheckRequest", "CheckRecord">>,
    <<"GET", "/api/broker/baseline-checks/{check_id}", "Empty", "CheckRecord">>,
    <<"POST", "/api/broker/baselines", "BaselineRequest", "BaselineRecord">>,
    <<"POST", "/api/broker/funds-entries", "FundsEntryRequest", "FundsEntry">>,
    <<"GET", "/api/broker/funds-entries/{entry_id}", "Empty", "FundsEntry">>,
    <<"GET", "/api/broker/opening-budgets/{budget_id}", "Empty", "OpeningBudget">>,
    <<"POST", "/api/broker/order-checks", "OrderCheckRequest", "CheckRecord">>,
    <<"GET", "/api/broker/order-checks/{check_id}", "Empty", "CheckRecord">>,
    <<"POST", "/api/broker/position-checks", "PositionCheckRequest", "CheckRecord">>,
    <<"GET", "/api/broker/position-checks/{check_id}", "Empty", "CheckRecord">>,
    <<"POST", "/api/broker/position-entries", "PositionEntryRequest", "PositionEntry">>,
    <<"GET", "/api/broker/position-entries/{entry_id}", "Empty", "PositionEntry">>,
    <<"GET", "/api/broker/queries", "Empty", "GetApiBrokerQueriesResponse">>,
    <<"POST", "/api/broker/queries", "QueryRequest", "QueryRecord">>,
    <<"GET", "/api/broker/queries/{batch_id}", "Empty", "QueryRecord">>,
    <<"GET", "/api/broker/queries/{batch_id}/baseline-context", "Empty", "BaselineContext">>,
    <<"GET", "/api/broker/queries/{batch_id}/funds-context", "Empty", "FundsContext">>,
    <<"GET", "/api/broker/queries/{batch_id}/ledger-context", "Empty", "LedgerContext">>,
    <<"GET", "/api/broker/status", "Empty", "BrokerStatus">>,
    <<"GET", "/api/browser-session", "Empty", "BrowserSession">>,
    <<"GET", "/api/configurations", "Empty", "GetApiConfigurationsResponse">>,
    <<"GET", "/api/datasets/{snapshot_id}", "Empty", "ArchiveDataset">>,
    <<"GET", "/api/live/commands/{request_id}", "Empty", "CommandRecord">>,
    <<"GET", "/api/live/diagnostics", "Empty", "Diagnostics">>,
    <<"GET", "/api/live/status", "Empty", "RuntimeStatus">>,
    <<"GET", "/api/sources/{source_id}", "Empty", "ArchiveSource">>,
    <<"POST", "/api/sources/{source_id}/reprocess", "ArchiveReprocessRequest", "ArchiveAttempt">>,
    <<"GET", "/api/strategy-materials", "Empty", "GetApiStrategyMaterialsResponse">>,
    <<"POST", "/api/strategy-materials", "MaterialRequest", "StrategyMaterial">>,
    <<"GET", "/api/streams", "Empty", "GetApiStreamsResponse">>,
    <<"POST", "/api/streams", "StreamRequest", "StreamSummary">>,
    <<"GET", "/api/streams/{stream_id}", "Empty", "StreamDetail">>,
    <<"POST", "/api/streams/{stream_id}/account-catchup", "AccountCatchupRequest", "AccountProgress">>,
    <<"POST", "/api/streams/{stream_id}/archive", "ArchiveRequest", "StreamArchive">>,
    <<"POST", "/api/streams/{stream_id}/control", "ControlRequest", "StreamControl">>,
    <<"GET", "/api/streams/{stream_id}/decisions/{sequence}", "Empty", "StreamDecision">>,
    <<"GET", "/api/streams/{stream_id}/events", "Empty", "GetApiStreamsStreamIdEventsResponse">>,
    <<"GET", "/api/streams/{stream_id}/opening-budgets", "Empty", "BudgetContext">>,
    <<"POST", "/api/streams/{stream_id}/opening-budgets", "OpeningBudgetRequest", "OpeningBudget">>,
    <<"POST", "/api/streams/{stream_id}/position-entries", "StreamPositionsRequest", "PositionEntry">>}
=============================================================================
