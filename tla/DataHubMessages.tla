-------------------------- MODULE DataHubMessages ---------------------------
(* The messages of the data hub API: for each class of the page's codec, the
   fields with the numbers and types its encode and decode handle, and what
   the adapter is told of them.  "Struct", "Value" and "ListValue" are the
   classes of google.protobuf; a type that is no message is a scalar.
   Generated code: the schema, the codec and this table agree number by
   number. *)
EXTENDS MessageShapes

(* google.protobuf: a JSON object, a JSON value, a JSON list. *)
Struct == Message([fields |-> MapOf(1, "Value")])
NullValue == 0
Value == OneOf([nullValue |-> Optional(1, "enum"), numberValue |-> Optional(2, "double"),
                stringValue |-> Optional(3, "string"), boolValue |-> Optional(4, "bool"),
                structValue |-> Optional(5, "Struct"), listValue |-> Optional(6, "ListValue")])
ListValue == Message([values |-> OptionalMany(1, "Value")])

AdmissionRejection == EvidenceMessage([
    reason |-> Required(1, "string"),
    rejection_id |-> Required(2, "string")])
BrowserSession == Message([csrf |-> Required(1, "string")])
DatasetDetails == Message([
    availability_basis |-> Required(1, "string"),
    availability_note |-> Required(2, "string"),
    bar_count |-> Required(3, "int64"),
    content_hash |-> Required(4, "string"),
    exchange |-> Required(5, "string"),
    import_specs |-> Many(6, "ImportSpecification"),
    limitations |-> Many(7, "string"),
    processing_provenance |-> Nullable(8, "Struct"),
    product |-> Required(9, "string"),
    published_at |-> Required(10, "string"),
    quality |-> Required(11, "Struct"), semantics |-> Required(12, "Struct"),
    session_close |-> Required(13, "string"),
    session_open |-> Required(14, "string"),
    snapshot_id |-> Required(15, "string"),
    source_reference |-> Required(16, "string"),
    sources |-> Many(17, "Struct"), symbol |-> Required(18, "string"),
    trading_days |-> Many(19, "string")])
DatasetLineage == Message([
    attempts |-> Many(1, "Struct"), snapshot_id |-> Required(2, "string"),
    sources |-> Many(3, "Struct"), usages |-> Many(4, "Struct")])
DatasetSummary == Message([
    bar_count |-> Required(1, "int64"),
    content_hash |-> Required(2, "string"),
    exchange |-> Required(3, "string"), product |-> Required(4, "string"),
    published_at |-> Required(5, "string"),
    session_close |-> Required(6, "string"),
    session_open |-> Required(7, "string"),
    snapshot_id |-> Required(8, "string"), symbol |-> Required(9, "string"),
    trading_days |-> Many(10, "string")])
HttpError == Message([
    detail |-> Required(1, "string"), rejection_id |-> Nullable(2, "string"),
    request_id |-> Nullable(3, "string"),
    runtime_id |-> Nullable(4, "string"), status |-> Nullable(5, "string"),
    url |-> Nullable(6, "string")])
ImportSpecification == Message([
    session_kind |-> Required(16, "string"),
    availability_basis |-> Required(1, "string"),
    availability_note |-> Required(2, "string"),
    currency |-> Required(3, "string"), exchange |-> Required(4, "string"),
    multiplier |-> Required(5, "string"),
    price_tick |-> Required(6, "string"), product |-> Required(7, "string"),
    quantity_unit |-> Required(8, "string"),
    session_close |-> Required(9, "string"),
    session_open |-> Required(10, "string"),
    source_name |-> Required(11, "string"),
    source_reference |-> Required(12, "string"),
    symbol |-> Required(13, "string"), timezone |-> Required(14, "string"),
    trading_day |-> Required(15, "string")])
ProcessingAttempt == EvidenceMessage([
    attempt_id |-> Required(1, "string"),
    created_at |-> Required(2, "string"),
    error |-> RequiredNullable(3, "string"),
    parameters |-> Required(4, "Struct"),
    snapshot_id |-> RequiredNullable(5, "string"),
    source_id |-> Required(6, "string"), stage |-> Required(7, "string"),
    status |-> Required(8, "string")])
Readiness == Message([status |-> Required(1, "string")])
SourceRecord == EvidenceMessage([
    allow_download |-> Required(1, "bool"),
    allow_retention |-> Required(2, "bool"),
    byte_count |-> Required(3, "int64"),
    content_hash |-> Required(4, "string"),
    filename |-> Required(5, "string"), input_kind |-> Required(6, "string"),
    received_at |-> Required(7, "string"),
    source_id |-> Required(8, "string"),
    source_name |-> Required(9, "string")])
GetApiAttemptsResponse == Array("ProcessingAttempt")
GetApiDatasetsResponse == Array("DatasetSummary")
GetApiRejectionsResponse == Array("AdmissionRejection")
GetApiSourcesResponse == Array("SourceRecord")
ProcessingQueueStatus == Message([
    observed_at |-> Required(1, "string"), total |-> Required(2, "int64"),
    pending |-> Required(3, "int64"), running |-> Required(4, "int64"),
    published |-> Required(5, "int64"), failed |-> Required(6, "int64"),
    oldest_pending_id |-> Nullable(7, "string"),
    oldest_pending_at |-> Nullable(8, "string"),
    oldest_pending_seconds |-> Nullable(9, "int64")])
SyncSettingsRequest == Message([
    revision |-> Required(1, "int64"), enabled |-> Required(2, "bool")])
SyncReprocessRequest == Message([
    request_id |-> Required(1, "string"),
    source_generation |-> Required(2, "string")])
SyncTokenRequest == Message([token |-> Required(1, "string")])
SyncStatus == Message([
    settings |-> Required(1, "Struct"),
    token_configured |-> Required(2, "bool"),
    datasets |-> OptionalMany(3, "Struct"),
    progress |-> OptionalMany(4, "Struct"),
    jobs |-> OptionalMany(5, "Struct"),
    unplanned_contracts |-> Required(6, "int64")])
SyncEvidence == EvidenceMessage([request_id |-> Required(1, "string")])
PublicationManifest == Message([
    snapshot_id |-> Required(1, "string"),
    storage_id |-> Required(2, "string"), path |-> Required(3, "string"),
    sha256 |-> Required(4, "string"), bytes |-> Required(5, "int64"),
    files |-> Many(6, "Struct")])
PublicationCatalog == Message([snapshots |-> Many(1, "string")])
ExplorerCatalog == Message([
    datasets |-> Many(1, "Struct"), exchanges |-> Many(2, "string"),
    products |-> Many(3, "Struct")])
ContractSearch == Message([
    exchange |-> Required(1, "string"), product |-> Required(2, "string"),
    search |-> Required(3, "string"), offset |-> Required(4, "int64")])
ExplorerList == Message([
    rows |-> Many(1, "Struct"), total |-> Required(2, "int64")])
ExplorerRange == Message([
    dataset |-> Required(1, "string"), scope |-> Required(2, "string"),
    start |-> Required(3, "string"), end |-> Required(4, "string"),
    offset |-> Required(5, "int64")])
ExplorerQuery == Message([
    dataset |-> Required(1, "string"), scope |-> Required(2, "string"),
    start |-> Required(3, "string"), end |-> Required(4, "string"),
    offset |-> Required(5, "int64"), receipt_ids |-> Many(6, "string"),
    limit |-> Required(7, "int64")])
ExplorerCoverage == Message([
    days |-> Many(1, "Struct"), jobs |-> Many(2, "Struct"),
    note |-> Required(3, "string")])
ExplorerRows == Message([
    sources |-> Many(14, "Struct"), export_allowed |-> Required(15, "bool"),
    dataset |-> Required(1, "string"), scope |-> Required(2, "string"),
    start |-> Required(3, "string"), end |-> Required(4, "string"),
    receipt_ids |-> Many(5, "string"), view_id |-> Required(6, "string"),
    rows |-> Many(7, "Struct"), total |-> Required(8, "int64"),
    offset |-> Required(9, "int64"), limit |-> Required(10, "int64"),
    fields |-> Many(11, "Struct"), versions |-> Many(12, "Struct"),
    note |-> Required(13, "string")])
RevisionRequest == Message([
    before_id |-> Required(1, "string"), after_id |-> Required(2, "string"),
    offset |-> Required(3, "int64")])
RevisionComparison == Message([
    comparison_id |-> Required(1, "string"), rule |-> Required(2, "string"),
    before |-> Required(3, "Struct"), after |-> Required(4, "Struct"),
    source_changed |-> Required(5, "bool"),
    rules_changed |-> Required(6, "bool"), counts |-> Required(7, "Struct"),
    changes |-> OptionalMany(8, "Struct"), total |-> Required(9, "int64"),
    offset |-> Required(10, "int64"), note |-> Required(11, "string")])
Empty == Message(NoFields)
Error == Message([
    detail |-> Optional(1, "string"), status |-> Optional(2, "string"),
    request_id |-> Optional(3, "string"),
    runtime_id |-> Optional(4, "string"), url |-> Optional(5, "string"),
    rejection_id |-> Optional(6, "string")])

(* The registry of the page: every message by its name. *)
Messages == [
    Struct |-> Struct, Value |-> Value, ListValue |-> ListValue,
    AdmissionRejection |-> AdmissionRejection,
    BrowserSession |-> BrowserSession, DatasetDetails |-> DatasetDetails,
    DatasetLineage |-> DatasetLineage, DatasetSummary |-> DatasetSummary,
    HttpError |-> HttpError, ImportSpecification |-> ImportSpecification,
    ProcessingAttempt |-> ProcessingAttempt, Readiness |-> Readiness,
    SourceRecord |-> SourceRecord,
    GetApiAttemptsResponse |-> GetApiAttemptsResponse,
    GetApiDatasetsResponse |-> GetApiDatasetsResponse,
    GetApiRejectionsResponse |-> GetApiRejectionsResponse,
    GetApiSourcesResponse |-> GetApiSourcesResponse,
    ProcessingQueueStatus |-> ProcessingQueueStatus,
    SyncSettingsRequest |-> SyncSettingsRequest,
    SyncReprocessRequest |-> SyncReprocessRequest,
    SyncTokenRequest |-> SyncTokenRequest, SyncStatus |-> SyncStatus,
    SyncEvidence |-> SyncEvidence,
    PublicationManifest |-> PublicationManifest,
    PublicationCatalog |-> PublicationCatalog,
    ExplorerCatalog |-> ExplorerCatalog, ContractSearch |-> ContractSearch,
    ExplorerList |-> ExplorerList, ExplorerRange |-> ExplorerRange,
    ExplorerQuery |-> ExplorerQuery, ExplorerCoverage |-> ExplorerCoverage,
    ExplorerRows |-> ExplorerRows, RevisionRequest |-> RevisionRequest,
    RevisionComparison |-> RevisionComparison, Empty |-> Empty,
    Error |-> Error]

(* The calls of the API: verb, path, what is sent and what is answered. *)
Calls == {
    <<"POST", "/api/explorer/compare", "RevisionRequest", "RevisionComparison">>,
    <<"POST", "/api/explorer/export", "ExplorerQuery", "ExplorerRows">>,
    <<"POST", "/api/explorer/query", "ExplorerQuery", "ExplorerRows">>,
    <<"POST", "/api/explorer/versions", "ExplorerRange", "ExplorerList">>,
    <<"POST", "/api/explorer/coverage", "ExplorerRange", "ExplorerCoverage">>,
    <<"POST", "/api/explorer/contracts", "ContractSearch", "ExplorerList">>,
    <<"GET", "/api/explorer", "Empty", "ExplorerCatalog">>,
    <<"GET", "/api/publications", "Empty", "PublicationCatalog">>,
    <<"GET", "/api/publications/{snapshot_id}", "Empty", "PublicationManifest">>,
    <<"GET", "/api/sync", "Empty", "SyncStatus">>,
    <<"POST", "/api/sync/settings", "SyncSettingsRequest", "SyncStatus">>,
    <<"POST", "/api/sync/reprocess", "SyncReprocessRequest", "SyncEvidence">>,
    <<"POST", "/api/sync/token", "SyncTokenRequest", "SyncStatus">>,
    <<"GET", "/api/sync/jobs/{request_id}", "Empty", "SyncEvidence">>,
    <<"GET", "/api/sync/receipts/{request_id}", "Empty", "SyncEvidence">>,
    <<"GET", "/api/processing/status", "Empty", "ProcessingQueueStatus">>,
    <<"GET", "/api/attempts", "Empty", "GetApiAttemptsResponse">>,
    <<"GET", "/api/attempts/{attempt_id}", "Empty", "ProcessingAttempt">>,
    <<"GET", "/api/browser-session", "Empty", "BrowserSession">>,
    <<"GET", "/api/datasets", "Empty", "GetApiDatasetsResponse">>,
    <<"GET", "/api/datasets/{snapshot_id}", "Empty", "DatasetDetails">>,
    <<"GET", "/api/datasets/{snapshot_id}/lineage", "Empty", "DatasetLineage">>,
    <<"GET", "/api/rejections", "Empty", "GetApiRejectionsResponse">>,
    <<"GET", "/api/sources", "Empty", "GetApiSourcesResponse">>,
    <<"GET", "/api/sources/{source_id}", "Empty", "SourceRecord">>}
=============================================================================
