-------------------------- MODULE ResearchMessages --------------------------
(* The messages of the research API: for each class of the page's codec, the
   fields with the numbers and types its encode and decode handle, and what
   the adapter is told of them.  "Struct", "Value" and "ListValue" are the
   classes of google.protobuf; a type that is no message is a scalar.
   Generated code: the schema, the codec and this table agree number by
   number. *)
EXTENDS MessageShapes

(* google.protobuf: a JSON object, a JSON value, a JSON list. *)
Struct == Message([fields |-> MapOf(1, "Value")])
NullValue == 0
Value == OneOf([nullValue |-> Optional(1, "enum"), numberValue |-> Optional(2, "double"),
                stringValue |-> Optional(3, "string"), boolValue |-> Optional(4, "bool"),
                structValue |-> Optional(5, "Struct"), listValue |-> Optional(6, "ListValue")])
ListValue == Message([values |-> OptionalMany(1, "Value")])

AdvanceRequest == Message([request_id |-> Required(1, "string")])
Annotation == Message([
    at |-> Required(1, "string"), description |-> Required(2, "string")])
AnnotationRequest == Message([description |-> Required(1, "string")])
BrowserSession == Message([csrf |-> Required(1, "string")])
Catalog == Message([
    factors |-> Many(1, "FactorSummary"),
    strategies |-> Many(2, "StrategySummary")])
Comparison == Message([
    bar_count |-> Required(1, "int64"),
    decision_count |-> Required(2, "int64"),
    ending_cash |-> Required(3, "string"),
    ending_equity |-> Required(4, "string"),
    ending_position_lots |-> Required(5, "int64"),
    fill_count |-> Required(6, "int64"),
    initial_cash |-> Required(7, "string"),
    max_drawdown |-> Required(8, "string"),
    max_drawdown_fraction |-> Required(9, "string"),
    realized_pnl |-> Required(10, "string"),
    run_id |-> Required(11, "string"), strategy |-> Required(12, "string"),
    total_fees |-> Required(13, "string"),
    total_return |-> Required(14, "string"),
    unrealized_pnl |-> Required(15, "string")])
ComparisonRequest == Message([run_ids |-> Many(1, "string")])
ConfigurationRequest == Message([
    config |-> Required(1, "ResearchConfigurationInput"),
    name |-> Required(2, "string")])
DatasetDetails == Message([
    availability_basis |-> Required(1, "string"),
    availability_note |-> Required(2, "string"),
    bar_count |-> Required(3, "int64"),
    content_hash |-> Required(4, "string"),
    exchange |-> Required(5, "string"),
    import_specs |-> Many(6, "ImportSpecification"),
    limitations |-> Many(7, "string"),
    processing_provenance |-> Nullable(8, "Struct"),
    product |-> Required(9, "string"),
    published_at |-> Required(10, "string"),
    quality |-> Required(11, "Struct"), semantics |-> Required(12, "Struct"),
    session_close |-> Required(13, "string"),
    session_open |-> Required(14, "string"),
    snapshot_id |-> Required(15, "string"),
    source_reference |-> Required(16, "string"),
    sources |-> Many(17, "Struct"), symbol |-> Required(18, "string"),
    trading_days |-> Many(19, "string")])
DatasetLineage == Message([
    attempts |-> Many(1, "Struct"), snapshot_id |-> Required(2, "string"),
    sources |-> Many(3, "Struct"), usages |-> Many(4, "Struct")])
DatasetSummary == Message([
    bar_count |-> Required(1, "int64"),
    content_hash |-> Required(2, "string"),
    exchange |-> Required(3, "string"), product |-> Required(4, "string"),
    published_at |-> Required(5, "string"),
    session_close |-> Required(6, "string"),
    session_open |-> Required(7, "string"),
    snapshot_id |-> Required(8, "string"), symbol |-> Required(9, "string"),
    trading_days |-> Many(10, "string")])
EquityPoint == EvidenceMessage([
    at |-> Required(1, "string"), equity |-> Required(2, "string"),
    observation_id |-> Required(3, "string")])
FactorBinding == Message([
    code_revision |-> Required(1, "string"),
    factor_id |-> Required(2, "string"),
    parameters |-> Required(3, "Struct"),
    revision |-> Required(4, "string")])
FactorDescription == Message([
    capabilities |-> Many(1, "string"), category |-> Required(2, "string"),
    description |-> Required(3, "string"),
    factor_id |-> Required(4, "string"),
    limitations |-> Required(5, "string"), name |-> Required(6, "string"),
    parameters |-> Many(7, "ParameterDescription"),
    revision |-> Required(8, "string")])
FactorInput == Message([
    factor_id |-> Required(1, "string"),
    parameters |-> Optional(2, "Struct")])
FactorResult == Message([
    evaluation |-> Required(1, "Struct"), inputs |-> Required(2, "Struct"),
    values |-> Many(3, "FactorValue")])
FactorRevision == Message([
    annotations |-> Many(1, "Annotation"),
    binding |-> Required(2, "FactorBinding"),
    revision_id |-> Required(3, "string")])
FactorRevisionRequest == Message([
    factor_id |-> Required(1, "string"),
    parameters |-> Required(2, "Struct")])
FactorRun == EvidenceMessage([
    attempt_id |-> Required(1, "string"),
    code_revision |-> Required(2, "string"),
    completed_at |-> RequiredNullable(3, "string"),
    created_at |-> Required(4, "string"),
    error |-> RequiredNullable(5, "string"),
    result |-> RequiredNullable(6, "FactorResult"),
    revision_id |-> Required(7, "string"),
    snapshot_id |-> Required(8, "string"), status |-> Required(9, "string")])
FactorRunRequest == Message([
    revision_id |-> Required(1, "string"),
    snapshot_id |-> Required(2, "string")])
FactorSummary == Message([
    capabilities |-> Many(1, "string"), category |-> Required(2, "string"),
    description |-> Required(3, "string"),
    factor_id |-> Required(4, "string"),
    limitations |-> Required(5, "string"), name |-> Required(6, "string")])
FactorValue == EvidenceMessage([
    at |-> Required(1, "string"), observation_id |-> Required(2, "string"),
    reason |-> Required(3, "string"), status |-> Required(4, "string"),
    value |-> RequiredNullable(5, "string")])
FixedFactor == Message([
    code_revision |-> Required(1, "string"),
    factor_id |-> Required(2, "string"),
    parameters |-> Optional(3, "Struct"),
    revision |-> Required(4, "string")])
FixedStrategy == Message([
    code_revision |-> Required(1, "string"),
    factor_bindings |-> MapOf(2, "FixedFactor"),
    parameters |-> Required(3, "Struct"), revision |-> Required(4, "string"),
    strategy_id |-> Required(5, "string")])
HttpError == Message([
    detail |-> Required(1, "string"), rejection_id |-> Nullable(2, "string"),
    request_id |-> Nullable(3, "string"),
    runtime_id |-> Nullable(4, "string"), status |-> Nullable(5, "string"),
    url |-> Nullable(6, "string")])
ImportSpecification == Message([
    session_kind |-> Required(16, "string"),
    availability_basis |-> Required(1, "string"),
    availability_note |-> Required(2, "string"),
    currency |-> Required(3, "string"), exchange |-> Required(4, "string"),
    multiplier |-> Required(5, "string"),
    price_tick |-> Required(6, "string"), product |-> Required(7, "string"),
    quantity_unit |-> Required(8, "string"),
    session_close |-> Required(9, "string"),
    session_open |-> Required(10, "string"),
    source_name |-> Required(11, "string"),
    source_reference |-> Required(12, "string"),
    symbol |-> Required(13, "string"), timezone |-> Required(14, "string"),
    trading_day |-> Required(15, "string")])
PaperAdvanced == EvidenceMessage([
    sequence |-> Required(1, "int64"), session_id |-> Required(2, "string"),
    step |-> Required(3, "Struct"), url |-> Required(4, "string")])
PaperRequest == Message([
    configuration_id |-> Required(1, "string"),
    request_id |-> Required(2, "string"),
    snapshot_id |-> Required(3, "string")])
PaperSession == EvidenceMessage([
    configuration |-> Required(1, "SavedConfiguration"),
    cursor |-> Required(2, "int64"), session_id |-> Required(3, "string"),
    status |-> Required(4, "string"),
    summary |-> Required(5, "ResearchSummary")])
ParameterDescription == Message([
    default |-> Required(1, "Value"), label |-> Required(2, "string"),
    maximum |-> Required(3, "Value"), minimum |-> Required(4, "Value"),
    name |-> Required(5, "string"), unit |-> Required(6, "string")])
PublishRequest == Message(NoFields)
Readiness == Message([status |-> Required(1, "string")])
ResearchAttempt == EvidenceMessage([
    attempt_id |-> Required(1, "string"),
    created_at |-> Required(2, "string"),
    error |-> RequiredNullable(3, "string"),
    run_id |-> RequiredNullable(4, "string"),
    status |-> Required(5, "string")])
ResearchConfiguration == Message([
    risk |-> Required(1, "RiskInput"),
    simulation |-> Required(2, "SimulationInput"),
    strategy |-> Required(3, "FixedStrategy")])
ResearchConfigurationInput == Message([
    risk |-> Optional(1, "RiskInput"),
    simulation |-> Optional(2, "SimulationInput"),
    strategy |-> Nullable(3, "Value")])
ResearchResultDocument == EvidenceMessage([
    data |-> RequiredNullable(1, "Struct"), decisions |-> Many(2, "Struct"),
    equity_curve |-> Many(3, "EquityPoint"), fills |-> Many(4, "Struct"),
    summary |-> Required(5, "ResearchSummary")])
ResearchSummary == Message([
    bar_count |-> Required(1, "int64"),
    decision_count |-> Required(2, "int64"),
    ending_cash |-> Required(3, "string"),
    ending_equity |-> Required(4, "string"),
    ending_position_lots |-> Required(5, "int64"),
    fill_count |-> Required(6, "int64"),
    initial_cash |-> Required(7, "string"),
    max_drawdown |-> Required(8, "string"),
    max_drawdown_fraction |-> Required(9, "string"),
    realized_pnl |-> Required(10, "string"),
    total_fees |-> Required(11, "string"),
    total_return |-> Required(12, "string"),
    unrealized_pnl |-> Required(13, "string")])
RevisionCreated == Message([revision_id |-> Required(1, "string")])
RiskInput == Message([
    initial_margin_fraction |-> Optional(1, "string"),
    max_adverse_price_move_fraction |-> Optional(2, "string"),
    max_gross_notional |-> Optional(3, "string"),
    max_lots |-> Optional(4, "int64"),
    max_margin_fraction |-> Optional(5, "string")])
RunDetail == EvidenceMessage([
    code_revision |-> Required(1, "string"),
    committed_code |-> Required(2, "bool"),
    config |-> Required(3, "ResearchConfiguration"),
    created_at |-> Required(4, "string"),
    result |-> Required(5, "ResearchResultDocument"),
    run_id |-> Required(6, "string"),
    snapshot |-> Required(7, "SnapshotReference")])
RunSummary == EvidenceMessage([
    code_revision |-> Required(1, "string"),
    committed_code |-> Required(2, "bool"),
    config |-> Required(3, "ResearchConfiguration"),
    created_at |-> Required(4, "string"), market |-> Required(5, "Struct"),
    run_id |-> Required(6, "string"),
    snapshot |-> Required(7, "SnapshotReference"),
    summary |-> Required(8, "ResearchSummary")])
SavedConfiguration == Message([
    config |-> Required(1, "ResearchConfiguration"),
    configuration_id |-> Required(2, "string"),
    created_at |-> Required(3, "string"), name |-> Required(4, "string"),
    risk_hash |-> Required(5, "string"),
    strategy_hash |-> Required(6, "string")])
SimulationInput == Message([
    fee_per_lot |-> Optional(1, "string"),
    initial_cash |-> Optional(2, "string"),
    slippage_ticks |-> Optional(3, "int64")])
SnapshotReference == EvidenceMessage([
    content_hash |-> Required(1, "string"), id |-> Required(2, "string")])
StrategyCandidate == Message([
    candidate_id |-> Required(1, "string"),
    document |-> Required(2, "VersionDocument"),
    format |-> Required(3, "int64"),
    production_eligible |-> Required(4, "bool"),
    version_id |-> Required(5, "string")])
StrategyDescription == Message([
    category |-> Required(1, "string"),
    description |-> Required(2, "string"),
    factor_slots |-> MapOf(3, "string"), name |-> Required(4, "string"),
    parameters |-> Many(5, "ParameterDescription"),
    revision |-> Required(6, "string"),
    strategy_id |-> Required(7, "string")])
StrategyInput == Message([
    factor_bindings |-> NullableMapOf(1, "FactorInput"),
    parameters |-> Optional(2, "Struct"),
    strategy_id |-> Optional(3, "string")])
StrategySummary == Message([
    category |-> Required(1, "string"),
    description |-> Required(2, "string"), name |-> Required(3, "string"),
    strategy_id |-> Required(4, "string")])
StrategyVersion == Message([
    created_at |-> Required(1, "string"),
    document |-> Required(2, "VersionDocument"),
    name |-> Required(3, "string"), version_id |-> Required(4, "string")])
StrategyVersionRequest == Message([
    configuration_id |-> Required(1, "string"),
    name |-> Required(2, "string"), run_ids |-> Many(3, "string")])
VersionCreated == Message([version_id |-> Required(1, "string")])
VersionDocument == Message([
    code_revision |-> Required(1, "string"),
    configuration |-> Required(2, "SavedConfiguration"),
    evidence |-> Many(3, "RunDetail"), validation |-> Required(4, "Struct")])
GetApiConfigurationsResponse == Array("SavedConfiguration")
GetApiDatasetsResponse == Array("DatasetSummary")
GetApiFactorRevisionsResponse == Array("FactorRevision")
GetApiFactorRunsResponse == Array("FactorRun")
GetApiPaperResponse == Array("PaperSession")
GetApiResearchAttemptsResponse == Array("ResearchAttempt")
PostApiRunComparisonsResponse == Array("Comparison")
GetApiRunsResponse == Array("RunSummary")
GetApiStrategyCandidatesResponse == Array("StrategyCandidate")
GetApiStrategyVersionsResponse == Array("StrategyVersion")
ResearchTask == EvidenceMessage([
    task_id |-> Required(1, "string"), snapshot_id |-> Required(2, "string"),
    snapshot_hash |-> Required(3, "string"),
    code_revision |-> Required(4, "string"),
    created_at |-> Required(5, "string"), status |-> Required(6, "string"),
    completed |-> Required(7, "int64"), total |-> Required(8, "int64"),
    run_id |-> Nullable(9, "string"), reason |-> Required(10, "string"),
    config |-> Required(11, "Struct"), attempts |-> Many(12, "Struct")])
TaskRequest == Message([
    request_id |-> Required(1, "string"),
    snapshot_id |-> Required(2, "string"),
    config |-> Required(3, "ResearchConfigurationInput")])
TaskControl == Message([action |-> Required(1, "string")])
TaskList == Array("ResearchTask")
Empty == Message(NoFields)
Error == Message([
    detail |-> Optional(1, "string"), status |-> Optional(2, "string"),
    request_id |-> Optional(3, "string"),
    runtime_id |-> Optional(4, "string"), url |-> Optional(5, "string"),
    rejection_id |-> Optional(6, "string")])

(* The registry of the page: every message by its name. *)
Messages == [
    Struct |-> Struct, Value |-> Value, ListValue |-> ListValue,
    AdvanceRequest |-> AdvanceRequest, Annotation |-> Annotation,
    AnnotationRequest |-> AnnotationRequest,
    BrowserSession |-> BrowserSession, Catalog |-> Catalog,
    Comparison |-> Comparison, ComparisonRequest |-> ComparisonRequest,
    ConfigurationRequest |-> ConfigurationRequest,
    DatasetDetails |-> DatasetDetails, DatasetLineage |-> DatasetLineage,
    DatasetSummary |-> DatasetSummary, EquityPoint |-> EquityPoint,
    FactorBinding |-> FactorBinding, FactorDescription |-> FactorDescription,
    FactorInput |-> FactorInput, FactorResult |-> FactorResult,
    FactorRevision |-> FactorRevision,
    FactorRevisionRequest |-> FactorRevisionRequest, FactorRun |-> FactorRun,
    FactorRunRequest |-> FactorRunRequest, FactorSummary |-> FactorSummary,
    FactorValue |-> FactorValue, FixedFactor |-> FixedFactor,
    FixedStrategy |-> FixedStrategy, HttpError |-> HttpError,
    ImportSpecification |-> ImportSpecification,
    PaperAdvanced |-> PaperAdvanced, PaperRequest |-> PaperRequest,
    PaperSession |-> PaperSession,
    ParameterDescription |-> ParameterDescription,
    PublishRequest |-> PublishRequest, Readiness |-> Readiness,
    ResearchAttempt |-> ResearchAttempt,
    ResearchConfiguration |-> ResearchConfiguration,
    ResearchConfigurationInput |-> ResearchConfigurationInput,
    ResearchResultDocument |-> ResearchResultDocument,
    ResearchSummary |-> ResearchSummary, RevisionCreated |-> RevisionCreated,
    RiskInput |-> RiskInput, RunDetail |-> RunDetail,
    RunSummary |-> RunSummary, SavedConfiguration |-> SavedConfiguration,
    SimulationInput |-> SimulationInput,
    SnapshotReference |-> SnapshotReference,
    StrategyCandidate |-> StrategyCandidate,
    StrategyDescription |-> StrategyDescription,
    StrategyInput |-> StrategyInput, StrategySummary |-> StrategySummary,
    StrategyVersion |-> StrategyVersion,
    StrategyVersionRequest |-> StrategyVersionRequest,
    VersionCreated |-> VersionCreated, VersionDocument |-> VersionDocument,
    GetApiConfigurationsResponse |-> GetApiConfigurationsResponse,
    GetApiDatasetsResponse |-> GetApiDatasetsResponse,
    GetApiFactorRevisionsResponse |-> GetApiFactorRevisionsResponse,
    GetApiFactorRunsResponse |-> GetApiFactorRunsResponse,
    GetApiPaperResponse |-> GetApiPaperResponse,
    GetApiResearchAttemptsResponse |-> GetApiResearchAttemptsResponse,
    PostApiRunComparisonsResponse |-> PostApiRunComparisonsResponse,
    GetApiRunsResponse |-> GetApiRunsResponse,
    GetApiStrategyCandidatesResponse |-> GetApiStrategyCandidatesResponse,
    GetApiStrategyVersionsResponse |-> GetApiStrategyVersionsResponse,
    ResearchTask |-> ResearchTask, TaskRequest |-> TaskRequest,
    TaskControl |-> TaskControl, TaskList |-> TaskList, Empty |-> Empty,
    Error |-> Error]

(* The calls of the API: verb, path, what is sent and what is answered. *)
Calls == {
    <<"POST", "/api/tasks", "TaskRequest", "ResearchTask">>,
    <<"GET", "/api/tasks", "Empty", "TaskList">>,
    <<"GET", "/api/tasks/{task_id}", "Empty", "ResearchTask">>,
    <<"POST", "/api/tasks/{task_id}/control", "TaskControl", "ResearchTask">>,
    <<"GET", "/api/browser-session", "Empty", "BrowserSession">>,
    <<"GET", "/api/catalog", "Empty", "Catalog">>,
    <<"GET", "/api/configuration-defaults", "Empty", "ResearchConfiguration">>,
    <<"GET", "/api/configurations", "Empty", "GetApiConfigurationsResponse">>,
    <<"POST", "/api/configurations", "ConfigurationRequest", "SavedConfiguration">>,
    <<"GET", "/api/datasets", "Empty", "GetApiDatasetsResponse">>,
    <<"GET", "/api/datasets/{snapshot_id}", "Empty", "DatasetDetails">>,
    <<"GET", "/api/datasets/{snapshot_id}/lineage", "Empty", "DatasetLineage">>,
    <<"GET", "/api/factor-definitions/{factor_id}", "Empty", "FactorDescription">>,
    <<"GET", "/api/factor-revisions", "Empty", "GetApiFactorRevisionsResponse">>,
    <<"POST", "/api/factor-revisions", "FactorRevisionRequest", "RevisionCreated">>,
    <<"POST", "/api/factor-revisions/{revision_id}/annotations", "AnnotationRequest", "RevisionCreated">>,
    <<"GET", "/api/factor-runs", "Empty", "GetApiFactorRunsResponse">>,
    <<"POST", "/api/factor-runs", "FactorRunRequest", "FactorRun">>,
    <<"GET", "/api/factor-runs/{attempt_id}", "Empty", "FactorRun">>,
    <<"GET", "/api/paper", "Empty", "GetApiPaperResponse">>,
    <<"POST", "/api/paper", "PaperRequest", "PaperSession">>,
    <<"GET", "/api/paper/{session_id}", "Empty", "PaperSession">>,
    <<"POST", "/api/paper/{session_id}/advance", "AdvanceRequest", "PaperAdvanced">>,
    <<"GET", "/api/research-attempts", "Empty", "GetApiResearchAttemptsResponse">>,
    <<"POST", "/api/run-comparisons", "ComparisonRequest", "PostApiRunComparisonsResponse">>,
    <<"GET", "/api/runs", "Empty", "GetApiRunsResponse">>,
    <<"GET", "/api/runs/{run_id}", "Empty", "RunDetail">>,
    <<"GET", "/api/strategy-candidates", "Empty", "GetApiStrategyCandidatesResponse">>,
    <<"GET", "/api/strategy-definitions/{strategy_id}", "Empty", "StrategyDescription">>,
    <<"GET", "/api/strategy-versions", "Empty", "GetApiStrategyVersionsResponse">>,
    <<"POST", "/api/strategy-versions", "StrategyVersionRequest", "VersionCreated">>,
    <<"GET", "/api/strategy-versions/{version_id}", "Empty", "StrategyVersion">>,
    <<"POST", "/api/strategy-versions/{version_id}/publish", "PublishRequest", "StrategyCandidate">>}
=============================================================================
