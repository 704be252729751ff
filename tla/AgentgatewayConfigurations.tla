-------------------- MODULE AgentgatewayConfigurations --------------------
(***************************************************************************)
(* The 102 kinds of apply configuration that applyconfiguration-gen writes *)
(* into mycelium/internal/applyconfiguration for the agentgateway API, as  *)
(* a table: the With methods of each kind and what each does with its      *)
(* argument.                                                               *)
(*                                                                         *)
(*   Sets          WithF(v) makes the field point to a copy of v           *)
(*   Appends       WithF(v, ...) appends copies of the values              *)
(*   Merges        WithF(entries) puts the entries into the field's map    *)
(*   Holds(k)      WithF(c) keeps the pointer c to a configuration of      *)
(*                 kind k                                                  *)
(*   Collects(k)   WithF(c, ...) appends copies of what the pointers point *)
(*                 to, and panics at a pointer that is nil                 *)
(*                                                                         *)
(* A struct that is embedded by value contributes its fields (@@): the     *)
(* generated methods of the outer kind write to them in the same way.      *)
(***************************************************************************)
EXTENDS TLC

Sets        == [does |-> "sets",     kind |-> "value"]
Appends     == [does |-> "appends",  kind |-> "value"]
Merges      == [does |-> "merges",   kind |-> "value"]
Holds(k)    == [does |-> "holds",    kind |-> k]
Collects(k) == [does |-> "collects", kind |-> k]

\* CORS and Retry embed a struct of another package, whose fields have no
\* With methods.
NoMethods   == [f \in {} |-> Sets]

\* TypeMeta, and what is reached through the pointer to ObjectMeta, which
\* every method makes sure exists (ensureObjectMetaApplyConfigurationExists).
TypeMeta   == [Kind |-> Sets, APIVersion |-> Sets]
ObjectMeta == [Name |-> Sets, GenerateName |-> Sets, Namespace |-> Sets, UID |-> Sets,
    ResourceVersion |-> Sets, Generation |-> Sets, CreationTimestamp |-> Sets,
    DeletionTimestamp |-> Sets, DeletionGracePeriodSeconds |-> Sets, Labels |-> Merges,
    Annotations |-> Merges, OwnerReferences |-> Collects("OwnerReference"), Finalizers |-> Appends]
Root       == TypeMeta @@ ObjectMeta

AccessLog == [Filter |-> Sets, Attributes |-> Holds("LogTracingAttributes"),
    Otlp |-> Holds("OtlpAccessLog")]
AgentExtAuthGRPC == [ContextExtensions |-> Merges, RequestMetadata |-> Merges]
AgentExtAuthHTTP == [Path |-> Sets, Redirect |-> Sets, AllowedRequestHeaders |-> Appends,
    AddRequestHeaders |-> Merges, AllowedResponseHeaders |-> Appends, ResponseMetadata |-> Merges]
AgentgatewayBackend == Root @@ [Spec |-> Holds("AgentgatewayBackendSpec"),
    Status |-> Holds("AgentgatewayBackendStatus")]
AgentgatewayBackendSpec == [Static |-> Holds("StaticBackend"), AI |-> Holds("AIBackend"),
    MCP |-> Holds("MCPBackend"), DynamicForwardProxy |-> Sets, Aws |-> Holds("AwsBackend"),
    Policies |-> Holds("BackendFull")]
AgentgatewayBackendStatus == [Conditions |-> Collects("Condition")]
AgentgatewayParameters == Root @@ [Spec |-> Holds("AgentgatewayParametersSpec"), Status |-> Sets]
AgentgatewayParametersConfigs == [Logging |-> Holds("AgentgatewayParametersLogging"),
    RawConfig |-> Sets, Image |-> Holds("Image"), Env |-> Appends, Resources |-> Sets,
    Shutdown |-> Holds("ShutdownSpec"), Istio |-> Holds("IstioSpec")]
AgentgatewayParametersLogging == [Level |-> Sets, Format |-> Sets]
AgentgatewayParametersOverlays == [Deployment |-> Sets, Service |-> Sets, ServiceAccount |-> Sets,
    PodDisruptionBudget |-> Sets, HorizontalPodAutoscaler |-> Sets]
AgentgatewayParametersSpec == AgentgatewayParametersConfigs @@ AgentgatewayParametersOverlays
AgentgatewayPolicy == Root @@ [Spec |-> Holds("AgentgatewayPolicySpec"), Status |-> Sets]
AgentgatewayPolicySpec == [TargetRefs |-> Appends, TargetSelectors |-> Appends,
    Frontend |-> Holds("Frontend"), Traffic |-> Holds("Traffic"), Backend |-> Holds("BackendFull")]
AIBackend == [LLM |-> Holds("LLMProvider"), PriorityGroups |-> Collects("PriorityGroup")]
AIPromptEnrichment == [Prepend |-> Collects("Message"), Append |-> Collects("Message")]
AIPromptGuard == [Request |-> Collects("PromptguardRequest"),
    Response |-> Collects("PromptguardResponse")]
AnthropicConfig == [Model |-> Sets]
APIKeyAuthentication == [Mode |-> Sets, SecretRef |-> Sets, SecretSelector |-> Holds("SecretSelector")]
AttributeAdd == [Name |-> Sets, Expression |-> Sets]
AwsAgentCoreBackend == [AgentRuntimeArn |-> Sets, Qualifier |-> Sets]
AwsAuth == [SecretRef |-> Sets]
AwsBackend == [AgentCore |-> Holds("AwsAgentCoreBackend")]
AWSGuardrailConfig == [GuardrailIdentifier |-> Sets, GuardrailVersion |-> Sets]
AzureAuth == [SecretRef |-> Sets, ManagedIdentity |-> Holds("AzureManagedIdentity")]
AzureConfig == [ResourceName |-> Sets, ResourceType |-> Sets, Model |-> Sets, ApiVersion |-> Sets,
    ProjectName |-> Sets]
AzureManagedIdentity == [ClientID |-> Sets, ObjectID |-> Sets, ResourceID |-> Sets]
AzureOpenAIConfig == [Endpoint |-> Sets, DeploymentName |-> Sets, ApiVersion |-> Sets]
BackendAI == [PromptEnrichment |-> Holds("AIPromptEnrichment"), PromptGuard |-> Holds("AIPromptGuard"),
    Defaults |-> Collects("FieldDefault"), Overrides |-> Collects("FieldDefault"),
    Transformations |-> Collects("FieldTransformation"), ModelAliases |-> Merges,
    PromptCaching |-> Holds("PromptCachingConfig"), Routes |-> Merges]
BackendAuth == [InlineKey |-> Sets, SecretRef |-> Sets, Passthrough |-> Sets, AWS |-> Holds("AwsAuth"),
    Azure |-> Holds("AzureAuth"), GCP |-> Holds("GcpAuth")]
BackendEviction == [Duration |-> Sets, RestoreHealth |-> Sets, ConsecutiveFailures |-> Sets,
    HealthThreshold |-> Sets]
BackendSimple == [TCP |-> Holds("BackendTCP"), TLS |-> Holds("BackendTLS"),
    HTTP |-> Holds("BackendHTTP"), Tunnel |-> Holds("BackendTunnel"),
    Transformation |-> Holds("Transformation"), Auth |-> Holds("BackendAuth"),
    Health |-> Holds("Health")]
BackendFull == BackendSimple @@ [AI |-> Holds("BackendAI"), MCP |-> Holds("BackendMCP")]
BackendHTTP == [Version |-> Sets, RequestTimeout |-> Sets]
BackendMCP == [Authorization |-> Sets, Authentication |-> Holds("MCPAuthentication")]
BackendTCP == [Keepalive |-> Holds("Keepalive"), ConnectTimeout |-> Sets]
BackendTLS == [MtlsCertificateRef |-> Appends, CACertificateRefs |-> Appends,
    InsecureSkipVerify |-> Sets, Sni |-> Sets, VerifySubjectAltNames |-> Appends,
    AlpnProtocols |-> Sets]
BackendTunnel == [BackendRef |-> Sets]
BackendWithAI == BackendSimple @@ [AI |-> Holds("BackendAI")]
BasicAuthentication == [Mode |-> Sets, Realm |-> Sets, Users |-> Appends, SecretRef |-> Sets]
BedrockConfig == [Region |-> Sets, Model |-> Sets, Guardrail |-> Holds("AWSGuardrailConfig")]
BedrockGuardrails == [GuardrailIdentifier |-> Sets, GuardrailVersion |-> Sets, Region |-> Sets,
    Policies |-> Holds("BackendSimple")]
CORS == NoMethods
CSRF == [AdditionalOrigins |-> Appends]
CustomResponse == [Message |-> Sets, StatusCode |-> Sets]
DirectResponse == [StatusCode |-> Sets, Body |-> Sets]
ExtAuth == [BackendRef |-> Sets, FailureMode |-> Sets, GRPC |-> Holds("AgentExtAuthGRPC"),
    HTTP |-> Holds("AgentExtAuthHTTP"), ForwardBody |-> Holds("ExtAuthBody")]
ExtAuthBody == [MaxSize |-> Sets]
ExtProc == [BackendRef |-> Sets]
FieldDefault == [Field |-> Sets, Value |-> Sets]
FieldTransformation == [Field |-> Sets, Expression |-> Sets]
Frontend == [TCP |-> Holds("FrontendTCP"), NetworkAuthorization |-> Sets, TLS |-> Holds("FrontendTLS"),
    HTTP |-> Holds("FrontendHTTP"), AccessLog |-> Holds("AccessLog"), Tracing |-> Holds("Tracing")]
FrontendHTTP == [MaxBufferSize |-> Sets, HTTP1MaxHeaders |-> Sets, HTTP1IdleTimeout |-> Sets,
    HTTP2WindowSize |-> Sets, HTTP2ConnectionWindowSize |-> Sets, HTTP2FrameSize |-> Sets,
    HTTP2KeepaliveInterval |-> Sets, HTTP2KeepaliveTimeout |-> Sets]
FrontendTCP == [KeepAlive |-> Holds("Keepalive")]
FrontendTLS == [HandshakeTimeout |-> Sets, AlpnProtocols |-> Sets, MinTLSVersion |-> Sets,
    MaxTLSVersion |-> Sets, CipherSuites |-> Appends]
GcpAuth == [Type |-> Sets, Audience |-> Sets]
GeminiConfig == [Model |-> Sets]
GlobalRateLimit == [BackendRef |-> Sets, FailureMode |-> Sets, Domain |-> Sets,
    Descriptors |-> Collects("RateLimitDescriptor")]
GoogleModelArmor == [TemplateID |-> Sets, ProjectID |-> Sets, Location |-> Sets,
    Policies |-> Holds("BackendSimple")]
HeaderTransformation == [Name |-> Sets, Value |-> Sets]
Health == [UnhealthyCondition |-> Sets, Eviction |-> Holds("BackendEviction")]
HostnameRewrite == [Mode |-> Sets]
Image == [Registry |-> Sets, Repository |-> Sets, Tag |-> Sets, Digest |-> Sets, PullPolicy |-> Sets]
IstioSpec == [CaAddress |-> Sets, TrustDomain |-> Sets]
JWKS == [Remote |-> Holds("RemoteJWKS"), Inline |-> Sets]
JWTAuthentication == [Mode |-> Sets, Providers |-> Collects("JWTProvider"),
    MCP |-> Holds("JWTMCPConfig")]
JWTMCPConfig == [ResourceMetadata |-> Merges, Provider |-> Sets]
JWTProvider == [Issuer |-> Sets, Audiences |-> Appends, JWKS |-> Holds("JWKS")]
Keepalive == [Retries |-> Sets, Time |-> Sets, Interval |-> Sets]
LLMProvider == [OpenAI |-> Holds("OpenAIConfig"), AzureOpenAI |-> Holds("AzureOpenAIConfig"),
    Azure |-> Holds("AzureConfig"), Anthropic |-> Holds("AnthropicConfig"),
    Gemini |-> Holds("GeminiConfig"), VertexAI |-> Holds("VertexAIConfig"),
    Bedrock |-> Holds("BedrockConfig"), Host |-> Sets, Port |-> Sets, Path |-> Sets,
    PathPrefix |-> Sets]
LocalRateLimit == [Requests |-> Sets, Tokens |-> Sets, Unit |-> Sets, Burst |-> Sets]
LogTracingAttributes == [Remove |-> Appends, Add |-> Collects("AttributeAdd")]
MCPAuthentication == [ResourceMetadata |-> Merges, McpIDP |-> Sets, Issuer |-> Sets,
    Audiences |-> Appends, JWKS |-> Holds("RemoteJWKS"), Mode |-> Sets]
MCPBackend == [Targets |-> Collects("McpTargetSelector"), SessionRouting |-> Sets, FailureMode |-> Sets]
McpSelector == [Namespace |-> Holds("LabelSelector"), Service |-> Holds("LabelSelector")]
McpTarget == [Host |-> Sets, BackendRef |-> Sets, Port |-> Sets, Path |-> Sets, Protocol |-> Sets,
    Policies |-> Holds("BackendSimple")]
McpTargetSelector == [Name |-> Sets, Selector |-> Holds("McpSelector"), Static |-> Holds("McpTarget")]
Message == [Role |-> Sets, Content |-> Sets]
NamedLLMProvider == LLMProvider @@ [Name |-> Sets, Policies |-> Holds("BackendWithAI")]
OpenAIConfig == [Model |-> Sets]
OpenAIModeration == [Model |-> Sets, Policies |-> Holds("BackendSimple")]
OtlpAccessLog == [BackendRef |-> Sets, Protocol |-> Sets, Path |-> Sets]
PriorityGroup == [Providers |-> Collects("NamedLLMProvider")]
PromptCachingConfig == [CacheSystem |-> Sets, CacheMessages |-> Sets, CacheTools |-> Sets,
    MinTokens |-> Sets, CacheMessageOffset |-> Sets]
PromptguardRequest == [CustomResponse |-> Holds("CustomResponse"), Regex |-> Holds("Regex"),
    Webhook |-> Holds("Webhook"), OpenAIModeration |-> Holds("OpenAIModeration"),
    BedrockGuardrails |-> Holds("BedrockGuardrails"), GoogleModelArmor |-> Holds("GoogleModelArmor")]
PromptguardResponse == [CustomResponse |-> Holds("CustomResponse"), Regex |-> Holds("Regex"),
    Webhook |-> Holds("Webhook"), BedrockGuardrails |-> Holds("BedrockGuardrails"),
    GoogleModelArmor |-> Holds("GoogleModelArmor")]
RateLimitDescriptor == [Entries |-> Collects("RateLimitDescriptorEntry"), Unit |-> Sets]
RateLimitDescriptorEntry == [Name |-> Sets, Expression |-> Sets]
RateLimits == [Local |-> Collects("LocalRateLimit"), Global |-> Holds("GlobalRateLimit")]
Regex == [Matches |-> Appends, Builtins |-> Appends, Action |-> Sets]
RemoteJWKS == [JwksPath |-> Sets, CacheDuration |-> Sets, BackendRef |-> Sets]
ResourceAdd == [Name |-> Sets, Expression |-> Sets]
Retry == NoMethods
SecretSelector == [MatchLabels |-> Merges]
ShutdownSpec == [Min |-> Sets, Max |-> Sets]
StaticBackend == [Host |-> Sets, Port |-> Sets, UnixPath |-> Sets]
Timeouts == [Request |-> Sets]
Tracing == [BackendRef |-> Sets, Protocol |-> Sets, Path |-> Sets,
    Attributes |-> Holds("LogTracingAttributes"), Resources |-> Collects("ResourceAdd"),
    RandomSampling |-> Sets, ClientSampling |-> Sets]
Traffic == [Phase |-> Sets, Transformation |-> Holds("Transformation"), ExtProc |-> Holds("ExtProc"),
    ExtAuth |-> Holds("ExtAuth"), RateLimit |-> Holds("RateLimits"), Cors |-> Holds("CORS"),
    Csrf |-> Holds("CSRF"), HeaderModifiers |-> Sets, HostnameRewrite |-> Holds("HostnameRewrite"),
    Timeouts |-> Holds("Timeouts"), Retry |-> Holds("Retry"), Authorization |-> Sets,
    JWTAuthentication |-> Holds("JWTAuthentication"),
    BasicAuthentication |-> Holds("BasicAuthentication"),
    APIKeyAuthentication |-> Holds("APIKeyAuthentication"), DirectResponse |-> Holds("DirectResponse")]
Transform == [Set |-> Collects("HeaderTransformation"), Add |-> Collects("HeaderTransformation"),
    Remove |-> Appends, Body |-> Sets, Metadata |-> Merges]
Transformation == [Request |-> Holds("Transform"), Response |-> Holds("Transform")]
VertexAIConfig == [Model |-> Sets, ProjectId |-> Sets, Region |-> Sets]
Webhook == [BackendRef |-> Sets, ForwardHeaderMatches |-> Appends]

\* Configurations of other packages that are held or collected, by one field.
OwnerReference == [Name |-> Sets]
Condition      == [Type |-> Sets]
LabelSelector  == [MatchLabels |-> Merges]

\* ForKind(kind) gives an empty configuration of that kind.
ForKind == [AccessLog |-> AccessLog, AgentExtAuthGRPC |-> AgentExtAuthGRPC,
    AgentExtAuthHTTP |-> AgentExtAuthHTTP, AgentgatewayBackend |-> AgentgatewayBackend,
    AgentgatewayBackendSpec |-> AgentgatewayBackendSpec,
    AgentgatewayBackendStatus |-> AgentgatewayBackendStatus,
    AgentgatewayParameters |-> AgentgatewayParameters,
    AgentgatewayParametersConfigs |-> AgentgatewayParametersConfigs,
    AgentgatewayParametersLogging |-> AgentgatewayParametersLogging,
    AgentgatewayParametersOverlays |-> AgentgatewayParametersOverlays,
    AgentgatewayParametersSpec |-> AgentgatewayParametersSpec,
    AgentgatewayPolicy |-> AgentgatewayPolicy, AgentgatewayPolicySpec |-> AgentgatewayPolicySpec,
    AIBackend |-> AIBackend, AIPromptEnrichment |-> AIPromptEnrichment, AIPromptGuard |-> AIPromptGuard,
    AnthropicConfig |-> AnthropicConfig, APIKeyAuthentication |-> APIKeyAuthentication,
    AttributeAdd |-> AttributeAdd, AwsAgentCoreBackend |-> AwsAgentCoreBackend, AwsAuth |-> AwsAuth,
    AwsBackend |-> AwsBackend, AWSGuardrailConfig |-> AWSGuardrailConfig, AzureAuth |-> AzureAuth,
    AzureConfig |-> AzureConfig, AzureManagedIdentity |-> AzureManagedIdentity,
    AzureOpenAIConfig |-> AzureOpenAIConfig, BackendAI |-> BackendAI, BackendAuth |-> BackendAuth,
    BackendEviction |-> BackendEviction, BackendSimple |-> BackendSimple, BackendFull |-> BackendFull,
    BackendHTTP |-> BackendHTTP, BackendMCP |-> BackendMCP, BackendTCP |-> BackendTCP,
    BackendTLS |-> BackendTLS, BackendTunnel |-> BackendTunnel, BackendWithAI |-> BackendWithAI,
    BasicAuthentication |-> BasicAuthentication, BedrockConfig |-> BedrockConfig,
    BedrockGuardrails |-> BedrockGuardrails, CORS |-> CORS, CSRF |-> CSRF,
    CustomResponse |-> CustomResponse, DirectResponse |-> DirectResponse, ExtAuth |-> ExtAuth,
    ExtAuthBody |-> ExtAuthBody, ExtProc |-> ExtProc, FieldDefault |-> FieldDefault,
    FieldTransformation |-> FieldTransformation, Frontend |-> Frontend, FrontendHTTP |-> FrontendHTTP,
    FrontendTCP |-> FrontendTCP, FrontendTLS |-> FrontendTLS, GcpAuth |-> GcpAuth,
    GeminiConfig |-> GeminiConfig, GlobalRateLimit |-> GlobalRateLimit,
    GoogleModelArmor |-> GoogleModelArmor, HeaderTransformation |-> HeaderTransformation,
    Health |-> Health, HostnameRewrite |-> HostnameRewrite, Image |-> Image, IstioSpec |-> IstioSpec,
    JWKS |-> JWKS, JWTAuthentication |-> JWTAuthentication, JWTMCPConfig |-> JWTMCPConfig,
    JWTProvider |-> JWTProvider, Keepalive |-> Keepalive, LLMProvider |-> LLMProvider,
    LocalRateLimit |-> LocalRateLimit, LogTracingAttributes |-> LogTracingAttributes,
    MCPAuthentication |-> MCPAuthentication, MCPBackend |-> MCPBackend, McpSelector |-> McpSelector,
    McpTarget |-> McpTarget, McpTargetSelector |-> McpTargetSelector, Message |-> Message,
    NamedLLMProvider |-> NamedLLMProvider, OpenAIConfig |-> OpenAIConfig,
    OpenAIModeration |-> OpenAIModeration, OtlpAccessLog |-> OtlpAccessLog,
    PriorityGroup |-> PriorityGroup, PromptCachingConfig |-> PromptCachingConfig,
    PromptguardRequest |-> PromptguardRequest, PromptguardResponse |-> PromptguardResponse,
    RateLimitDescriptor |-> RateLimitDescriptor, RateLimitDescriptorEntry |-> RateLimitDescriptorEntry,
    RateLimits |-> RateLimits, Regex |-> Regex, RemoteJWKS |-> RemoteJWKS, ResourceAdd |-> ResourceAdd,
    Retry |-> Retry, SecretSelector |-> SecretSelector, ShutdownSpec |-> ShutdownSpec,
    StaticBackend |-> StaticBackend, Timeouts |-> Timeouts, Tracing |-> Tracing, Traffic |-> Traffic,
    Transform |-> Transform, Transformation |-> Transformation, VertexAIConfig |-> VertexAIConfig,
    Webhook |-> Webhook]

\* The kinds whose constructor takes a name and a namespace and stamps the
\* kind and the API version; those of all others return an empty struct.
RootKinds == {"AgentgatewayBackend", "AgentgatewayParameters", "AgentgatewayPolicy"}

WithMethods == ForKind @@ [OwnerReference |-> OwnerReference, Condition |-> Condition,
    LabelSelector |-> LabelSelector]
=============================================================================
