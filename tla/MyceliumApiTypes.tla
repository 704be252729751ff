-------------------------- MODULE MyceliumApiTypes --------------------------
(***************************************************************************)
(* The types of mycelium/api/v1alpha1 as far as they matter to a copy:     *)
(* the fields of every struct that hold or contain references, and what    *)
(* its generated DeepCopyInto does after *out = *in.                       *)
(*                                                                         *)
(*   Pointer(t), Slice(t)   the field refers to memory of its own          *)
(*   Struct(t)              the field is part of the struct's memory       *)
(*                                                                         *)
(* DeepCopy<t> lists the fields for which DeepCopyInto does more, in its   *)
(* order: for a Pointer or a Slice that is not nil it makes new memory and *)
(* copies what was referred to, for a Struct it calls its DeepCopyInto.    *)
(* An assignment out.F = in.F does again what *out = *in has done.         *)
(***************************************************************************)
EXTENDS Naturals, Sequences, SequencesExt

Pointer(t) == [is |-> "reference", of |-> t]
Slice(t)   == [is |-> "reference", of |-> t]
Struct(t)  == [is |-> "part",      of |-> t]
Flat       == [f \in {} |-> Struct("")]

\* agent_types.go
ToolRef == Flat
RateLimitConfig == Flat
ToolBinding == [ToolRef |-> Struct("ToolRef"), RateLimit |-> Pointer("RateLimitConfig")]
SandboxPoolConfig == [Replicas |-> Pointer("int32")]
MyceliumAgentSpec ==
    [ToolBindings |-> Slice("ToolBinding"), SandboxPool |-> Struct("SandboxPoolConfig")]
ToolBindingStatus == [ToolRef |-> Struct("ToolRef"), Conditions |-> Slice("Condition")]
MyceliumAgentStatus ==
    [BaseMyceliumResourceStatus |-> Struct("BaseMyceliumResourceStatus"),
     ToolBindings |-> Slice("ToolBindingStatus"),
     ServiceAccount |-> Struct("ReferencedResourceStatus")]
MyceliumAgent ==
    [ObjectMeta |-> Struct("ObjectMeta"), Spec |-> Struct("MyceliumAgentSpec"),
     Status |-> Struct("MyceliumAgentStatus")]
MyceliumAgentList == [ListMeta |-> Struct("ListMeta"), Items |-> Slice("MyceliumAgent")]

\* authorizer_types.go
MyceliumAuthorizerSpec == [JWT |-> Pointer("JWTAuthorizerConfig")]
JWTAuthorizerConfig ==
    [Audiences |-> Slice("string"), AllowedClients |-> Slice("string"),
     AllowedScopes |-> Slice("string")]
MyceliumAuthorizerStatus ==
    [BaseMyceliumResourceStatus |-> Struct("BaseMyceliumResourceStatus")]
MyceliumAuthorizer ==
    [ObjectMeta |-> Struct("ObjectMeta"), Spec |-> Struct("MyceliumAuthorizerSpec"),
     Status |-> Struct("MyceliumAuthorizerStatus")]
MyceliumAuthorizerList == [ListMeta |-> Struct("ListMeta"), Items |-> Slice("MyceliumAuthorizer")]

\* credentialprovider_types.go
OAuthDiscoveryConfig ==
    [DiscoveryURL |-> Pointer("string"),
     AuthorizationServerMetadata |-> Pointer("OAuthAuthorizationServerMetadata")]
OAuthAuthorizationServerMetadata ==
    [ResponseTypes |-> Slice("string"), TokenEndpointAuthMethods |-> Slice("string")]
OAuthCredentialProviderConfig ==
    [ClientSecretRef |-> Struct("SecretKeySelector"), Discovery |-> Struct("OAuthDiscoveryConfig")]
APIKeyCredentialProviderConfig == [SecretRef |-> Struct("SecretKeySelector")]
MyceliumCredentialProviderSpec ==
    [OAuth |-> Pointer("OAuthCredentialProviderConfig"),
     APIKey |-> Pointer("APIKeyCredentialProviderConfig")]
MyceliumCredentialProviderStatus ==
    [BaseMyceliumResourceStatus |-> Struct("BaseMyceliumResourceStatus")]
MyceliumCredentialProvider ==
    [ObjectMeta |-> Struct("ObjectMeta"), Spec |-> Struct("MyceliumCredentialProviderSpec"),
     Status |-> Struct("MyceliumCredentialProviderStatus")]
MyceliumCredentialProviderList ==
    [ListMeta |-> Struct("ListMeta"), Items |-> Slice("MyceliumCredentialProvider")]

\* ecosystem_types.go
MyceliumEcosystemSpec == Flat
MyceliumEcosystemStatus ==
    [BaseMyceliumResourceStatus |-> Struct("BaseMyceliumResourceStatus")]
MyceliumEcosystem ==
    [ObjectMeta |-> Struct("ObjectMeta"), Spec |-> Struct("MyceliumEcosystemSpec"),
     Status |-> Struct("MyceliumEcosystemStatus")]
MyceliumEcosystemList == [ListMeta |-> Struct("ListMeta"), Items |-> Slice("MyceliumEcosystem")]

\* resource_status_types.go
BaseMyceliumResourceStatus == [Conditions |-> Slice("Condition")]
ReferencedResourceStatus ==
    [ResourceRef |-> Pointer("TypedObjectReference"), Conditions |-> Slice("Condition")]

\* tool_types.go
CredentialProviderRef == Flat
CredentialProviderBinding ==
    [OAuth |-> Pointer("OAuthCredentialProviderBinding"),
     APIKey |-> Pointer("APIKeyCredentialProviderBinding")]
OAuthCredentialProviderBinding ==
    [CredentialProviderRef |-> Struct("CredentialProviderRef"), Scopes |-> Slice("string")]
APIKeyCredentialProviderBinding == [CredentialProviderRef |-> Struct("CredentialProviderRef")]
WorkerPoolConfig == [MinReplicas |-> Pointer("int32"), MaxReplicas |-> Pointer("int32")]
MyceliumToolSpec ==
    [CredentialProviderBindings |-> Slice("CredentialProviderBinding"),
     InputSchema |-> Pointer("JSON"), WorkerPool |-> Struct("WorkerPoolConfig")]
CredentialProviderBindingsStatus == [CredentialProviders |-> Slice("ReferencedResourceStatus")]
MyceliumToolStatus == [BaseMyceliumResourceStatus |-> Struct("BaseMyceliumResourceStatus")]
MyceliumTool ==
    [ObjectMeta |-> Struct("ObjectMeta"), Spec |-> Struct("MyceliumToolSpec"),
     Status |-> Struct("MyceliumToolStatus")]
MyceliumToolList == [ListMeta |-> Struct("ListMeta"), Items |-> Slice("MyceliumTool")]

\* Types of other packages, by one reference of each that has any, which their
\* own DeepCopyInto copies.
ObjectMeta        == [Labels |-> Pointer("map")]
ListMeta          == [RemainingItemCount |-> Pointer("int64")]
SecretKeySelector == [Optional |-> Pointer("bool")]

-----------------------------------------------------------------------------
(* zz_generated.deepcopy.go                                                *)

DeepCopyAPIKeyCredentialProviderBinding == <<>>
DeepCopyAPIKeyCredentialProviderConfig  == <<"SecretRef">>
DeepCopyBaseMyceliumResourceStatus      == <<"Conditions">>
DeepCopyCredentialProviderBinding       == <<"OAuth", "APIKey">>
DeepCopyCredentialProviderBindingsStatus == <<"CredentialProviders">>
DeepCopyCredentialProviderRef           == <<>>
DeepCopyJWTAuthorizerConfig             == <<"Audiences", "AllowedClients", "AllowedScopes">>
DeepCopyMyceliumAgent                   == <<"ObjectMeta", "Spec", "Status">>
DeepCopyMyceliumAgentList               == <<"ListMeta", "Items">>
DeepCopyMyceliumAgentSpec               == <<"ToolBindings", "SandboxPool">>
DeepCopyMyceliumAgentStatus             == <<"BaseMyceliumResourceStatus", "ToolBindings">>
DeepCopyMyceliumAuthorizer              == <<"ObjectMeta", "Spec", "Status">>
DeepCopyMyceliumAuthorizerList          == <<"ListMeta", "Items">>
DeepCopyMyceliumAuthorizerSpec          == <<"JWT">>
DeepCopyMyceliumAuthorizerStatus        == <<"BaseMyceliumResourceStatus">>
DeepCopyMyceliumCredentialProvider      == <<"ObjectMeta", "Spec", "Status">>
DeepCopyMyceliumCredentialProviderList  == <<"ListMeta", "Items">>
DeepCopyMyceliumCredentialProviderSpec  == <<"OAuth", "APIKey">>
DeepCopyMyceliumCredentialProviderStatus == <<"BaseMyceliumResourceStatus">>
DeepCopyMyceliumEcosystem               == <<"ObjectMeta", "Status">>
DeepCopyMyceliumEcosystemList           == <<"ListMeta", "Items">>
DeepCopyMyceliumEcosystemSpec           == <<>>
DeepCopyMyceliumEcosystemStatus         == <<"BaseMyceliumResourceStatus">>
DeepCopyMyceliumTool                    == <<"ObjectMeta", "Spec", "Status">>
DeepCopyMyceliumToolList                == <<"ListMeta", "Items">>
DeepCopyMyceliumToolSpec                ==
    <<"CredentialProviderBindings", "InputSchema", "WorkerPool">>
DeepCopyMyceliumToolStatus              == <<"BaseMyceliumResourceStatus">>
DeepCopyOAuthAuthorizationServerMetadata == <<"ResponseTypes", "TokenEndpointAuthMethods">>
DeepCopyOAuthCredentialProviderBinding  == <<"Scopes">>
DeepCopyOAuthCredentialProviderConfig   == <<"ClientSecretRef", "Discovery">>
DeepCopyOAuthDiscoveryConfig            == <<"DiscoveryURL", "AuthorizationServerMetadata">>
DeepCopyRateLimitConfig                 == <<>>
DeepCopyReferencedResourceStatus        == <<"ResourceRef", "Conditions">>
DeepCopySandboxPoolConfig               == <<"Replicas">>
DeepCopyToolBinding                     == <<"RateLimit">>
DeepCopyToolBindingStatus               == <<"Conditions">>
DeepCopyToolRef                         == <<>>
DeepCopyWorkerPoolConfig                == <<"MinReplicas", "MaxReplicas">>

-----------------------------------------------------------------------------
(* Whole objects                                                           *)

Types ==
    [ToolRef |-> ToolRef, RateLimitConfig |-> RateLimitConfig,
     ToolBinding |-> ToolBinding, SandboxPoolConfig |-> SandboxPoolConfig,
     MyceliumAgentSpec |-> MyceliumAgentSpec, ToolBindingStatus |-> ToolBindingStatus,
     MyceliumAgentStatus |-> MyceliumAgentStatus, MyceliumAgent |-> MyceliumAgent,
     MyceliumAgentList |-> MyceliumAgentList,
     MyceliumAuthorizerSpec |-> MyceliumAuthorizerSpec,
     JWTAuthorizerConfig |-> JWTAuthorizerConfig,
     MyceliumAuthorizerStatus |-> MyceliumAuthorizerStatus,
     MyceliumAuthorizer |-> MyceliumAuthorizer,
     MyceliumAuthorizerList |-> MyceliumAuthorizerList,
     OAuthDiscoveryConfig |-> OAuthDiscoveryConfig,
     OAuthAuthorizationServerMetadata |-> OAuthAuthorizationServerMetadata,
     OAuthCredentialProviderConfig |-> OAuthCredentialProviderConfig,
     APIKeyCredentialProviderConfig |-> APIKeyCredentialProviderConfig,
     MyceliumCredentialProviderSpec |-> MyceliumCredentialProviderSpec,
     MyceliumCredentialProviderStatus |-> MyceliumCredentialProviderStatus,
     MyceliumCredentialProvider |-> MyceliumCredentialProvider,
     MyceliumCredentialProviderList |-> MyceliumCredentialProviderList,
     MyceliumEcosystemSpec |-> MyceliumEcosystemSpec,
     MyceliumEcosystemStatus |-> MyceliumEcosystemStatus,
     MyceliumEcosystem |-> MyceliumEcosystem,
     MyceliumEcosystemList |-> MyceliumEcosystemList,
     BaseMyceliumResourceStatus |-> BaseMyceliumResourceStatus,
     ReferencedResourceStatus |-> ReferencedResourceStatus,
     CredentialProviderRef |-> CredentialProviderRef,
     CredentialProviderBinding |-> CredentialProviderBinding,
     OAuthCredentialProviderBinding |-> OAuthCredentialProviderBinding,
     APIKeyCredentialProviderBinding |-> APIKeyCredentialProviderBinding,
     WorkerPoolConfig |-> WorkerPoolConfig, MyceliumToolSpec |-> MyceliumToolSpec,
     CredentialProviderBindingsStatus |-> CredentialProviderBindingsStatus,
     MyceliumToolStatus |-> MyceliumToolStatus, MyceliumTool |-> MyceliumTool,
     MyceliumToolList |-> MyceliumToolList, ObjectMeta |-> ObjectMeta,
     ListMeta |-> ListMeta, SecretKeySelector |-> SecretKeySelector]

Copies ==
    [ToolRef |-> DeepCopyToolRef, RateLimitConfig |-> DeepCopyRateLimitConfig,
     ToolBinding |-> DeepCopyToolBinding,
     SandboxPoolConfig |-> DeepCopySandboxPoolConfig,
     MyceliumAgentSpec |-> DeepCopyMyceliumAgentSpec,
     ToolBindingStatus |-> DeepCopyToolBindingStatus,
     MyceliumAgentStatus |-> DeepCopyMyceliumAgentStatus,
     MyceliumAgent |-> DeepCopyMyceliumAgent,
     MyceliumAgentList |-> DeepCopyMyceliumAgentList,
     MyceliumAuthorizerSpec |-> DeepCopyMyceliumAuthorizerSpec,
     JWTAuthorizerConfig |-> DeepCopyJWTAuthorizerConfig,
     MyceliumAuthorizerStatus |-> DeepCopyMyceliumAuthorizerStatus,
     MyceliumAuthorizer |-> DeepCopyMyceliumAuthorizer,
     MyceliumAuthorizerList |-> DeepCopyMyceliumAuthorizerList,
     OAuthDiscoveryConfig |-> DeepCopyOAuthDiscoveryConfig,
     OAuthAuthorizationServerMetadata |-> DeepCopyOAuthAuthorizationServerMetadata,
     OAuthCredentialProviderConfig |-> DeepCopyOAuthCredentialProviderConfig,
     APIKeyCredentialProviderConfig |-> DeepCopyAPIKeyCredentialProviderConfig,
     MyceliumCredentialProviderSpec |-> DeepCopyMyceliumCredentialProviderSpec,
     MyceliumCredentialProviderStatus |-> DeepCopyMyceliumCredentialProviderStatus,
     MyceliumCredentialProvider |-> DeepCopyMyceliumCredentialProvider,
     MyceliumCredentialProviderList |-> DeepCopyMyceliumCredentialProviderList,
     MyceliumEcosystemSpec |-> DeepCopyMyceliumEcosystemSpec,
     MyceliumEcosystemStatus |-> DeepCopyMyceliumEcosystemStatus,
     MyceliumEcosystem |-> DeepCopyMyceliumEcosystem,
     MyceliumEcosystemList |-> DeepCopyMyceliumEcosystemList,
     BaseMyceliumResourceStatus |-> DeepCopyBaseMyceliumResourceStatus,
     ReferencedResourceStatus |-> DeepCopyReferencedResourceStatus,
     CredentialProviderRef |-> DeepCopyCredentialProviderRef,
     CredentialProviderBinding |-> DeepCopyCredentialProviderBinding,
     OAuthCredentialProviderBinding |-> DeepCopyOAuthCredentialProviderBinding,
     APIKeyCredentialProviderBinding |-> DeepCopyAPIKeyCredentialProviderBinding,
     WorkerPoolConfig |-> DeepCopyWorkerPoolConfig,
     MyceliumToolSpec |-> DeepCopyMyceliumToolSpec,
     CredentialProviderBindingsStatus |-> DeepCopyCredentialProviderBindingsStatus,
     MyceliumToolStatus |-> DeepCopyMyceliumToolStatus,
     MyceliumTool |-> DeepCopyMyceliumTool,
     MyceliumToolList |-> DeepCopyMyceliumToolList, ObjectMeta |-> <<"Labels">>,
     ListMeta |-> <<"RemainingItemCount">>, SecretKeySelector |-> <<"Optional">>]

\* What a reference can refer to that has no references of its own.
Leaves == {"map", "string", "int32", "int64", "bool", "JSON", "Condition", "TypedObjectReference"}

\* Structs are nested at most this deep without a reference between them.
Nesting == 0..3

\* The references in the memory of a t: the paths to them and what they refer to.
References(t) ==
    LET in[n \in Nesting] ==
            [u \in DOMAIN Types |->
                UNION {IF Types[u][f].is = "reference"
                       THEN {[slot |-> <<f>>, of |-> Types[u][f].of]}
                       ELSE IF n = 0 THEN {}
                       ELSE {[slot |-> <<f>> \o r.slot, of |-> r.of] :
                                 r \in in[n - 1][Types[u][f].of]} : f \in DOMAIN Types[u]}]
    IN  IF t \in Leaves THEN {} ELSE in[3][t]

\* Those that DeepCopyInto of a t makes new memory for, in its order.
Copied(t) ==
    LET in[n \in Nesting] ==
            [u \in DOMAIN Types |->
                FlattenSeq([i \in DOMAIN Copies[u] |->
                    LET f == Copies[u][i]
                    IN  IF Types[u][f].is = "reference" THEN <<<<f>>>>
                        ELSE IF n = 0 THEN <<>>
                        ELSE [j \in DOMAIN in[n - 1][Types[u][f].of] |->
                                  <<f>> \o in[n - 1][Types[u][f].of][j]]])]
    IN  IF t \in Leaves THEN <<>> ELSE in[3][t]

RootKinds ==
    {"MyceliumAgent", "MyceliumAuthorizer", "MyceliumCredentialProvider", "MyceliumEcosystem",
     "MyceliumTool", "MyceliumAgentList", "MyceliumAuthorizerList",
     "MyceliumCredentialProviderList", "MyceliumEcosystemList", "MyceliumToolList"}

\* Of the references of a union the API server admits objects with exactly one.
Unions ==
    {[type |-> "CredentialProviderBinding", slots |-> {<<"OAuth">>, <<"APIKey">>}],
     [type |-> "MyceliumCredentialProvider", slots |-> {<<"Spec", "OAuth">>, <<"Spec", "APIKey">>}],
     [type |-> "OAuthCredentialProviderConfig",
      slots |-> {<<"Discovery", "DiscoveryURL">>, <<"Discovery", "AuthorizationServerMetadata">>}]}

\* It admits no object without these, or sets them itself (Replicas).
Required ==
    {[type |-> "MyceliumAgent", slot |-> <<"Spec", "SandboxPool", "Replicas">>],
     [type |-> "OAuthCredentialProviderBinding", slot |-> <<"Scopes">>],
     [type |-> "MyceliumAuthorizer", slot |-> <<"Spec", "JWT">>],
     [type |-> "JWTAuthorizerConfig", slot |-> <<"Audiences">>]}
=============================================================================
