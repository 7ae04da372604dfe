------------------------------ MODULE Gateway -------------------------------
(***************************************************************************)
(* What stands between a caller and the peer tables: token validation, the *)
(* rate limiter (module RateLimit, which this module composes with the     *)
(* rest of the chain), roles, and the tenant checks of the service.  The   *)
(* middleware runs in the order of NewRouter.                              *)
(*                                                                         *)
(* The transactions behind the checks are those of module PeerApi; here a  *)
(* peer is no more than its tenant.  A signature is abstracted to the key  *)
(* that made it, and claims that are no UUID to the zero UUID.             *)
(***************************************************************************)
EXTENDS RateLimit, FiniteSets

CONSTANTS
    Tokens,      \* tokens that callers present
    Validators,  \* the validators a server may be configured with
    KeyType,     \* the type of each key
    Leeway,      \* tolerance for the clocks of issuers, in ticks
    TenantOf,    \* the tenant that a slug names, None for a slug of no tenant
    PeerIds

Slugs == DOMAIN TenantOf
Tenants == {TenantOf[s] : s \in Slugs} \ {None}

Roles == {"platform_admin", "tenant_admin", "support_readonly", "automation_client", "node_agent"}
Readers == Roles \ {"node_agent"}
Writers == Readers \ {"support_readonly"}

(* HMACValidator has its secret as default.                                *)
Validator == [kind : {"hmac", "static"}, algs : SUBSET STRING,
              keys : UNION {[kids -> DOMAIN KeyType] : kids \in SUBSET {tok.kid : tok \in Tokens}},
              default : DOMAIN KeyType \cup {None}]

ASSUME GatewayAssumption ==
    /\ Validators \subseteq Validator
    /\ \A v \in Validators : v.kind = "hmac" => v.default # None  \* buildJWTValidator
    /\ Leeway \in Nat
    /\ \A tok \in Tokens : tok.roles \subseteq Roles /\ tok.exp \in Nat /\ tok.nbf \in Nat
    /\ {<<tok.sub, s>> : tok \in Tokens, s \in Slugs} \subseteq Clients

VARIABLES
    validator,  \* the server's, one of Validators
    owner       \* the tenant of each peer row, None until it is inserted; the
                \* operation that inserted the row has the same tenant

gatewayVars == <<now, buckets, admitted, hint, validator, owner>>

-----------------------------------------------------------------------------
(* Token validation.                                                       *)

keyForToken(tok) ==
    LET Keys == validator.keys IN
    IF tok.kid # None
    THEN IF tok.kid \in DOMAIN Keys THEN Keys[tok.kid] ELSE None
    ELSE IF validator.default # None THEN validator.default
    ELSE IF Cardinality(DOMAIN Keys) = 1 THEN CHOOSE k \in {Keys[kid] : kid \in DOMAIN Keys} : TRUE
    ELSE None

algorithmMatchesKey(alg, key) ==
    KeyType[key] = CASE alg \in {"RS256", "RS384", "RS512", "PS256", "PS384", "PS512"} -> "rsa"
                     [] alg = "ES256" -> "p256"
                     [] alg = "ES384" -> "p384"
                     [] alg = "ES512" -> "p521"
                     [] alg = "EdDSA" -> "ed25519"
                     [] OTHER -> "none"

(* The parser's time checks; exp is required.                              *)
Current(tok) == now < tok.exp + Leeway /\ tok.nbf <= now + Leeway

HMACValidate(tok) ==
    /\ validator.kind = "hmac"
    /\ tok.signer = validator.default

StaticKeyValidate(tok) ==
    /\ validator.kind = "static"
    /\ keyForToken(tok) # None
    /\ algorithmMatchesKey(tok.alg, keyForToken(tok))
    /\ tok.signer = keyForToken(tok)

(* The token type and the pinned claims.                                   *)
principalFromClaims(tok) ==
    /\ tok.typ \in {"", "jwt", "at+jwt"}
    /\ tok.iss = "issuer" /\ "audience" \in tok.aud

Validates(tok) ==
    /\ tok.alg \in validator.algs
    /\ HMACValidate(tok) \/ StaticKeyValidate(tok)
    /\ Current(tok)
    /\ principalFromClaims(tok)

HasAnyRole(tok, roles) == tok.roles \cap roles # {}

-----------------------------------------------------------------------------
(* The service.                                                            *)

authorizeTenant(tok, t, roles) ==
    /\ HasAnyRole(tok, roles)
    /\ "platform_admin" \in tok.roles \/ (tok.tenant # None /\ tok.tenant = t)

(* Authenticator, RequireRoles, then the tenant named in the path.         *)
MayRead(tok, slug) ==
    /\ Validates(tok) /\ HasAnyRole(tok, Readers)
    /\ TenantOf[slug] # None
    /\ authorizeTenant(tok, TenantOf[slug], Readers)

(* Mutated form of GetPeer: the row's tenant is not compared.              *)
GetPeer_AnyTenant(tok, slug, p) == MayRead(tok, slug) /\ owner[p] # None

(* Whether GET of the peer, or of its configuration, answers with it.      *)
GetPeer(tok, slug, p) ==
    /\ MayRead(tok, slug)
    /\ owner[p] # None /\ owner[p] = TenantOf[slug]

GetOperation(tok, p) ==
    /\ Validates(tok) /\ HasAnyRole(tok, Readers)
    /\ owner[p] # None
    /\ authorizeTenant(tok, owner[p], Readers)

KeyFn(tok, slug) == <<tok.sub, slug>>

(* Mutated form of MayWrite: the roles of the read endpoints.              *)
MayWrite_Readers(tok, slug) ==
    /\ HasAnyRole(tok, Readers)
    /\ TenantOf[slug] # None
    /\ authorizeTenant(tok, TenantOf[slug], Readers)

(* Writes come after the Authenticator (GatewayNext) and the limiter; then *)
(* RequireRoles and authorizeTenant.                                       *)
MayWrite(tok, slug) ==
    /\ HasAnyRole(tok, Writers)
    /\ TenantOf[slug] # None
    /\ authorizeTenant(tok, TenantOf[slug], Writers)

CreatePeer(tok, slug, p) ==
    /\ Admit(KeyFn(tok, slug))
    /\ owner' = IF MayWrite(tok, slug) /\ owner[p] = None
                THEN [owner EXCEPT ![p] = TenantOf[slug]] ELSE owner

(* A revoke leaves the row to its tenant, and a request that is refused    *)
(* once it is past the limiter changes nothing.                            *)
RevokePeer(tok, slug) ==
    /\ Admit(KeyFn(tok, slug))
    /\ UNCHANGED owner

RateLimited(tok, slug) ==
    /\ Refuse(KeyFn(tok, slug))
    /\ UNCHANGED owner

-----------------------------------------------------------------------------
(* Every variable holds a value of its type (TokenBucket, peers).          *)
GatewayTypeOK ==
    /\ TypeOK
    /\ validator \in Validators
    /\ owner \in [PeerIds -> Tenants \cup {None}]

GatewayInit ==
    /\ Init
    /\ validator \in Validators
    /\ owner = [p \in PeerIds |-> None]

GatewayNext ==
    /\ UNCHANGED validator
    /\ \/ Tick /\ UNCHANGED owner
       \/ \E tok \in Tokens :
             /\ Validates(tok)
             /\ \E slug \in Slugs :
                   \/ RateLimited(tok, slug)
                   \/ \E p \in PeerIds : CreatePeer(tok, slug, p)
                   \/ RevokePeer(tok, slug)

GatewaySpec == GatewayInit /\ [][GatewayNext]_gatewayVars

-----------------------------------------------------------------------------
(* Who may do what, by the claims that an issuer put into a token: a       *)
(* platform admin anything, others what their role allows in their tenant. *)

Issued(tok) ==
    /\ tok.signer \in ({validator.keys[kid] : kid \in DOMAIN validator.keys}
                          \cup {validator.default}) \ {None}
    /\ tok.iss = "issuer" /\ "audience" \in tok.aud
    /\ tok.exp > now - Leeway

Entitled(tok, t, roles) ==
    /\ Issued(tok)
    /\ \/ "platform_admin" \in tok.roles
       \/ tok.tenant = t /\ tok.roles \cap roles # {}

(* In every state, whatever slug a caller puts into the path, it is shown  *)
(* a peer, its configuration or its operation only if its token entitles   *)
(* it to read that peer's tenant; and a reader with a fresh, well-formed   *)
(* token reaches what it is entitled to (GetPeer, PeerConfiguration,       *)
(* GetOperation, authorizeTenant).                                         *)
ReadsAreEntitled ==
    \A tok \in Tokens, p \in PeerIds :
        /\ \A slug \in Slugs : GetPeer(tok, slug, p) => Entitled(tok, owner[p], Readers)
        /\ GetOperation(tok, p) => Entitled(tok, owner[p], Readers)
        /\ owner[p] # None /\ Validates(tok) /\ Entitled(tok, owner[p], Readers) =>
              GetOperation(tok, p) /\ \E slug \in Slugs : GetPeer(tok, slug, p)

(* A peer row appears in a tenant only by the request of a caller entitled *)
(* to write there, and never changes its tenant (CreatePeer, RequireRoles, *)
(* authorizeTenant).                                                       *)
WritesAreEntitled ==
    [][/\ \A p \in PeerIds : owner[p] # None => owner'[p] = owner[p]
       /\ owner' # owner =>
             \A tok \in Tokens, slug \in Slugs, p \in PeerIds :
                 Validates(tok) /\ CreatePeer(tok, slug, p) =>
                     Entitled(tok, owner'[p], Writers)]_gatewayVars

=============================================================================
