----------------------------- MODULE MCGateway ------------------------------
(* A caller that holds tokens of every role, and tokens that are not valid, *)
(* and two tenants.                                                         *)
EXTENDS Gateway, TLC

CONSTANTS a, t1, t2, key1, key2, other, secret

MCToken(role, tenant) ==
    [alg |-> "RS256", kid |-> "k1", signer |-> key1, typ |-> "at+jwt", iss |-> "issuer",
     aud |-> {"audience"}, exp |-> 4, nbf |-> 0, sub |-> a, tenant |-> tenant, roles |-> {role}]

Admin1 == MCToken("tenant_admin", t1)
MCTokens ==
    {Admin1, [Admin1 EXCEPT !.alg = "HS256", !.signer = secret],
     [Admin1 EXCEPT !.alg = "HS256", !.signer = other],
     MCToken("support_readonly", t1), MCToken("platform_admin", None),
     MCToken("node_agent", t1), MCToken("tenant_admin", None),
     [MCToken("automation_client", t2) EXCEPT !.kid = "k2", !.alg = "EdDSA", !.signer = key2],
     [Admin1 EXCEPT !.signer = other], [Admin1 EXCEPT !.signer = key2],
     [Admin1 EXCEPT !.kid = None], [Admin1 EXCEPT !.kid = "k3"], [Admin1 EXCEPT !.alg = "EdDSA"],
     [Admin1 EXCEPT !.iss = "other"], [Admin1 EXCEPT !.aud = {}], [Admin1 EXCEPT !.nbf = 3, !.exp = 7]}

(* A secret, one public key from a PEM file (buildJWTValidator), and two    *)
(* keys by their kids, as NewStaticKeyValidatorFromPEM describes for key    *)
(* rotation.                                                                *)
Asymmetric == {"RS256", "ES256", "EdDSA"}
NoKeys == [kid \in {} |-> None]
MCValidators ==
    {[kind |-> "hmac", algs |-> {"HS256"}, keys |-> NoKeys, default |-> secret],
     [kind |-> "static", algs |-> Asymmetric, keys |-> NoKeys, default |-> key1],
     [kind |-> "static", algs |-> Asymmetric,
      keys |-> ("k1" :> key1) @@ ("k2" :> key2), default |-> None]}

MCKeyType == (key1 :> "rsa") @@ (key2 :> "ed25519") @@ (secret :> "bytes")
MCTenantOf == [s1 |-> t1, s2 |-> t2]
MCClients == {<<a, s>> : s \in DOMAIN MCTenantOf}

=============================================================================
