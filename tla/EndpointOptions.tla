-------------------------- MODULE EndpointOptions ---------------------------
(***************************************************************************)
(* The config options of package tokenendpoint and its presets, which      *)
(* compose them: the token endpoint as its user assembles it.              *)
(***************************************************************************)
EXTENDS Components

WithTokenRequestAuthenticator(authenticator) ==
    Dependency("requestAuthenticator", authenticator)
WithTokenRequestAuthenticatorOptions(options) ==
    Component("requestAuthenticator", Request!NewAuthenticator(options))
WithIssuer(issuer) == Dependency("issuer", issuer)
WithIssuerOptions(options) == Component("issuer", Jwt!NewIssuer(options))
WithTokenResponseWriter(writer) == Dependency("responseWriter", writer)
WithTokenResponseWriterOptions(options) ==
    Component("responseWriter", Response!NewWriter(options))
WithIssuedTokens(tokens) == Restriction("issuedTokens", tokens, TokenKinds)
WithIssuerOptionsCallback(callback) == Dependency("issuerOptionsCallback", callback)

-----------------------------------------------------------------------------
(***************************************************************************)
(* presets.Authenticator and its options.  ClientAuthentication appends to *)
(* two lists, the other two replace what is there.                         *)
(***************************************************************************)
GrantTypesPreset(grants) == SetField("grantTypes", grants)
ResolveSubject(callback) == Dependency("subjectResolver", callback)
ClientAuthentication(method, callback) ==
    IF callback = Nil THEN Fails
    ELSE Sets([f \in {"clientMethods", "clientResolverOptions"} |->
                  IF f = "clientMethods" THEN method
                  ELSE Client!WithResolverAuthenticationMethod(method, callback)])

(* The lists the preset keeps are only passed on when there is something in them *)
Unless(nothing, option) == IF nothing THEN <<>> ELSE <<option>>

(* A list options append to: what each adds, under the index that option has *)
Appended(options, field) == [i \in Setting(options, field) |-> options[i].sets[field]]

(* A mistake: each option for a client replaces the one before *)
LastClientOption(options) ==
    LET appending == Setting(options, "clientResolverOptions") IN
    [i \in {j \in appending : j = Max(appending)} |-> options[i].sets["clientResolverOptions"]]

ClientMethods(options) == Appended(options, "clientMethods")
ClientResolverOptions(options) == Appended(options, "clientResolverOptions")

Authenticator(options) ==
    LET grants == Assigned(options, "grantTypes", <<>>)
        subject == Assigned(options, "subjectResolver", Nil)
        methods == ClientMethods(options)
        clients == ClientResolverOptions(options)
        validatorOptions ==
            Unless(grants = <<>>, Request!WithValidatorAllowedGrantTypes(grants)) \o
            Unless(methods = <<>>, Request!WithValidatorClientCredentialsValidatorOptions(
                                      <<Client!WithValidatorAllowedMethods(methods)>>))
        resolverOptions ==
            Unless(clients = <<>>, Request!WithResolverClientResolverOptions(
                                      <<Client!WithResolverRuntimeOptions(clients)>>)) \o
            Unless(subject = Nil, Request!WithResolverRuntimeOptions(<<subject>>))
    IN  IF Faulty(options) THEN Fails
        ELSE WithTokenRequestAuthenticatorOptions(
                <<Request!WithAuthenticatorValidatorOptions(validatorOptions),
                  Request!WithAuthenticatorResolverOptions(resolverOptions)>>)

-----------------------------------------------------------------------------
(***************************************************************************)
(* presets.Signer: an issuer with that signer takes the issuer's place.    *)
(***************************************************************************)
Signer(signer) ==
    IF signer = Nil THEN Fails ELSE WithIssuerOptions(<<Jwt!WithSigner(signer)>>)

(***************************************************************************)
(* presets.Tokens and its options: a list of what is issued, to which each *)
(* appends, and one callback that asks the callbacks of the tokens.  A     *)
(* token given twice is in the list twice and has the callback it was      *)
(* given last.                                                             *)
(***************************************************************************)
TokenOption(kind, callback) ==
    IF callback = Nil THEN Fails
    ELSE Sets([f \in {"issued", kind} |-> IF f = "issued" THEN kind ELSE callback])

AccessToken(callback) == TokenOption("access_token", callback)
RefreshToken(callback) == TokenOption("refresh_token", callback)
IDToken(callback) == TokenOption("id_token", callback)

(* One option after the other; the second of these cannot fail *)
Then(first, second) ==
    IF first.does # "set" THEN first
    ELSE Sets([f \in DOMAIN first.sets \cup DOMAIN second.sets |->
                  IF f \in DOMAIN second.sets THEN second.sets[f] ELSE first.sets[f]])

(* A mistake: a callback is only looked for among the first of the options *)
TokensCallbackOfFirst(options) ==
    [k \in {"is"} \cup TokenKinds |->
        IF k = "is" THEN "presets.Tokens" ELSE Assigned(<<options[1]>>, k, Nil)]

TokensCallback(options) ==
    [k \in {"is"} \cup TokenKinds |->
        IF k = "is" THEN "presets.Tokens" ELSE Assigned(options, k, Nil)]

Tokens(options) ==
    LET issued == Appended(options, "issued") IN
    IF Faulty(options) \/ issued = <<>> THEN Fails
    ELSE Then(WithIssuedTokens(issued), WithIssuerOptionsCallback(TokensCallback(options)))

(* The lists are private to the package: only these options append to them *)
AuthenticatorOptions(options) ==
    /\ options \in Seq(Range(options))
    /\ \A i \in Setting(options, "clientMethods") \cup Setting(options, "clientResolverOptions") :
          LET set == options[i].sets IN
          options[i] = ClientAuthentication(set["clientMethods"],
                                            set["clientResolverOptions"].callback)

TokenOptions(options) ==
    /\ options \in Seq(Range(options))
    /\ \A i \in UNION {Setting(options, f) : f \in {"issued"} \cup TokenKinds} :
          \E k \in TokenKinds \cap DOMAIN options[i].sets :
              options[i] = TokenOption(k, options[i].sets[k])
=============================================================================
