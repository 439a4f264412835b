# A verification of voauth

`voauth` is a Go library of OAuth 2.0 components. Its core is an HTTP handler,
`tokenendpoint.TokenEndpoint`, that authenticates a token request, issues JWTs
and writes the token response; everything an authorization server decides for
itself (who a client is, whose a code is, what goes into a token) is a callback.
Around it are the client's side of the same exchange, and a bearer
authenticator for the servers the tokens are shown to. This directory models
all three in TLA+, checks them with TLC on small instances and proves with
TLAPS, for all instances, every invariant the passing runs check: of the
endpoint, the sessions, the bearer tokens and the configurations.

## The system

Paths are relative to the repository. Every component follows one pattern:
`New…(configOptions...)` builds it, and its one operation wraps its own method
into a chain of runtime options (the first option outermost) and calls it.

| Component | State | Operations | Uses | Correct when |
| --- | --- | --- | --- | --- |
| `tokenendpoint.TokenEndpoint` | its dependencies, set once by `New`; per request: locals of `ServeHTTP` | `ServeHTTP`, `handleError` | authenticator, issuer, response writer, callbacks | all tokens are issued or none is sent, one answer per request, codes bought once, tokens name the resolved subject |
| `tokenendpoint` options, `presets` | the endpoint under construction | `New`, `With…`, presets `Authenticator`, `Signer`, `Tokens` | constructors of all packages | nothing nil in what `New` returns; the later option wins; validator and resolver agree on methods |
| `tokenrequest.Authenticator` | none | `Authenticate` | reader, validator, resolver, in this order | nothing is resolved that was not validated; no code is spent before its client is authenticated |
| `tokenrequest.Reader`, `Validator`, `Resolver` | none | `ReadArtifact`, `Validate`, `Resolve` | `clientcredentials`, token decoders and validators, application | a request reaches the application only when it is whole |
| `clientcredentials.Reader`, `Validator`, `Resolver` | none | as above | token decoder and validator, application | one method of authentication, with its proof, answered by the callback of that method |
| `jwt.Issuer` | none | `Issue` | signer, random source | claims written in order, `iat`, `jti` and signature last |
| `jwt.Decoder`, `Encoder` | limits, set once | `Decode`, `Encode` | – | each limit holds at its boundary; a token decoded and encoded says what it said |
| `jwt.Validator` | verifier, options | `Validate` | verifier, clock | a token is let through within its window and the leeway, and not outside |
| `jwt.Reader`, `Writer`, `Resolver`, `Authenticator` | none | `ReadArtifact`, `WriteArtifact`, `Resolve`, `Authenticate` | decoder, encoder, validator | nobody is admitted against the verifier or the policy, nor as anybody but whom the token speaks of; a bearer token that is refused is refused here |
| `tokenresponse.Writer`, `Encoder` | none | `WriteArtifact`, `Encode` | `jwt.Encoder`, `http.ResponseWriter` | the status goes out only when everything is encoded |
| `tokenrequest.Writer`, `clientcredentials.Writer` | the `*http.Request` they are given | `WriteArtifact` | token encoders, each other | the server reads the artifact that was written last, and nothing else |
| `tokenresponse.Reader`, `Decoder`, `Validator` | none | `ReadArtifact`, `Decode`, `Validate` | token decoder and validators | the whole grant or an error |
| `clientcredentials.Authenticator` | none | `Authenticate` | its reader, validator, resolver | the principal brought the proof |
| `logger` | the module's logger, behind a lock | `SetLogger`, `GetLogger` | – | replaced whole |

The library shares no mutable state between requests. What is shared is the
application's: its clients and its store of authorization codes. `net/http` runs
each handler in a goroutine of its own, so the calls of several handlers to the
callbacks interleave in every order, and a client that lost an answer sends its
request again. What is hard: the code is spent (by a callback) before the first
token exists, and anything after that may still fail, the write of an already
committed response included; several writers of claims; errors that carry
several categories; and a configuration made of options that replace each other
across packages. A client that keeps one `*http.Request` and writes it again
adds its own sequence of states; answers break off or never arrive; and a token
that is validated against a clock is issued by another one.

## The modules

| Module | Models |
| --- | --- |
| `OAuthErrors` | errors as sets of `vapi` categories (`errors.Is` finds each of them); the answer of `handleError` |
| `OAuthNames` | grant types, client authentication methods, kinds of tokens |
| `ClientCredentials` | package `clientcredentials`: finding, reading, validating credentials, as operators on one request |
| `TokenRequest` | package `tokenrequest`: reading and validating a request |
| `JwtIssuer` | `jwt.Issuer.Issue`: the chain of issuer options, stamp and signature |
| `TokenEndpoint` | the handler: one action per step, for a set of concurrent requests. Extends the four above |
| `TokenExchange` | the abstract specification: a request takes a free code and is granted or refused |
| `JwtCodec` | `jwt.Encoder` and `jwt.Decoder`: layers of base64, lengths and limits |
| `JwtValidation` | `jwt.Validator` and its options, on decoded claims |
| `BearerAccess` | a token between its issuer, a client and a resource server, under two clocks. Extends the two above |
| `RequestWriters` | the two writers of token requests |
| `TokenResponse` | the response's encoder, reader, decoder and validator |
| `ClientSession` | a client and a server that exchange what those write and read, over a network that fails |
| `Constructors` | the pattern of the `New` functions and the shapes of config options |
| `JwtConfig`, `ClientCredentialsConfig`, `TokenRequestConfig`, `TokenResponseConfig` | the constructors and config options of one package each |
| `EndpointOptions` | the config options of `tokenendpoint` and the presets |
| `EndpointConfig` | `tokenendpoint.New` as a state machine: options one by one, then defaults |
| `Components` | what the methods of all components check before they do their own work, and their chain of runtime options |
| `ClientConfig` | a program that builds components, hands them to each other and calls them |
| `MCTokenEndpoint`, `MCEndpointConfig`, `MCBearerAccess`, `MCClientSession`, `MCClientConfig` | the instances TLC checks |
| `TokenRequestProofs` | lemmas about reading and validating a request, for any argument |
| `TokenEndpointProofs` | theorems about `TokenEndpoint`: types, `Issue`, codes, delivery. Extends `TokenRequestProofs` |
| `ExchangeProofs` | its refinement of `TokenExchange`, and who the tokens name. Extends `TokenEndpointProofs` |
| `BearerProofs` | theorems about `BearerAccess` |
| `SessionProofs` | theorems about `ClientSession`. Extends `TokenRequestProofs` |
| `ComponentProofs` | what every `New` function and every kind of option returns |
| `EndpointConfigProofs`, `ClientConfigProofs` | theorems about `EndpointConfig` and `ClientConfig`. Both extend `ComponentProofs` |

### State and steps of `TokenEndpoint`

`pc[r]` says where the handler of request `r` is; `carrier`, `request`,
`client`, `principal`, `options`, `tokens` and `err` are its locals; `wire[r]` is
what its `ResponseWriter` has accepted. `vouched` and `redeemed` belong to the
application: whom its client callback has authenticated for which request, and
by whom each code was consumed.

| Action | Code |
| --- | --- |
| `Serve` | head of `ServeHTTP` |
| `Read`, `Validate` | `Authenticator.authenticate`, its first two calls |
| `ResolveClient` | `tokenrequest.Resolver.Resolve` up to the client principal, with `clientcredentials.Resolver` |
| `RedeemCode`, `ResolveSubject`, `ResolveDefault` | the rest of `Resolve`: the subject callback for a code, for another grant, or none |
| `Prepare` | scope check and options callback |
| `IssueToken` | one of the three blocks that issue a token |
| `WriteHeader`, `WriteBody` | `tokenresponse.Writer.writeArtifact`, split where the status goes out |
| `HandleError` | `handleError` |

A step begins where another goroutine could be noticed: at a callback or a
write. Between two such points the handler only computes from its own locals,
so that merging more would hide nothing and splitting more would add nothing.

Abstractions. A text is an opaque value, a decoded token is named by its text, and
what the token decoder and validator say of a text are the constants
`DecodeFault` and `ValidateFault`. A principal is its subject and whether it
has scopes; its other claims are empty. An issuer option writes claims and then
calls the next, or stops, or fails, or is nil: an option that writes after the
next one returned is left out (it would change a token that is signed). A
callback takes one step and returns. A write that fails has sent any part of the
document, nothing and all of it included (`Sent`: its fields come in the order of
`TokenResponseRepresentation`, and a token cut in two is none); `handleError`
writes its document after that, which may be cut off as well. What a client makes
of such an answer is `ClientSession`'s subject. The source of random bytes may
fail, although since Go 1.24 `crypto/rand` ends the program instead.
The code store of `RedeemCode` follows the example of `presets/README.md`: it
consumes atomically and checks the holder afterwards. Runtime options of
components other than issuer and resolvers are empty. The nil checks at the
head of each operation are left out of `TokenEndpoint`; `EndpointConfig` shows
(`Servable`) that they cannot fail in an endpoint `New` returned, a typed nil
handed over by the caller excepted, and `ClientConfig` (`BuiltComponentsWork`)
the same of every component on its own. A user's name is not empty
(`EndpointAssumption`): an empty subject is how the code knows that there is none.

### State and steps of `EndpointConfig`

`given` is the list `New` was called with, as names in a catalogue of options;
`endpoint` is the endpoint under construction. `RefuseOption` and `ApplyOption`
are the two ways through the loop, `Default` the four blocks after it. A component
is a record of its fields, so that a built endpoint can be looked at as deep as
its parts go. Nested constructors are operators: they depend on nothing but
their options.

### State and steps of `BearerAccess`

`clock` is the issuer's, the resource server's is `clock + skew`. `issued` is
the token with the instant, lifetime and `nbf` it was issued with, `text` what
the client was sent, `held` the token somebody has decoded and may write;
`carrier` is the `Authorization` header of one request, `foreign` whose it is, `pc`
the point its authenticator has reached, `artifact`, `checked`, `verdicts` and
`result` what it read, when it validated that, what the verifier said and what
it returned.

| Action | Code |
| --- | --- |
| `Tick` | time passes between any two of the others |
| `IssueToken` | `jwt.Issuer.Issue` with `WithExp` and `WithClaims`, then `Encoder.Encode` |
| `Receive` | `jwt.Decoder.Decode` at the client |
| `WriteArtifact` | `jwt.Writer` with a decoded token |
| `PresentText`, `PresentOther` | a client that kept the text, or one that has something else |
| `PassOn` | a resource server that writes the token it admitted into a request of its own |
| `Read`, `Validate`, `Resolve` | the three calls of `jwt.Authenticator.Authenticate` |

Abstractions. A part of a token says something, is JSON or not, has a length and
has been through base64 a number of times. Requests of others may hold tokens that
can be decoded and that the issuer did not write (`OtherRequests`); `foreign` says
that the request is one of these. Whether a token is genuine is the verifier's
to say, which may say anything but that a token is out of time
(`VerifierAssumption`), to the issuer's own tokens and to others alike;
`verdicts` is what it said of the token at hand, and a validator without one is
one that never objects. A foreign token that is admitted and passed on is not
followed: it makes one more of `OtherRequests`. `exp`, `nbf` and `iat` are whole seconds of a clock
that counts in fractions of one and never goes back; that a float64 has 53 bits
of precision is left out, no date of this millennium needs more. All decoders
of a run have the same limits.

### State and steps of `ClientSession`

`carrier` is the client's `*http.Request`, `written` the artifact it was last
told to write, `pc` how far the exchange is; `seen` is what the server read,
`response` and `sent` what it granted, `body` what was written to the connection,
`got` what the client made of that, `held` and `handed` the refresh tokens the
client has and the server gave out. `principal` is the answer of
`clientcredentials.Authenticator`.

| Action | Code |
| --- | --- |
| `WriteRequest` | `tokenrequest.Writer.WriteArtifact`, over whatever the carrier has |
| `WriteCredentials` | `clientcredentials.Writer.WriteArtifact` alone |
| `Send`, `Lose` | `net/http`, which reads the body to its end; `tokenrequest.Reader` at the other side |
| `Authenticate` | `clientcredentials.Authenticator.Authenticate` |
| `Serve` | the endpoint, reduced to its answer: refused, granted, or an answer of another server |
| `Deliver` | `tokenresponse.Writer` and `handleError` after it, each of which may stop anywhere |
| `Receive` | `tokenresponse.Reader`, `Decoder` and `Validator` |

Abstractions. Which requests are granted is `TokenEndpoint`'s subject; here any
valid one may be, a refresh token only if it was handed out. Documents are told
apart by what they say and their length, of which a limit may cut the end.
`Resources`, a list that both sides copy, is left out. The HTTP status is left
out because the client's reader does not look at it.
What the token encoder and decoder make of a text is computed in `MCClientSession`
by `JwtCodec`.

### State and steps of `ClientConfig`

`part` is the component a program made last, `given` the config options it had,
`built` how many there were, `answer` the outcome of the last call. `Build` is
a `New` function, `WriteZero` a composite literal of an exported type,
`CallPart` a call that gets as far as one of the parts: its answer is the
failure of the checks at the head of that part's method, or none. A
`jwt.Authenticator` has no such checks and panics as a zero value; that is an
answer of its own.

Definitions introduced by "A mistake:" are not part of any specification. Each
is a bug the code could have had, used to see that a property notices it.

## The runs

Where a module has a `TypeOK`, one of its runs checks it as well. What the
properties say is in their comments; three of them deserve a word here.

`WholeGrant` and `ErrorAfterCommit` say what holds of a write that may stop
anywhere. Nothing of an answer with tokens is sent before all of them are issued,
so that a client that misses some lost them to the network; under an error
status no token is out. What does not hold, and no property says, is that an
error document means there are no tokens: `handleError` writes one after a
`Write` that failed having sent everything, and it says `invalid_request`.

`PrincipalIsVerified` holds of every token that can be decoded, whoever wrote it.
Without a verifier, which is how `jwt.NewValidator` leaves it unless told
otherwise, everybody's token that the options let through is admitted; the
property then says no more than whom the principal is.

`EnabledMethodsAreAnswered` says which methods of client authentication a preset
answers, with whose callback, and which ones its validator lets through. The two
are not the same where no `ClientAuthentication` is given: the preset passes
neither list on (`presets/authenticator.go:43`, `:50`), all three methods pass the
validator, and none has a callback (`clientcredentials/resolver.go:52` answers
Misconfigured).

| Run | Instance | Shows |
| --- | --- | --- |
| `CodeExchange.cfg` | 2 requests, each any of: the code from its holder, from another client, a forged code, a refresh; 2 tokens, every write stopping anywhere; 644,736 states | `SingleUse`, `SpentByAuthenticatedClient`, `WholeGrant`, `ErrorAfterCommit`, `SpentBeforeIssued`, and the invariants `Custody` and `Delivery` they follow from |
| `Refusals.cfg` | 1 request, any of 18: each way to be malformed, to be of a method or grant that is not allowed, or to be right | `AskedAboutWholeRequests` |
| `Issuance.cfg` | 1 request, 3 tokens, 6 lists of issuer options for each, an issuer with options of its own | `TokensNameTheSubject`, `TokensAreStamped` |
| `ClientSubject.cfg` | 2 clients, client credentials, no subject callback | `SubjectIsClient` |
| `Exchange.cfg` | 2 requests, 1 token | `ImplementsExchange` (refinement of `TokenExchange`, its liveness included) and `Answered` |
| `Configuration.cfg` | all lists of up to 3 of 24 options | `Servable`, `LaterOptionWins`, `EnabledMethodsAreAnswered`, `IssuedTokensArePrepared` |
| `Window.cfg` | 1 token with any of 3 lifetimes and with or without `nbf`, presented at every instant up to 14 ticks of a third of a second, clocks up to 3 ticks apart, leeway 2; 351,021 states | `AdmittedInWindow`, `LeewayCoversSkew` |
| `Bearer.cfg` | 14 tokens and 4 lengths of signatures around the limits, 10 other headers and 5 tokens of others, every validator option; 2 presentations; 349,676 states | `PrincipalIsVerified`, `NotApplicableMeansNoBearer`, `LimitsAreExact`, `TokensTravel` |
| `Session.cfg` | up to 4 writes of 9 artifacts and a refresh, 2 headers, 11 responses, 6 answers of other servers, documents up to one byte over the limits; 107,620 states | `ServerReadsTheLastArtifact`, `PrincipalHasTheProof`, `GrantIsWholeOrNothing`, `LifetimeSurvives`, `GrantsAreAccepted` |
| `ClientConfiguration.cfg` | each of 23 kinds of components with up to 2 of its options, put into up to 2 more; 30,576 states | `BuiltComponentsWork`, `SomeResponseIsAccepted`, `TypesAreAcceptedAsGiven` |
| `Signer.cfg` | up to 2 options | a violation of `SignerAttaches`, see below |
| `Rotation.cfg` | up to 3 writes, a signed refresh token | a violation of `RefreshTokenIsTheIssuedOne`, see below |

Bounds. A code is contested by two requests; a third would meet a code that is
already spent, as the second does, and the theorems hold for any number. One
code is enough because handlers of different codes touch nothing in common.
Texts, clients and users are two of each where they have to differ, one where
not. Three options are the fewest with which an option can come between two
that set the same part. In every run each callback may fail at every call.
A second of three ticks is the shortest in which rounding down shows on both
sides of a middle; the skews go one tick beyond the leeway, the horizon beyond
the end of the longest life plus both. Limits are a few bytes, as base64 has a
period of three and each part of a token comes one byte under, at and over its
limit. A header written twice has been everything it can be: what the third
write of a carrier meets is what the second left, and four writes put a
rotation between two failed ones. `Int64Max` is 31 with a second of 4, so that
the product of a lifetime overflows into both signs. Three components built
one into the next reach from an authenticator to a decoder.

Fairness. `Spec` has weak fairness of each request's handler: Go schedules a
runnable goroutine, and callbacks are taken to return (a callback that hangs
stalls its own request and nobody else's). Fairness is used by `Answered` and by the
liveness of `TokenExchange` only. Deadlock is checked everywhere; a finished
system stutters in `Finished` and `Stop`.

What the runs found. `presets.Signer` "attaches a signer to the endpoint's JWT
issuer" (`tokenendpoint/presets/issuer.go:27`), but line 33 builds a new issuer
and replaces the one the endpoint has: runtime options given to it with
`WithIssuerOptions` before are lost without an error. `Signer.cfg` shows the
two options. Given in the other order, the signer is lost instead; with both
in one `WithIssuerOptions`, neither.

`jwt.Decoder` keeps the signature of a token as the base64 text it arrived in
(`jwt/decoder.go:116`), `jwt.Encoder` puts every signature into base64
(`jwt/encoder.go:84`). A signed token that was decoded is therefore encoded into
another text, one layer longer each time. `tokenrequest.TokenRequest` says
that its refresh token "is the refresh token issued by the authorization server"
(`tokenrequest/tokenrequest.go:36`); a client that reads a response and writes
the token of it into its next request sends one that was never issued.
`Rotation.cfg` shows how. What does survive is `TokensTravel`: the
header, the claims, and all of a token without a signature.

## The proofs

Every invariant of a passing run is a theorem, for all values of the constants.
Assumptions are those named in the modules, and TLC evaluates all of them on
every run:

* of the endpoint: `TextAssumption`, `GrantAssumption`, `ClaimAssumption` (types of
  the constants), `EndpointAssumption` (types, that users have names, and that
  some token is issued, which `WithIssuedTokens` and `New` see to), and
  `ResolverAssumption` (an endpoint that allows authorization codes has a subject
  callback; `presets/README.md` asks for it);
* of the bearer tokens: `LimitAssumption` and `SecondAssumption` (positive, as the
  config options see to), `AccessAssumption` (types), `TemplateAssumption` (an
  issuer starts from claims that can be encoded), `VerifierAssumption` (a verifier
  does not speak of time), and `OthersAssumption` (types: a header is a list, and a
  number in a foreign token is a number);
* of the sessions: `EncoderAssumption` (types, and that no token but a nil one has
  an empty text), `ResponseAssumption` (types; limits are positive; an ID token is only
  required where it is allowed, which `New` sees to: `ValidatorInvariant` proves
  it) and `SessionAssumption` (types; documents have a length). That client and
  server agree on what is allowed is no assumption: it is the premise
  `PoliciesAgree` of `GrantsAreAccepted`;
* of the configurations: the `CatalogueAssumption` of `ClientConfig` and of
  `EndpointConfig`. A program may hand over zero values, nils and options that
  fail; the components it made are whole, unless it wrote a zero value itself.
  The first says so of the options of a catalogue one by one (`Usable`), the second
  of those that are not presets (`OfUse`), while a preset's options are those of
  package `presets`, with any arguments. That the options the packages offer are
  like that is proved, not assumed: `OptionsAreUsable`, and `PresetsAreOfUse` for
  the presets.

Of the endpoint, for any number of requests, codes, texts and options:

* `TypeCorrect`: `Spec => []TypeOK`. It rests on what the operators return:
  `ReadType`, `ValidateType` (module `TokenRequestProofs`), `IssueType`.
* `CustodyHolds`: `Spec => []Custody`. `SingleUse` is not inductive: it speaks of
  requests that have their tokens and says nothing of one that is about to get
  them. `Custody` says, for each point of the handler, what a request
  holds: from validation on a valid request; at the subject step a client the
  application vouched for; from the subject step on, if it carries a code, that
  code, consumed by itself. The other conjunct says the same from the code's side.
  A step of `r` leaves what other requests hold alone because it only writes at
  `r`, except `RedeemCode`, which only takes a code nobody has. The lemmas
  `StepKeepsCustody` and `LateStepKeepsCustody` carry that argument for the
  actions that do not touch codes.
* `CodesAreSingleUse` and `CodesAreSpentByTheirClients`: the two safety properties
  of codes, from `Custody` and `TypeOK`.
* `DeliveryHolds`: `Delivery` says at each point which tokens exist (those whose
  step is over, `IssuedBefore`), which status is committed and what may be on the
  wire: nothing before the body is written, then any part of the tokens issued, and
  a request that fails under status 200 failed in sending them.
  `EarlyStepKeepsDelivery` covers the steps before the first token,
  `OthersKeepDelivery` the requests a step does not belong to; issuing, the two
  writes and `handleError` have a lemma each. `GrantsAreWhole` (with `Custody`),
  `ErrorStatusMeansNoTokens` and the action property `CodesAreSpentFirst` follow.
* `ExchangeIsSafe`: the safety part of the refinement of `TokenExchange`. The
  abstract step that takes a code is `RedeemCode` where it consumes one; granting
  is `WriteBody` where it sends a token, whether it then succeeds or not; refusing
  is every way to `done` of a request that has none; all else stutters. That a request that is granted took the code it claims needs
  `Custody`, and the invariant `CarriersRead`: what a handler resolves is
  what the reader made of its carrier.
* `WholeRequestsAreAskedAbout`: nobody is authenticated for a request that is not
  whole. `CredentialsAreOfTheMethod` puts the reader and the validator of
  `clientcredentials` together (credentials that pass are those of the one
  method the request uses), `ReadAndValidIsWhole` those of `tokenrequest`;
  `Custody` and `CarriersRead` bring both to the client callback.
* `IssueStamps`, `PrincipalsSubjectStands`: what `Issue` returns for any chain
  of options: stamp and signature whatever the options wrote, and the principal's
  subject whatever ran before `WithPrincipal`. `IssuanceHolds` carries them to
  the handler (each token is what `Issue` makes of this request's principal and
  options; each principal has a name and, without a subject callback, is the
  client that was vouched for), and `Delivery` to the wire, which gives
  `TokensNameTheirSubject`, `TokensCarryTheStamp` and `ClientsAreTheirSubjects`.

Of the bearer tokens, for any limits, lifetimes, clocks, policies and number of
presentations:

* `LineageHolds`: everything that is held, carried or read, and is not somebody
  else's, spells the token that was issued, its signature in some number of layers of base64
  (`FreshPartsReturn`, `SpeltIsDecoded`: what decoding undoes; `Base64Lengths`:
  `DecodedLen` undoes `EncodedLen`). Hence `TokensTravelUnchanged` and
  `LimitsMeanTheirBytes`.
* `JudgedHolds`: a token that is past validation, and a time error that was
  returned, are those of the policy's clock options at the instant `checked`.
  A validator stops at its first objection, so that a time error is that of a
  clock option with nothing before it (`FirstObjectionDecides`); with what
  rounding to seconds may lose (`RoundingDown`) this is
  `TokensAreAdmittedInTheirWindow` and `LeewayIsTolerance`.
  `PrincipalsAreVerified` and `BearersAreJudgedHere` follow as well: past validation
  the verifier had no objection and the issuer is the policy's, and what was
  resolved is what the header decodes to.

* `BearerTypes`: `Spec => []TypeOK`, whose part about clocks and layers of base64 the
  others rest on.

Of sessions, for any artifacts, policies, limits, widths of integers and number
of writes:

* `SessionInvariant`: `SessionInv` is `TypeOK`, `PrincipalHasTheProof` and two
  parts that the properties do not say and need. `CarrierIsAsWritten`: a request
  that was written and not sent has the form of the artifact last written,
  whatever the carrier held before that (a form of an earlier write, or
  an empty one where the request was sent or lost), and what the server has read
  is what the reader makes of that form, with the carrier's header.
  `AnswerIsOfTheResponse`: what was written to the connection is at most two
  documents, each of them the whole response, an error, or a part of either (a
  response and, after a write that failed, the error of `handleError`), and what
  the client has is what its reader and validator make of that.
* `LastArtifactIsRead` and `PrincipalsHaveTheProof` follow from the first part and
  what reading undoes of writing; `GrantsAreWhole` from the second and
  `ReadIsWhole`: for bodies of at most two documents, cut at any byte, the
  reader answers with a value only if it saw one document to its end.
* `LifetimesSurvive` needs the arithmetic of an `int64`: `WholeSeconds` loses less
  than a second (`Division`), and the product that the decoder computes again
  does not overflow (`Int64OfDuration`).
* `AgreedGrantsAreAccepted`: where the policies agree, no check of the validator
  objects.
* `LargestLimitReadsNothing`: a reader with the largest limit an `int64` holds
  returns Malformed for every body, because the limit plus one is negative
  (`tokenresponse/reader.go:79`). No document promises otherwise.

Of components and configurations, for any catalogue of options and any lists
of them:

* `NewComponentsAreSound`: each of the 23 `New` functions returns a component
  without a nil or a missing limit or list, down to the last decoder, or an error.
  A property of every part of every part calls for an induction over depth,
  which is out of reach; `Reached` names the parts of a component level by level, so that each
  constructor's proof cites those of its defaults.
* `ConfigInvariant`: each field of the endpoint under construction is what the
  last option to set it gave, or else its default where `New` has come that
  far (`FieldIsGiven`), and the options before `next` did not fail. `LaterOptionsWin`
  is its case at the end, `EveryEndpointIsServable` adds
  that what options and defaults give is sound, `MethodsAreAnswered` and
  `TokensArePrepared` what the presets give. The two lists of a preset, and the
  list and the callbacks of the other, are fields of their own that an option
  appends to or sets; that they agree is proved from what each option appends
  (`ClientOptionsAppendTwice`, `TokenOptionsAppend`), which needs that no other option
  writes to them (`AuthenticatorOptions`, `TokenOptions`: the fields are private to
  package `presets`).
* `BuiltInvariant`: a component a program has made is sound but for zero values,
  hence `ComponentsWork`. `ValidatorInvariant`: what the options of a
  `tokenresponse.Validator` leave together (switches that agree, types in lower
  case, the last list whole), hence `ValidatorsAccept` and `ListedTypesAreAccepted`.

Only model-checked: `Answered` and the liveness part of `ImplementsExchange`, as
fairness and ENABLED are out of the prover's reach; and the two violations, which
are counterexamples.

## Not modelled

The logger (one variable that is read and written whole behind a lock); `token`
(interfaces) and `internal/testkeys` (test data); `jwt.JwtClaimsEncoder`, which
nothing calls; the `Resources` of a token response; the HTTP status as a client
sees it; and, being `net/http`'s, redirects, which send the body a request was
created with.

## Plan

1. Done: `TokenEndpoint` with the operators it computes with, `TokenExchange`,
   `EndpointConfig`; type correctness and the custody of codes.
2. Done: `JwtCodec`, `JwtValidation` and `BearerAccess`; `RequestWriters`,
   `TokenResponse` and `ClientSession`; `Components` and `ClientConfig`.
3. Done: proofs of delivery, of the safety of the exchange, of issuance, of
   whole requests, and of the bearer tokens.
4. Done: proofs of the sessions, of the constructors and of both configurations.
5. Left: a session whose server is `TokenEndpoint` itself, with several clients at
   once, which is too large for TLC with the present bounds; with the theorems
   of both sides it is a matter of proof.
