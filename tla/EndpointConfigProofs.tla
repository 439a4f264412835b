------------------------ MODULE EndpointConfigProofs ------------------------
(***************************************************************************)
(* tokenendpoint.New, for every list of config options: what an endpoint   *)
(* that it returns has, and that nothing is missing in it.                 *)
(***************************************************************************)
EXTENDS EndpointConfig, ComponentProofs, FiniteSetTheorems, FunctionTheorems

-----------------------------------------------------------------------------
(***************************************************************************)
(* The defaults are sound, and so is what the config options set, the      *)
(* presets among them.                                                     *)
(***************************************************************************)
LEMMA NamedIsSound ==
    ASSUME NEW name, name # "nil", PartKinds(name) = [part \in {} |-> ""],
           LimitsOf(name) = {}, ListsOf(name) = {}
    PROVE  Sound(Named(name), {})
<1> DEFINE c == Named(name)
<1>1. c.is = name
  BY DEF Named
<1> HIDE DEF c
<1>2. Parts(c) = {}
  BY <1>1 DEF Parts
<1>3. ~Incomplete(c) /\ c # Nil
  BY <1>1, <1>2, NilIs DEF Incomplete
<1>4. Sound(c, {})
  BY <1>2, <1>3, SoundOfParts
<1> QED
  BY <1>4 DEF c

LEMMA DefaultsAreSound == \A d \in Dependencies : Sound(DefaultOf(d), {})
<1>1. DefaultOf("issuerOptionsCallback") = Named("no options")
  BY DEF DefaultOf
<1>2. DefaultOf("requestAuthenticator") = Request!NewAuthenticator(<<>>).value
  BY DEF DefaultOf
<1>3. DefaultOf("issuer") = Jwt!NewIssuer(<<>>).value
  BY DEF DefaultOf
<1>4. DefaultOf("responseWriter") = Response!NewWriter(<<>>).value
  BY DEF DefaultOf
<1>5. Sound(Named("no options"), {})
  BY NamedIsSound DEF PartKinds, LimitsOf, ListsOf
<1>6. Sound(Request!NewAuthenticator(<<>>).value, {})
  BY RequestConstructors, RequestDefaultsAreWhole, NewOfNothing
<1>7. Sound(Jwt!NewIssuer(<<>>).value, {})
  BY JwtConstructors, JwtDefaultsAreWhole, NewOfNothing
<1>8. Sound(Response!NewWriter(<<>>).value, {})
  BY ResponseConstructors, ResponseDefaultsAreWhole, NewOfNothing
<1> QED
  BY <1>1, <1>2, <1>3, <1>4, <1>5, <1>6, <1>7, <1>8 DEF Dependencies

-----------------------------------------------------------------------------
(***************************************************************************)
(* The presets: what presets.Authenticator and presets.Tokens make of      *)
(* their options.                                                          *)
(***************************************************************************)
LEMMA LastOfOne == \A i \in Int : Max({i}) = i
<1> SUFFICES ASSUME NEW i \in Int PROVE Max({i}) = i
  OBVIOUS
<1>1. \A j \in {i} : i >= j
  OBVIOUS
<1> QED
  BY <1>1 DEF Max

LEMMA AssignedOnce ==
    ASSUME NEW options, NEW field, NEW i \in Int, Setting(options, field) = {i}
    PROVE  \A otherwise : Assigned(options, field, otherwise) = options[i].sets[field]
BY LastOfOne DEF Assigned

LEMMA AssignedNever ==
    ASSUME NEW options, NEW field, Setting(options, field) = {}
    PROVE  \A otherwise : Assigned(options, field, otherwise) = otherwise
BY DEF Assigned

(* One option, and two *)
LEMMA OneOption ==
    ASSUME NEW field, NEW value
    PROVE  LET options == <<SetField(field, value)>> IN
           /\ IsList(options) /\ ~Faulty(options)
           /\ \A f, otherwise : Assigned(options, f, otherwise) =
                IF f = field THEN value ELSE otherwise
<1> DEFINE options == <<SetField(field, value)>>
<1>1. DOMAIN options = {1} /\ options[1] = SetField(field, value) /\ 1 .. 1 = {1}
  OBVIOUS
<1>2. /\ options[1].does = "set" /\ DOMAIN options[1].sets = {field}
      /\ options[1].sets[field] = value
  BY <1>1, SetFieldSets
<1> HIDE DEF options
<1>3. IsList(options) /\ ~Faulty(options)
  BY <1>1, <1>2 DEF IsList, Faulty
<1>4. Setting(options, field) = {1} /\ \A f : f # field => Setting(options, f) = {}
  BY <1>1, <1>2 DEF Setting
<1>5. \A f, otherwise : Assigned(options, f, otherwise) =
                IF f = field THEN value ELSE otherwise
  BY <1>2, <1>4, AssignedOnce, AssignedNever
<1> QED
  BY <1>3, <1>5 DEF options

TwoSet(options, field, value, other, x) ==
    /\ DOMAIN options = {1, 2}
    /\ options[1] = SetField(field, value) /\ options[2] = SetField(other, x)

LEMMA TwoOptions ==
    ASSUME NEW field, NEW value, NEW other, other # field, NEW x, NEW options,
           TwoSet(options, field, value, other, x)
    PROVE  /\ IsList(options) /\ ~Faulty(options)
           /\ \A otherwise : Assigned(options, field, otherwise) = value
           /\ \A otherwise : Assigned(options, other, otherwise) = x
<1>1. DOMAIN options = 1 .. 2
  BY DEF TwoSet
<1>2. /\ options[1].does = "set" /\ DOMAIN options[1].sets = {field}
      /\ options[1].sets[field] = value
      /\ options[2].does = "set" /\ DOMAIN options[2].sets = {other}
      /\ options[2].sets[other] = x
  BY SetFieldSets DEF TwoSet
<1>3. IsList(options) /\ ~Faulty(options)
  BY <1>1, <1>2 DEF IsList, Faulty
<1>4. Setting(options, field) = {1} /\ Setting(options, other) = {2}
  BY <1>2 DEF Setting, TwoSet
<1> QED
  BY <1>2, <1>3, <1>4, AssignedOnce

LEMMA TwoTogether ==
    ASSUME NEW d, NEW e
    PROVE  LET s == <<d>> \o <<e>> IN DOMAIN s = {1, 2} /\ s[1] = d /\ s[2] = e
<1>1. /\ <<d>> \in Seq({d, e}) /\ Len(<<d>>) = 1 /\ <<d>>[1] = d
      /\ <<e>> \in Seq({d, e}) /\ Len(<<e>>) = 1 /\ <<e>>[1] = e
  OBVIOUS
<1> QED
  BY <1>1

(* The shapes of config options, as the packages see them *)
LEMMA ShapesOfPackages ==
    /\ \A f, m : Request!Component(f, m) = Component(f, m)
    /\ \A f, l, s : Request!Restriction(f, l, s) = Restriction(f, l, s)
    /\ \A f, l, s : Client!Restriction(f, l, s) = Restriction(f, l, s)
    /\ \A o : Client!Runtime(o) = Runtime(o)
    /\ \A o : Request!Runtime(o) = Runtime(o)
<1>1. \A f, m : Request!Component(f, m) = Component(f, m)
  BY Zenon DEF Request!Component, Component, Request!SetField, SetField, Request!Sets,
     Sets, Request!Fails, Fails, Request!NoError, NoError
<1>2. \A f, l, s : Request!Restriction(f, l, s) = Restriction(f, l, s)
  BY Zenon DEF Request!Restriction, Restriction, Request!SetField, SetField, Request!Sets,
     Sets, Request!Fails, Fails, Request!Range, Range
<1>3. \A f, l, s : Client!Restriction(f, l, s) = Restriction(f, l, s)
  BY Zenon DEF Client!Restriction, Restriction, Client!SetField, SetField, Client!Sets,
     Sets, Client!Fails, Fails, Client!Range, Range
<1>4. \A o : Client!Runtime(o) = Runtime(o)
  BY Zenon DEF Client!Runtime, Runtime, Client!SetField, SetField, Client!Sets, Sets
<1>5. \A o : Request!Runtime(o) = Runtime(o)
  BY Zenon DEF Request!Runtime, Runtime, Request!SetField, SetField, Request!Sets, Sets
<1> QED
  BY <1>1, <1>2, <1>3, <1>4, <1>5

LEMMA UnlessIs == \A b, o : Unless(b, o) = IF b THEN <<>> ELSE <<o>>
BY DEF Unless

LEMMA ComponentSets ==
    ASSUME NEW field, NEW made, Component(field, made).does = "set"
    PROVE  made.err = NoError /\ Component(field, made) = SetField(field, made.value)
BY FailsSetsNothing DEF Component

LEMMA RestrictionSets ==
    ASSUME NEW field, NEW list, NEW supported, Restriction(field, list, supported).does = "set"
    PROVE  /\ Restriction(field, list, supported) = SetField(field, Range(list))
           /\ Range(list) \subseteq supported
BY FailsSetsNothing DEF Restriction

(* An empty list adds nothing *)
LEMMA NothingBefore == \A e : <<>> \o <<e>> = <<e>> /\ <<e>> \o <<>> = <<e>>
<1> TAKE e
<1>1. <<e>> \in Seq({e})
  OBVIOUS
<1>2. \A s \in Seq({e}) : <<>> \o s = s /\ s \o <<>> = s
  OBVIOUS
<1> QED
  BY <1>1, <1>2

(* An option that is there unless something is nothing, and what it sets *)
Gives(thing, nothing, option, field, value) ==
    thing # nothing /\ option.does = "set" => option = SetField(field, value)
Both(options, u, nou, first, w, now, second) ==
    options = Unless(u = nou, first) \o Unless(w = now, second)

LEMMA BothAreUsable ==
    ASSUME NEW options, NEW u, NEW nou, NEW first, NEW w, NEW now, NEW second,
           Both(options, u, nou, first, w, now, second), NEW kind, NEW zeros,
           Usable(first, kind, zeros), Usable(second, kind, zeros)
    PROVE  IsList(options) /\ \A i \in DOMAIN options : Usable(options[i], kind, zeros)
<1>1. /\ Unless(u = nou, first) \in {<<>>, <<first>>}
      /\ Unless(w = now, second) \in {<<>>, <<second>>}
  BY Zenon DEF Unless
<1>2. \/ options = <<>> \o <<>> \/ options = <<first>> \o <<>>
      \/ options = <<>> \o <<second>> \/ options = <<first>> \o <<second>>
  BY <1>1, Zenon DEF Both
<1>3. CASE options = <<>> \o <<>>
  <2>1. options = <<>>
    BY <1>3
  <2> QED
    BY <2>1, EmptyList
<1>4. \A e : IsList(<<e>>) /\ DOMAIN <<e>> = {1} /\ <<e>>[1] = e
  BY DEF IsList
<1>5. CASE options = <<first>> \o <<>> \/ options = <<>> \o <<second>>
  <2>1. options = <<first>> \/ options = <<second>>
    BY <1>5, NothingBefore
  <2> QED
    BY <2>1, <1>4
<1>6. CASE options = <<first>> \o <<second>>
  <2>1. DOMAIN options = {1, 2} /\ options[1] = first /\ options[2] = second
    BY <1>6, TwoTogether
  <2>2. DOMAIN options = 1 .. 2
    BY <2>1
  <2>3. IsList(options)
    BY <2>2 DEF IsList
  <2> QED
    BY <2>1, <2>3
<1> QED
  BY <1>2, <1>3, <1>5, <1>6

(* A component made of usable options may itself be given to another *)
LEMMA MadeIsUsable ==
    ASSUME NEW zeros, NEW default, Whole(default, zeros), NEW options, IsList(options),
           \A i \in DOMAIN options : Usable(options[i], default.is, zeros),
           NEW made, made = New(default, options)
    PROVE  /\ made.err = NoError => Sound(made.value, zeros)
           /\ \A field, kind : field # "is" /\ field \notin LimitsOf(kind) =>
                 Usable(Component(field, made), kind, zeros)
<1>1. made.err = NoError => Sound(made.value, zeros)
  BY NewBuilds DEF Builds
<1> QED
  BY <1>1, OptionsAreUsable

(* Two options that are each there or not: what they leave in their fields *)
LEMMA OneOrNone ==
    ASSUME NEW u, NEW nou, NEW w, NEW now, NEW first, NEW second,
           NEW field, NEW other, field # other, NEW x, NEW y,
           Gives(u, nou, first, field, x), Gives(w, now, second, other, y),
           NEW options, ~Faulty(options), Both(options, u, nou, first, w, now, second)
    PROVE  /\ u # nou => first.does = "set"
           /\ w # now => second.does = "set"
           /\ \A otherwise : /\ u = nou => Assigned(options, field, otherwise) = otherwise
                             /\ u # nou => Assigned(options, field, otherwise) = x
                             /\ w = now => Assigned(options, other, otherwise) = otherwise
                             /\ w # now => Assigned(options, other, otherwise) = y
<1>0. options = Unless(u = nou, first) \o Unless(w = now, second)
  BY DEF Both
<1>1. CASE u = nou /\ w = now
  <2>1. Unless(u = nou, first) = <<>> /\ Unless(w = now, second) = <<>>
    BY <1>1, Zenon DEF Unless
  <2>2. options = <<>>
    BY <1>0, <2>1, EmptyList
  <2>3. \A f : Setting(<<>>, f) = {}
    BY EmptyList DEF Setting
  <2>4. \A f, otherwise : Assigned(options, f, otherwise) = otherwise
    BY <2>2, <2>3, AssignedNever
  <2> QED
    BY <1>1, <2>4
<1>2. CASE u = nou /\ w # now
  <2>1. Unless(u = nou, first) = <<>> /\ Unless(w = now, second) = <<second>>
    BY <1>2, Zenon DEF Unless
  <2>2. options = <<second>>
    BY <1>0, <2>1, NothingBefore
  <2>3. ~Faulty(<<second>>)
    BY <2>2
  <2>4. DOMAIN <<second>> = {1} /\ <<second>>[1] = second
    OBVIOUS
  <2>5. second.does = "set"
    BY <2>3, <2>4 DEF Faulty
  <2>6. second = SetField(other, y)
    BY <1>2, <2>5 DEF Gives
  <2>7. \A otherwise : /\ Assigned(<<second>>, field, otherwise) = otherwise
                       /\ Assigned(<<second>>, other, otherwise) = y
    BY <2>6, OneOption
  <2> QED
    BY <1>2, <2>2, <2>5, <2>7
<1>3. CASE u # nou /\ w = now
  <2>1. Unless(u = nou, first) = <<first>> /\ Unless(w = now, second) = <<>>
    BY <1>3, Zenon DEF Unless
  <2>2. options = <<first>>
    BY <1>0, <2>1, NothingBefore
  <2>3. ~Faulty(<<first>>)
    BY <2>2
  <2>4. DOMAIN <<first>> = {1} /\ <<first>>[1] = first
    OBVIOUS
  <2>5. first.does = "set"
    BY <2>3, <2>4 DEF Faulty
  <2>6. first = SetField(field, x)
    BY <1>3, <2>5 DEF Gives
  <2>7. \A otherwise : /\ Assigned(<<first>>, field, otherwise) = x
                       /\ Assigned(<<first>>, other, otherwise) = otherwise
    BY <2>6, OneOption
  <2> QED
    BY <1>3, <2>2, <2>5, <2>7
<1>4. CASE u # nou /\ w # now
  <2> DEFINE both == <<first>> \o <<second>>
  <2>1. Unless(u = nou, first) = <<first>> /\ Unless(w = now, second) = <<second>>
    BY <1>4, Zenon DEF Unless
  <2>2. options = both
    BY <1>0, <2>1
  <2>3. DOMAIN both = {1, 2} /\ both[1] = first /\ both[2] = second
    BY TwoTogether
  <2>4. ~Faulty(both)
    BY <2>2
  <2> HIDE DEF both
  <2>5. first.does = "set" /\ second.does = "set"
    BY <2>3, <2>4 DEF Faulty
  <2>6. first = SetField(field, x) /\ second = SetField(other, y)
    BY <1>4, <2>5 DEF Gives
  <2>7. other # field /\ TwoSet(both, field, x, other, y)
    BY <2>3, <2>6 DEF TwoSet
  <2>8. \A otherwise : /\ Assigned(both, field, otherwise) = x
                       /\ Assigned(both, other, otherwise) = y
    BY <2>7, TwoOptions
  <2> QED
    BY <1>4, <2>2, <2>5, <2>8
<1> QED
  BY <1>1, <1>2, <1>3, <1>4

(***************************************************************************)
(* What presets.Authenticator leaves of its options: the methods in the    *)
(* validator, their callbacks in the resolver.                             *)
(***************************************************************************)
LEMMA AuthenticatorParts ==
    ASSUME NEW options, Authenticator(options).does = "set"
    PROVE  LET sets == Authenticator(options).sets
               made == sets["requestAuthenticator"]
               methods == ClientMethods(options)
               clients == ClientResolverOptions(options)
           IN  /\ DOMAIN sets = {"requestAuthenticator"} /\ Sound(made, {})
               /\ methods # <<>> => Range(methods) \subseteq ClientAuthMethods
               /\ made.validator.clientCredentialsValidator.allowedMethods =
                    IF methods = <<>> THEN ClientAuthMethods ELSE Range(methods)
               /\ made.resolver.clientResolver.runtimeOptions =
                    IF clients = <<>> THEN <<>> ELSE clients
<1> DEFINE grants == Assigned(options, "grantTypes", <<>>)
           subject == Assigned(options, "subjectResolver", Nil)
           methods == ClientMethods(options)
           clients == ClientResolverOptions(options)
           grantOption == Request!WithValidatorAllowedGrantTypes(grants)
           methodOption == Request!WithValidatorClientCredentialsValidatorOptions(
                              <<Client!WithValidatorAllowedMethods(methods)>>)
           clientOption == Request!WithResolverClientResolverOptions(
                              <<Client!WithResolverRuntimeOptions(clients)>>)
           subjectOption == Request!WithResolverRuntimeOptions(<<subject>>)
           validatorOptions ==
                Unless(grants = <<>>, grantOption) \o Unless(methods = <<>>, methodOption)
           resolverOptions ==
                Unless(clients = <<>>, clientOption) \o Unless(subject = Nil, subjectOption)
           validator == New(DefaultRequestValidator, validatorOptions)
           resolver == New(DefaultRequestResolver, resolverOptions)
           parts == <<Component("validator", validator), Component("resolver", resolver)>>
           authenticator == New(DefaultRequestAuthenticator, parts)
<1>1. Request!WithAuthenticatorValidatorOptions(validatorOptions) =
        Component("validator", validator)
  BY ShapesOfPackages, RequestConstructors, Zenon DEF Request!WithAuthenticatorValidatorOptions
<1>2. Request!WithAuthenticatorResolverOptions(resolverOptions) = Component("resolver", resolver)
  BY ShapesOfPackages, RequestConstructors, Zenon DEF Request!WithAuthenticatorResolverOptions
<1>3. Authenticator(options) = Component("requestAuthenticator", authenticator)
  <2>1. \/ Authenticator(options) = Fails
        \/ Authenticator(options) =
             Component("requestAuthenticator", Request!NewAuthenticator(
                <<Request!WithAuthenticatorValidatorOptions(validatorOptions),
                  Request!WithAuthenticatorResolverOptions(resolverOptions)>>))
    BY Zenon DEF Authenticator, WithTokenRequestAuthenticatorOptions
  <2>2. Authenticator(options) # Fails
    BY FailsSetsNothing
  <2> HIDE DEF validatorOptions, resolverOptions, validator, resolver
  <2> QED
    BY <2>1, <2>2, <1>1, <1>2, RequestConstructors, Zenon
<1> HIDE DEF grants, subject, methods, clients, authenticator, validator, resolver, parts,
             grantOption, methodOption, clientOption, subjectOption, validatorOptions,
             resolverOptions
<1>4. /\ authenticator.err = NoError
      /\ Authenticator(options) = SetField("requestAuthenticator", authenticator.value)
  BY <1>3, ComponentSets
<1>5. /\ validator.err = NoError /\ resolver.err = NoError
      /\ authenticator.value["validator"] = validator.value
      /\ authenticator.value["resolver"] = resolver.value
  <2>1. ~Faulty(parts)
    BY <1>4, MadeByNew DEF authenticator
  <2>2. DOMAIN parts = {1, 2} /\ parts[1] = Component("validator", validator)
        /\ parts[2] = Component("resolver", resolver)
    BY DEF parts
  <2>3. /\ validator.err = NoError /\ parts[1] = SetField("validator", validator.value)
        /\ resolver.err = NoError /\ parts[2] = SetField("resolver", resolver.value)
    BY <2>1, <2>2, ComponentSets DEF Faulty
  <2>4. /\ \A otherwise : Assigned(parts, "validator", otherwise) = validator.value
        /\ \A otherwise : Assigned(parts, "resolver", otherwise) = resolver.value
    BY <2>2, <2>3, TwoOptions DEF TwoSet
  <2>5. {"validator", "resolver"} \subseteq DOMAIN DefaultRequestAuthenticator
    BY DEF DefaultRequestAuthenticator
  <2> QED
    BY <1>4, <2>3, <2>4, <2>5, MadeHasFields DEF authenticator
<1>6. /\ validator.value["clientCredentialsValidator"]["allowedMethods"] =
            IF methods = <<>> THEN ClientAuthMethods ELSE Range(methods)
      /\ methods # <<>> => Range(methods) \subseteq ClientAuthMethods
  <2> DEFINE restricted == Restriction("allowedMethods", methods, ClientAuthMethods)
             inner == New(DefaultClientValidator, <<restricted>>)
  <2>1. methodOption = Component("clientCredentialsValidator", inner)
    BY ShapesOfPackages, RequestClientConstructors, Zenon
       DEF methodOption, Request!WithValidatorClientCredentialsValidatorOptions,
           Client!WithValidatorAllowedMethods, Client!ClientAuthMethods, ClientAuthMethods
  <2>2. grantOption = Restriction("allowedGrantTypes", grants, GrantTypes)
    BY ShapesOfPackages, Zenon
       DEF grantOption, Request!WithValidatorAllowedGrantTypes, Request!GrantTypes, GrantTypes
  <2> HIDE DEF inner
  <2>3. ~Faulty(validatorOptions)
    BY <1>5, MadeByNew DEF validator
  <2>4. /\ methods # <<>> => methodOption.does = "set"
        /\ \A otherwise : Assigned(validatorOptions, "clientCredentialsValidator", otherwise) =
              IF methods = <<>> THEN otherwise ELSE inner.value
    <3>1. Gives(methods, <<>>, methodOption, "clientCredentialsValidator", inner.value)
      BY <2>1, ComponentSets DEF Gives
    <3>2. Gives(grants, <<>>, grantOption, "allowedGrantTypes", Range(grants))
      BY <2>2, RestrictionSets DEF Gives
    <3>3. Both(validatorOptions, grants, <<>>, grantOption, methods, <<>>, methodOption)
      BY DEF validatorOptions, Both
    <3>4. "allowedGrantTypes" # "clientCredentialsValidator"
      OBVIOUS
    <3>5. /\ methods # <<>> => methodOption.does = "set"
          /\ \A otherwise :
              /\ methods = <<>> =>
                   Assigned(validatorOptions, "clientCredentialsValidator", otherwise) = otherwise
              /\ methods # <<>> =>
                   Assigned(validatorOptions, "clientCredentialsValidator", otherwise) = inner.value
      BY <2>3, <3>1, <3>2, <3>3, <3>4, OneOrNone
    <3> QED
      BY <3>5
  <2>5. methods # <<>> => inner.err = NoError
    BY <2>1, <2>4, ComponentSets
  <2>6. validator.value["clientCredentialsValidator"] =
            IF methods = <<>> THEN New(DefaultClientValidator, <<>>).value ELSE inner.value
    <3>1. "clientCredentialsValidator" \in DOMAIN DefaultRequestValidator
          /\ DefaultRequestValidator["clientCredentialsValidator"] =
                New(DefaultClientValidator, <<>>).value
      BY DEF DefaultRequestValidator
    <3> QED
      BY <1>5, <2>4, <3>1, MadeHasFields DEF validator
  <2>7. "allowedMethods" \in DOMAIN DefaultClientValidator
        /\ DefaultClientValidator["allowedMethods"] = ClientAuthMethods
    BY DEF DefaultClientValidator
  <2>8. CASE methods = <<>>
    <3>1. New(DefaultClientValidator, <<>>).err = NoError
      BY ClientDefaultsAreWhole, NewOfNothing
    <3>2. Assigned(<<>>, "allowedMethods", ClientAuthMethods) = ClientAuthMethods
      BY EmptyList DEF Assigned, Setting
    <3> QED
      BY <2>6, <2>7, <2>8, <3>1, <3>2, MadeHasFields
  <2>9. CASE methods # <<>>
    <3>1. ~Faulty(<<restricted>>)
          /\ inner.value["allowedMethods"] =
                Assigned(<<restricted>>, "allowedMethods", ClientAuthMethods)
      BY <2>5, <2>7, <2>9, MadeHasFields DEF inner
    <3>2. DOMAIN <<restricted>> = {1} /\ <<restricted>>[1] = restricted
      OBVIOUS
    <3>3. restricted.does = "set"
      BY <3>1, <3>2 DEF Faulty
    <3>4. /\ restricted = SetField("allowedMethods", Range(methods))
          /\ Range(methods) \subseteq ClientAuthMethods
      BY <3>3, RestrictionSets
    <3> HIDE DEF restricted
    <3>5. Assigned(<<restricted>>, "allowedMethods", ClientAuthMethods) = Range(methods)
      BY <3>4, OneOption
    <3> QED
      BY <2>6, <2>9, <3>1, <3>4, <3>5
  <2> QED
    BY <2>8, <2>9
<1>7. resolver.value["clientResolver"]["runtimeOptions"] = IF clients = <<>> THEN <<>> ELSE clients
  <2> DEFINE registered == SetField("runtimeOptions", clients)
             inner == New(DefaultClientResolver, <<registered>>)
  <2>1. clientOption = Component("clientResolver", inner)
    BY ShapesOfPackages, RequestClientConstructors, Zenon
       DEF clientOption, Request!WithResolverClientResolverOptions,
           Client!WithResolverRuntimeOptions, Runtime
  <2>2. subjectOption = SetField("runtimeOptions", <<subject>>)
    BY ShapesOfPackages, Zenon DEF subjectOption, Request!WithResolverRuntimeOptions, Runtime
  <2>3. ~Faulty(resolverOptions)
    BY <1>5, MadeByNew DEF resolver
  <2>4. ~Faulty(<<registered>>)
        /\ \A otherwise : Assigned(<<registered>>, "runtimeOptions", otherwise) = clients
    BY OneOption
  <2>5. /\ DefaultClientResolver.runtimeOptions = <<>>
        /\ "runtimeOptions" \in DOMAIN DefaultClientResolver
    BY DEF DefaultClientResolver
  <2> HIDE DEF registered
  <2>6. inner.err = NoError /\ inner.value["runtimeOptions"] = clients
    <3>1. inner.err = NoError
      BY <2>4, MadeByNew
    <3> QED
      BY <2>4, <2>5, <3>1, MadeHasFields
  <2> HIDE DEF inner
  <2>7. \A otherwise : Assigned(resolverOptions, "clientResolver", otherwise) =
              IF clients = <<>> THEN otherwise ELSE inner.value
    <3>1. Gives(clients, <<>>, clientOption, "clientResolver", inner.value)
      BY <2>1, <2>6 DEF Component, Gives
    <3>2. Gives(subject, Nil, subjectOption, "runtimeOptions", <<subject>>)
      BY <2>2 DEF Gives
    <3>3. Both(resolverOptions, clients, <<>>, clientOption, subject, Nil, subjectOption)
          /\ "clientResolver" # "runtimeOptions"
      BY DEF resolverOptions, Both
    <3>4. \A otherwise :
              /\ clients = <<>> =>
                   Assigned(resolverOptions, "clientResolver", otherwise) = otherwise
              /\ clients # <<>> =>
                   Assigned(resolverOptions, "clientResolver", otherwise) = inner.value
      BY <2>3, <3>1, <3>2, <3>3, OneOrNone
    <3> QED
      BY <3>4
  <2>8. resolver.value["clientResolver"] =
            IF clients = <<>> THEN New(DefaultClientResolver, <<>>).value ELSE inner.value
    <3>1. "clientResolver" \in DOMAIN DefaultRequestResolver
          /\ DefaultRequestResolver["clientResolver"] = New(DefaultClientResolver, <<>>).value
      BY DEF DefaultRequestResolver
    <3> QED
      BY <1>5, <2>7, <3>1, MadeHasFields DEF resolver
  <2>9. New(DefaultClientResolver, <<>>).value["runtimeOptions"] = <<>>
    <3>1. New(DefaultClientResolver, <<>>).err = NoError
      BY ClientDefaultsAreWhole, NewOfNothing
    <3>2. Assigned(<<>>, "runtimeOptions", <<>>) = <<>>
      BY EmptyList DEF Assigned, Setting
    <3> QED
      BY <2>5, <3>1, <3>2, MadeHasFields
  <2> QED
    BY <2>6, <2>8, <2>9
<1>8. DOMAIN Authenticator(options).sets = {"requestAuthenticator"}
      /\ Authenticator(options).sets["requestAuthenticator"] = authenticator.value
  BY <1>4, SetFieldSets
<1>9. validator.err = NoError => Sound(validator.value, {})
  <2> DEFINE restricted == Restriction("allowedMethods", methods, ClientAuthMethods)
             inner == New(DefaultClientValidator, <<restricted>>)
             kind == "tokenrequest.Validator"
  <2>1. methodOption = Component("clientCredentialsValidator", inner)
    BY ShapesOfPackages, RequestClientConstructors, Zenon
       DEF methodOption, Request!WithValidatorClientCredentialsValidatorOptions,
           Client!WithValidatorAllowedMethods, Client!ClientAuthMethods, ClientAuthMethods
  <2>2. grantOption = Restriction("allowedGrantTypes", grants, GrantTypes)
    BY ShapesOfPackages, Zenon
       DEF grantOption, Request!WithValidatorAllowedGrantTypes, Request!GrantTypes, GrantTypes
  <2>3. Usable(restricted, "clientcredentials.Validator", {})
    BY OptionsAreUsable, ClientPartKinds, ClientLimits
  <2>4. Usable(grantOption, kind, {})
    BY <2>2, OptionsAreUsable, RequestPartKinds, RequestLimits
  <2> HIDE DEF restricted
  <2>5. IsList(<<restricted>>)
        /\ \A i \in DOMAIN <<restricted>> :
              Usable(<<restricted>>[i], "clientcredentials.Validator", {})
    BY <2>3 DEF IsList
  <2>6. /\ Whole(DefaultClientValidator, {})
        /\ DefaultClientValidator.is = "clientcredentials.Validator"
        /\ Whole(DefaultRequestValidator, {}) /\ DefaultRequestValidator.is = kind
    BY ClientDefaultsAreWhole, RequestDefaultsAreWhole
       DEF DefaultClientValidator, DefaultRequestValidator
  <2>7. Usable(methodOption, kind, {})
    BY <2>1, <2>5, <2>6, MadeIsUsable, RequestLimits
  <2>8. Both(validatorOptions, grants, <<>>, grantOption, methods, <<>>, methodOption)
    BY DEF validatorOptions, Both
  <2>9. IsList(validatorOptions)
        /\ \A i \in DOMAIN validatorOptions : Usable(validatorOptions[i], kind, {})
    BY <2>4, <2>7, <2>8, BothAreUsable
  <2> QED
    BY <2>6, <2>9, MadeIsUsable DEF validator
<1>10. resolver.err = NoError => Sound(resolver.value, {})
  <2> DEFINE registered == SetField("runtimeOptions", clients)
             inner == New(DefaultClientResolver, <<registered>>)
             kind == "tokenrequest.Resolver"
  <2>1. clientOption = Component("clientResolver", inner)
    BY ShapesOfPackages, RequestClientConstructors, Zenon
       DEF clientOption, Request!WithResolverClientResolverOptions,
           Client!WithResolverRuntimeOptions, Runtime
  <2>2. subjectOption = SetField("runtimeOptions", <<subject>>)
    BY ShapesOfPackages, Zenon DEF subjectOption, Request!WithResolverRuntimeOptions, Runtime
  <2>3. Usable(registered, "clientcredentials.Resolver", {})
    BY OptionsAreUsable, ClientPartKinds, ClientLimits
  <2>4. Usable(subjectOption, kind, {})
    BY <2>2, OptionsAreUsable, RequestPartKinds, RequestLimits
  <2> HIDE DEF registered
  <2>5. IsList(<<registered>>)
        /\ \A i \in DOMAIN <<registered>> :
              Usable(<<registered>>[i], "clientcredentials.Resolver", {})
    BY <2>3 DEF IsList
  <2>6. Whole(DefaultClientResolver, {}) /\ DefaultClientResolver.is = "clientcredentials.Resolver"
        /\ Whole(DefaultRequestResolver, {}) /\ DefaultRequestResolver.is = kind
    BY ClientDefaultsAreWhole, RequestDefaultsAreWhole
       DEF DefaultClientResolver, DefaultRequestResolver
  <2>7. Usable(clientOption, kind, {})
    BY <2>1, <2>5, <2>6, MadeIsUsable, RequestLimits
  <2>8. Both(resolverOptions, clients, <<>>, clientOption, subject, Nil, subjectOption)
    BY DEF resolverOptions, Both
  <2>9. IsList(resolverOptions)
        /\ \A i \in DOMAIN resolverOptions : Usable(resolverOptions[i], kind, {})
    BY <2>4, <2>7, <2>8, BothAreUsable
  <2> QED
    BY <2>6, <2>9, MadeIsUsable DEF resolver
<1>11. Sound(authenticator.value, {})
  <2> DEFINE kind == "tokenrequest.Authenticator"
  <2>1. Usable(Component("validator", validator), kind, {})
        /\ Usable(Component("resolver", resolver), kind, {})
    BY <1>9, <1>10, OptionsAreUsable, RequestLimits
  <2>2. DOMAIN parts = 1 .. 2 /\ DOMAIN parts = {1, 2}
        /\ parts[1] = Component("validator", validator)
        /\ parts[2] = Component("resolver", resolver)
    BY DEF parts
  <2>3. IsList(parts) /\ \A i \in DOMAIN parts : Usable(parts[i], kind, {})
    BY <2>1, <2>2 DEF IsList
  <2>4. Whole(DefaultRequestAuthenticator, {}) /\ DefaultRequestAuthenticator.is = kind
    BY RequestDefaultsAreWhole DEF DefaultRequestAuthenticator
  <2> QED
    BY <1>4, <2>3, <2>4, MadeIsUsable DEF authenticator
<1> QED
  BY <1>5, <1>6, <1>7, <1>8, <1>11 DEF methods, clients

(* A set of indices that is not empty has a smallest one *)
LEMMA SmallestIndex ==
    ASSUME NEW S \in SUBSET Nat, S # {}
    PROVE  Client!Min(S) \in S
<1>2. PICK least \in S : \A m \in S : ~(<<m, least>> \in OpToRel(<, Nat))
  BY NatLessThanWellFounded, WFMin
<1>3. \A m \in S : least <= m
  <2> SUFFICES ASSUME NEW m \in S PROVE least <= m
    OBVIOUS
  <2>1. ~(<<m, least>> \in OpToRel(<, Nat))
    BY <1>2
  <2>2. ~(m < least)
    BY <2>1 DEF OpToRel
  <2> QED
    BY <2>2
<1> QED
  BY <1>3 DEF Client!Min

(***************************************************************************)
(* The two lists of the preset go together.                                *)
(***************************************************************************)
LEMMA ClientOptionsAppendTwice ==
    ASSUME NEW options, AuthenticatorOptions(options)
    PROVE  /\ Setting(options, "clientMethods") \in SUBSET Nat
           /\ Setting(options, "clientResolverOptions") = Setting(options, "clientMethods")
           /\ \A i \in Setting(options, "clientMethods") :
                 LET option == options[i].sets["clientResolverOptions"] IN
                 option.method = options[i].sets["clientMethods"] /\ option.callback # Nil
<1> DEFINE setting == Setting(options, "clientMethods")
           also == Setting(options, "clientResolverOptions")
<1>1. ASSUME NEW i \in setting \cup also
      PROVE  /\ DOMAIN options[i].sets = {"clientMethods", "clientResolverOptions"}
             /\ options[i].sets["clientResolverOptions"].method = options[i].sets["clientMethods"]
             /\ options[i].sets["clientResolverOptions"].callback # Nil
  <2> DEFINE set == options[i].sets
             method == set["clientMethods"]
             callback == set["clientResolverOptions"].callback
             option == Client!WithResolverAuthenticationMethod(method, callback)
  <2>1. options[i] = ClientAuthentication(method, callback)
    BY DEF AuthenticatorOptions
  <2>2. DOMAIN set # {}
    BY DEF Setting
  <2> HIDE DEF method, callback
  <2>3. callback # Nil
    <3>1. callback = Nil => options[i] = Fails
      BY <2>1, Zenon DEF ClientAuthentication
    <3> QED
      BY <2>2, <3>1 DEF Fails
  <2>4. options[i] = Sets([f \in {"clientMethods", "clientResolverOptions"} |->
                              IF f = "clientMethods" THEN method ELSE option])
    BY <2>1, <2>3, Zenon DEF ClientAuthentication
  <2>5. option.method = method
    BY DEF Client!WithResolverAuthenticationMethod
  <2> HIDE DEF option
  <2>6. /\ DOMAIN set = {"clientMethods", "clientResolverOptions"}
        /\ set["clientMethods"] = method /\ set["clientResolverOptions"] = option
    BY <2>4 DEF Sets
  <2> QED
    BY <2>3, <2>5, <2>6 DEF callback
<1>2. DOMAIN options \subseteq Nat
  <2>1. options \in Seq(Range(options))
    BY DEF AuthenticatorOptions
  <2> QED
    BY <2>1
<1>3. setting = also
  BY <1>1 DEF Setting
<1>4. setting \in SUBSET Nat
  BY <1>2 DEF Setting
<1> QED
  BY <1>1, <1>3, <1>4

LEMMA AuthenticatorAnswers ==
    ASSUME NEW options, AuthenticatorOptions(options), Authenticator(options).does = "set"
    PROVE  LET made == Authenticator(options).sets["requestAuthenticator"]
               allowed == made.validator.clientCredentialsValidator.allowedMethods
               resolver == made.resolver.clientResolver
               enabled == {m \in ClientAuthMethods : Naming(options, m) # {}}
           IN  /\ allowed = IF enabled = {} THEN ClientAuthMethods ELSE enabled
               /\ \A m \in ClientAuthMethods \ enabled : Client!Answering(resolver, m) = Nil
               /\ \A m \in enabled :
                     LET first == options[Min(Naming(options, m))].sets IN
                     Client!Answering(resolver, m) = first["clientResolverOptions"].callback
<1> DEFINE made == Authenticator(options).sets["requestAuthenticator"]
           allowed == made.validator.clientCredentialsValidator.allowedMethods
           resolver == made.resolver.clientResolver
           enabled == {m \in ClientAuthMethods : Naming(options, m) # {}}
           clients == ClientResolverOptions(options)
           methods == ClientMethods(options)
           setting == Setting(options, "clientMethods")
<1>1. /\ allowed = IF methods = <<>> THEN ClientAuthMethods ELSE Range(methods)
      /\ methods # <<>> => Range(methods) \subseteq ClientAuthMethods
      /\ resolver.runtimeOptions = IF clients = <<>> THEN <<>> ELSE clients
  BY AuthenticatorParts
<1>2. /\ DOMAIN clients = setting /\ DOMAIN methods = setting
      /\ \A i \in setting : /\ clients[i] = options[i].sets["clientResolverOptions"]
                            /\ methods[i] = options[i].sets["clientMethods"]
                            /\ clients[i].method = methods[i]
  BY ClientOptionsAppendTwice DEF ClientResolverOptions, ClientMethods, Appended
<1>3. resolver.runtimeOptions = clients
  BY <1>1
<1>4. \A m : Naming(options, m) = {i \in setting : methods[i] = m}
  BY <1>2 DEF Naming
<1> HIDE DEF clients, methods, allowed, resolver, setting
<1>5. enabled = Range(methods) \cap ClientAuthMethods
  BY <1>2, <1>4 DEF Range
<1>6. methods = <<>> <=> setting = {}
  <2>1. ASSUME setting = {} PROVE methods = <<>>
    <3>1. methods = [i \in {} |-> options[i].sets["clientMethods"]]
      BY <2>1, Zenon DEF methods, ClientMethods, Appended, setting
    <3>2. <<>> = [i \in 1 .. 0 |-> <<>>[i]] /\ 1 .. 0 = {}
      OBVIOUS
    <3> QED
      BY <3>1, <3>2
  <2> QED
    BY <1>2, <2>1, EmptyList
<1>7. allowed = IF enabled = {} THEN ClientAuthMethods ELSE enabled
  <2>1. CASE methods = <<>>
    BY <1>1, <1>4, <1>6, <2>1
  <2>2. CASE methods # <<>>
    <3>1. enabled = Range(methods)
      BY <1>1, <1>5, <2>2
    <3>2. Range(methods) # {}
      BY <1>2, <1>6, <2>2 DEF Range
    <3> HIDE DEF enabled
    <3> QED
      BY <1>1, <2>2, <3>1, <3>2
  <2> QED
    BY <2>1, <2>2
<1>8. ASSUME NEW m
      PROVE  Client!Answering(resolver, m) =
               IF Naming(options, m) = {} THEN Nil
               ELSE options[Min(Naming(options, m))].sets["clientResolverOptions"].callback
  <2> DEFINE matching == {i \in DOMAIN clients : clients[i].method = m}
             named == Naming(options, m)
  <2>1. matching = named
    BY <1>2, <1>4
  <2>2. Client!Answering(resolver, m) =
          IF matching = {} THEN Nil ELSE clients[Client!Min(matching)].callback
    BY <1>3, Zenon DEF Client!Answering, Client!Nil, Nil
  <2>3. named \in SUBSET Nat /\ named \subseteq setting
    BY ClientOptionsAppendTwice DEF Naming, setting
  <2>4. \A S : Min(S) = Client!Min(S)
    BY Zenon DEF Min, Client!Min
  <2> HIDE DEF matching, named
  <2>5. ASSUME named # {}
        PROVE  clients[Client!Min(named)] = options[Min(named)].sets["clientResolverOptions"]
    <3>1. Client!Min(named) \in setting
      BY <2>3, <2>5, SmallestIndex
    <3> QED
      BY <1>2, <2>4, <3>1
  <2>6. Client!Answering(resolver, m) =
          IF named = {} THEN Nil
          ELSE options[Min(named)].sets["clientResolverOptions"].callback
    <3>1. CASE named = {}
      BY <2>1, <2>2, <3>1
    <3>2. CASE named # {}
      BY <2>1, <2>2, <2>5, <3>2
    <3> QED
      BY <3>1, <3>2
  <2> QED
    BY <2>6 DEF named
<1>9. \A m \in ClientAuthMethods \ enabled : Client!Answering(resolver, m) = Nil
  BY <1>8
<1>10. \A m \in enabled :
          Client!Answering(resolver, m) =
            options[Min(Naming(options, m))].sets["clientResolverOptions"].callback
  BY <1>8
<1> QED
  BY <1>7, <1>9, <1>10, Zenon DEF allowed, resolver

(* What presets.Tokens leaves of its options *)
LEMMA TokensParts ==
    ASSUME NEW options, Tokens(options).does = "set"
    PROVE  LET sets == Tokens(options).sets IN
           /\ DOMAIN sets = {"issuedTokens", "issuerOptionsCallback"}
           /\ sets["issuedTokens"] = Range(Appended(options, "issued"))
           /\ sets["issuedTokens"] \subseteq TokenKinds
           /\ sets["issuerOptionsCallback"] = TokensCallback(options)
           /\ sets["issuedTokens"] # {} /\ Sound(sets["issuerOptionsCallback"], {})
<1> DEFINE issued == Appended(options, "issued")
           kinds == Range(issued)
           first == WithIssuedTokens(issued)
           second == WithIssuerOptionsCallback(TokensCallback(options))
<1>1. Tokens(options) = Fails \/ Tokens(options) = Then(first, second)
  BY Zenon DEF Tokens
<1>2. kinds = {} => issued = <<>>
  <2>1. /\ Range(issued) = {issued[i] : i \in DOMAIN issued}
        /\ issued = [i \in DOMAIN issued |-> issued[i]]
    BY DEF Range, Appended
  <2>2. <<>> = [i \in 1 .. 0 |-> <<>>[i]] /\ 1 .. 0 = {}
    OBVIOUS
  <2> HIDE DEF issued
  <2>3. ASSUME kinds = {} PROVE issued = <<>>
    <3>1. DOMAIN issued = {}
      BY <2>1, <2>3
    <3> QED
      BY <2>1, <2>2, <3>1
  <2> QED
    BY <2>3
<1> HIDE DEF kinds, issued, second
<1>3. Tokens(options) = Then(first, second)
  BY <1>1, FailsSetsNothing
<1>4. first.does = "set"
  BY <1>3, Zenon DEF Then
<1> HIDE DEF first
<1>5. first = SetField("issuedTokens", kinds) /\ kinds \subseteq TokenKinds
  BY <1>4, RestrictionSets, Zenon DEF first, WithIssuedTokens, kinds
<1>6. second = SetField("issuerOptionsCallback", TokensCallback(options))
  <2>1. TokensCallback(options).is = "presets.Tokens"
    BY DEF TokensCallback
  <2>2. TokensCallback(options) # Nil
    BY <2>1, NilIs
  <2> QED
    BY <2>2, Zenon DEF second, WithIssuerOptionsCallback, Dependency
<1> DEFINE both == [f \in DOMAIN first.sets \cup DOMAIN second.sets |->
                      IF f \in DOMAIN second.sets THEN second.sets[f] ELSE first.sets[f]]
<1>7. Tokens(options) = Sets(both)
  BY <1>3, <1>4, Zenon DEF Then
<1>8. Tokens(options).sets = both
  BY <1>7 DEF Sets
<1>9. /\ DOMAIN first.sets = {"issuedTokens"} /\ first.sets["issuedTokens"] = kinds
      /\ DOMAIN second.sets = {"issuerOptionsCallback"}
      /\ second.sets["issuerOptionsCallback"] = TokensCallback(options)
  BY <1>5, <1>6, SetFieldSets
<1>10. /\ DOMAIN Tokens(options).sets = {"issuedTokens", "issuerOptionsCallback"}
       /\ Tokens(options).sets["issuedTokens"] = kinds
       /\ Tokens(options).sets["issuerOptionsCallback"] = TokensCallback(options)
  BY <1>8, <1>9
<1>11. kinds # {}
  BY <1>2, <1>4, FailsSetsNothing, Zenon DEF first, WithIssuedTokens, Restriction
<1>12. Sound(TokensCallback(options), {})
  <2> DEFINE callback == TokensCallback(options)
  <2>1. callback.is = "presets.Tokens"
    BY DEF TokensCallback
  <2>2. Parts(callback) = {} /\ LimitsOf(callback.is) = {} /\ ListsOf(callback.is) = {}
    BY <2>1 DEF Parts, PartKinds, LimitsOf, ListsOf
  <2> HIDE DEF callback
  <2>3. callback # Nil /\ ~Incomplete(callback)
    BY <2>1, <2>2, NilIs DEF Incomplete
  <2>4. Sound(callback, {})
    BY <2>2, <2>3, SoundOfParts
  <2> QED
    BY <2>4 DEF callback
<1> QED
  BY <1>5, <1>10, <1>11, <1>12 DEF kinds, issued

(* An option for a token names it in the list and has its callback *)
LEMMA TokenOptionsAppend ==
    ASSUME NEW options, TokenOptions(options)
    PROVE  \A k \in TokenKinds : \A i \in DOMAIN options :
              /\ i \in Setting(options, k) <=>
                    i \in Setting(options, "issued") /\ options[i].sets["issued"] = k
              /\ i \in Setting(options, k) => options[i].sets[k] # Nil
<1>1. "issued" \notin TokenKinds
  BY DEF TokenKinds
<1>2. ASSUME NEW i \in DOMAIN options, NEW l \in TokenKinds, l \in DOMAIN options[i].sets,
             options[i] = TokenOption(l, options[i].sets[l])
      PROVE  /\ DOMAIN options[i].sets = {"issued", l} /\ options[i].sets["issued"] = l
             /\ options[i].sets[l] # Nil
  <2> DEFINE callback == options[i].sets[l]
  <2> HIDE DEF callback
  <2>1. callback # Nil
    <3>1. callback = Nil => options[i] = Fails
      BY <1>2, Zenon DEF TokenOption, callback
    <3>2. DOMAIN options[i].sets # {}
      BY <1>2
    <3> QED
      BY <3>1, <3>2 DEF Fails
  <2>2. options[i] = Sets([f \in {"issued", l} |-> IF f = "issued" THEN l ELSE callback])
    BY <1>2, <2>1, Zenon DEF TokenOption, callback
  <2>3. /\ DOMAIN options[i].sets = {"issued", l} /\ options[i].sets["issued"] = l
    BY <2>2 DEF Sets
  <2> QED
    BY <2>1, <2>3 DEF callback
<1>3. ASSUME NEW k \in TokenKinds, NEW i \in DOMAIN options
      PROVE  /\ i \in Setting(options, k) <=>
                    i \in Setting(options, "issued") /\ options[i].sets["issued"] = k
             /\ i \in Setting(options, k) => options[i].sets[k] # Nil
  <2>1. CASE i \in Setting(options, k) \/ i \in Setting(options, "issued")
    <3>1. i \in UNION {Setting(options, f) : f \in {"issued"} \cup TokenKinds}
      BY <2>1
    <3>2. PICK l \in TokenKinds : /\ l \in DOMAIN options[i].sets
                                 /\ options[i] = TokenOption(l, options[i].sets[l])
      BY <3>1 DEF TokenOptions
    <3>3. /\ DOMAIN options[i].sets = {"issued", l} /\ options[i].sets["issued"] = l
          /\ options[i].sets[l] # Nil
      BY <1>2, <3>2
    <3>4. i \in Setting(options, k) <=> k = l
      BY <1>1, <3>3 DEF Setting
    <3>5. i \in Setting(options, "issued")
      BY <3>3 DEF Setting
    <3> QED
      BY <3>3, <3>4, <3>5
  <2>2. CASE i \notin Setting(options, k) /\ i \notin Setting(options, "issued")
    BY <2>2
  <2> QED
    BY <2>1, <2>2
<1> QED
  BY <1>3

LEMMA TokensPrepare ==
    ASSUME NEW options, TokenOptions(options), Tokens(options).does = "set"
    PROVE  LET sets == Tokens(options).sets IN
           sets["issuedTokens"] = {k \in TokenKinds : sets["issuerOptionsCallback"][k] # Nil}
<1> DEFINE callback == TokensCallback(options)
           issued == Appended(options, "issued")
<1>1. IsList(options)
  <2>1. options \in Seq(Range(options))
    BY DEF TokenOptions
  <2>2. Len(options) \in Nat /\ DOMAIN options = 1 .. Len(options)
    BY <2>1
  <2> QED
    BY <2>2 DEF IsList
<1>2. ASSUME NEW k \in TokenKinds
      PROVE  k \in Range(issued) <=> callback[k] # Nil
  <2>1. k # "is"
    BY DEF TokenKinds
  <2>2. callback[k] = Assigned(options, k, Nil)
    BY <2>1 DEF TokensCallback
  <2>3. k \in Range(issued) <=> Setting(options, k) # {}
    <3>1. k \in Range(issued) <=>
            \E i \in Setting(options, "issued") : options[i].sets["issued"] = k
      BY DEF Range, Appended
    <3>2. Setting(options, k) \subseteq DOMAIN options
          /\ Setting(options, "issued") \subseteq DOMAIN options
      BY DEF Setting
    <3> QED
      BY <3>1, <3>2, TokenOptionsAppend
  <2>4. ASSUME Setting(options, k) # {} PROVE Assigned(options, k, Nil) # Nil
    <3>1. Max(Setting(options, k)) \in Setting(options, k)
      BY <1>1, <2>4, LastSetting
    <3>2. Max(Setting(options, k)) \in DOMAIN options
      BY <3>1 DEF Setting
    <3>3. options[Max(Setting(options, k))].sets[k] # Nil
      BY <3>1, <3>2, TokenOptionsAppend
    <3> QED
      BY <2>4, <3>3, Zenon DEF Assigned
  <2>5. ASSUME Setting(options, k) = {} PROVE Assigned(options, k, Nil) = Nil
    BY <2>5, Zenon DEF Assigned
  <2> HIDE DEF callback, issued
  <2> QED
    BY <2>2, <2>3, <2>4, <2>5
<1>3. /\ Tokens(options).sets["issuedTokens"] = Range(issued) /\ Range(issued) \subseteq TokenKinds
      /\ Tokens(options).sets["issuerOptionsCallback"] = callback
  BY TokensParts
<1> HIDE DEF callback, issued
<1> QED
  BY <1>2, <1>3

(***************************************************************************)
(* What the presets give New is always of use, whatever their own options  *)
(* were: a whole authenticator, or some tokens and a callback; or they are *)
(* refused (presets/authenticator.go:27, presets/issuer.go:38).            *)
(***************************************************************************)
THEOREM PresetsAreOfUse ==
    \A options : OfUse(Authenticator(options)) /\ OfUse(Tokens(options))
<1>1. \A options : OfUse(Authenticator(options))
  <2> SUFFICES ASSUME NEW options, Authenticator(options).does = "set"
               PROVE  OfUse(Authenticator(options))
    BY DEF OfUse
  <2> QED
    BY AuthenticatorParts DEF OfUse, Dependencies
<1>2. \A options : OfUse(Tokens(options))
  <2> SUFFICES ASSUME NEW options, Tokens(options).does = "set"
               PROVE  OfUse(Tokens(options))
    BY DEF OfUse
  <2>1. DOMAIN Tokens(options).sets = {"issuedTokens", "issuerOptionsCallback"}
        /\ Tokens(options).sets["issuedTokens"] \in (SUBSET TokenKinds) \ {{}}
        /\ Sound(Tokens(options).sets["issuerOptionsCallback"], {})
    BY TokensParts
  <2> QED
    BY <2>1 DEF OfUse, Dependencies
<1> QED
  BY <1>1, <1>2

-----------------------------------------------------------------------------
(***************************************************************************)
(* New is where its options and defaults have brought it.                  *)
(***************************************************************************)
Fields == Dependencies \cup {"issuedTokens"}

(* The options that are applied already and set a field *)
Applied(field) == {i \in Giving(field) : i < next}

(* What the field holds is from the last of those, or what it was, or its default *)
FieldIsGiven(f) ==
    IF Applied(f) # {} THEN endpoint[f] = Option(Max(Applied(f))).sets[f]
    ELSE \/ endpoint[f] = NoEndpoint[f]
         \/ step # "options" /\ f \in Dependencies /\ endpoint[f] = DefaultOf(f)

(* The defaults that have been looked at *)
Behind(s) ==
    CASE s = "requestAuthenticator" -> {"issuerOptionsCallback"}
      [] s = "issuer" -> {"issuerOptionsCallback", "requestAuthenticator"}
      [] s = "responseWriter" -> Dependencies \ {"responseWriter"}
      [] s = "built" -> Dependencies
      [] OTHER -> {}

ConfigTypeOK ==
    /\ given \in Seq(DOMAIN Catalogue)
    /\ next \in 1 .. Len(given) + 1
    /\ step \in {"options", "failed", "built"} \cup Dependencies
    /\ DOMAIN endpoint = Fields

OptionsInOrder ==
    /\ \A i \in DOMAIN given : i < next => Option(i).does = "set"
    /\ step = "failed" => next \in DOMAIN given /\ Option(next).does # "set"
    /\ step \in {"built"} \cup Dependencies => next = Len(given) + 1

ConfigInv ==
    /\ ConfigTypeOK
    /\ OptionsInOrder
    /\ \A f \in Fields : FieldIsGiven(f)
    /\ \A d \in Behind(step) : endpoint[d] # Nil

LEMMA FieldsAre ==
    /\ "issuedTokens" \in Fields /\ "issuedTokens" \notin Dependencies
    /\ Dependencies \subseteq Fields
BY DEF Fields, Dependencies

LEMMA GivenList ==
    ASSUME ConfigTypeOK
    PROVE  /\ Len(given) \in Nat /\ DOMAIN given = 1 .. Len(given)
           /\ next \in Nat
           /\ \A i \in DOMAIN given : given[i] \in DOMAIN Catalogue /\ OfUse(Option(i))
<1>1. given \in Seq(DOMAIN Catalogue) /\ next \in 1 .. Len(given) + 1
  BY DEF ConfigTypeOK
<1>2. Len(given) \in Nat /\ DOMAIN given = 1 .. Len(given)
      /\ \A i \in DOMAIN given : given[i] \in DOMAIN Catalogue
  BY <1>1
<1>3. \A name \in DOMAIN Catalogue : OfUse(Catalogue[name])
  BY CatalogueAssumption, PresetsAreOfUse
<1> QED
  BY <1>1, <1>2, <1>3 DEF Option

LEMMA GivingIs ==
    ASSUME NEW f
    PROVE  Giving(f) = {i \in DOMAIN given : f \in DOMAIN Option(i).sets}
BY DEF Giving, Setting

LEMMA LastApplied ==
    ASSUME ConfigTypeOK, NEW f, Applied(f) # {}
    PROVE  /\ Max(Applied(f)) \in Applied(f)
           /\ \A i \in Applied(f) : i <= Max(Applied(f))
<1>1. Applied(f) \in SUBSET (1 .. Len(given))
  BY GivenList, GivingIs DEF Applied
<1> HIDE DEF Applied
<1> QED
  BY <1>1, GivenList, LargestIndex

(* What an option has set is sound *)
LEMMA AppliedIsOfUse ==
    ASSUME ConfigTypeOK, OptionsInOrder, NEW f, Applied(f) # {}
    PROVE  /\ f \in Dependencies => Sound(Option(Max(Applied(f))).sets[f], {})
           /\ f = "issuedTokens" =>
                Option(Max(Applied(f))).sets[f] \in (SUBSET TokenKinds) \ {{}}
<1> DEFINE last == Max(Applied(f))
<1>1. last \in Applied(f)
  BY LastApplied
<1>2. last \in DOMAIN given /\ f \in DOMAIN Option(last).sets /\ last < next
  BY <1>1, GivingIs DEF Applied
<1>3. Option(last).does = "set" /\ OfUse(Option(last))
  BY <1>2, GivenList DEF OptionsInOrder
<1> HIDE DEF last
<1>4. /\ f \in Dependencies => Sound(Option(last).sets[f], {})
      /\ f = "issuedTokens" => Option(last).sets[f] \in (SUBSET TokenKinds) \ {{}}
  BY <1>2, <1>3 DEF OfUse
<1> QED
  BY <1>4 DEF last

LEMMA ConfigInit == Init => ConfigInv
<1> SUFFICES ASSUME Init PROVE ConfigInv
  OBVIOUS
<1>1. given \in Seq(DOMAIN Catalogue)
  BY DEF Init, SeqOf
<1>2. ConfigTypeOK
  BY <1>1 DEF ConfigTypeOK, Init, NoEndpoint, Fields
<1>3. step = "options" /\ "options" \notin {"failed", "built"} \cup Dependencies
  BY DEF Init, Dependencies
<1>4. OptionsInOrder
  BY <1>2, <1>3, GivenList DEF OptionsInOrder, Init
<1>5. \A f \in Fields : FieldIsGiven(f)
  <2>1. \A f : Applied(f) = {}
    BY <1>2, GivenList, GivingIs DEF Applied, Init
  <2> QED
    BY <2>1 DEF FieldIsGiven, Init
<1>6. Behind(step) = {}
  BY <1>3 DEF Behind
<1> QED
  BY <1>2, <1>4, <1>5, <1>6 DEF ConfigInv

(* Steps that apply no option *)
LEMMA SameOptions ==
    ASSUME UNCHANGED <<given, next>>
    PROVE  /\ \A i : Option(i)' = Option(i)
           /\ \A f : Giving(f)' = Giving(f) /\ Applied(f)' = Applied(f)
<1>1. \A i : Option(i)' = Option(i)
  BY DEF Option
<1>2. \A f : Giving(f)' = Giving(f)
  BY <1>1 DEF Giving, Setting
<1> QED
  BY <1>1, <1>2 DEF Applied

LEMMA RefuseKeeps == ConfigInv /\ RefuseOption => ConfigInv'
<1> SUFFICES ASSUME ConfigInv, RefuseOption PROVE ConfigInv'
  OBVIOUS
<1>1. UNCHANGED <<given, next, endpoint>> /\ step = "options" /\ step' = "failed"
      /\ next <= Len(given) /\ Option(next).does # "set"
  BY DEF RefuseOption
<1>2. ConfigTypeOK /\ OptionsInOrder /\ \A f \in Fields : FieldIsGiven(f)
  BY DEF ConfigInv
<1>3. ConfigTypeOK'
  BY <1>1, <1>2 DEF ConfigTypeOK
<1>4. next \in DOMAIN given
  BY <1>1, <1>2, GivenList DEF ConfigTypeOK
<1>5. "failed" \notin {"built"} \cup Dependencies
  BY DEF Dependencies
<1>6. OptionsInOrder'
  BY <1>1, <1>2, <1>4, <1>5, SameOptions DEF OptionsInOrder
<1>7. (\A f \in Fields : FieldIsGiven(f))'
  BY <1>1, <1>2, SameOptions DEF FieldIsGiven, Fields
<1>8. Behind(step') = {}
  BY <1>1 DEF Behind
<1> QED
  BY <1>3, <1>6, <1>7, <1>8 DEF ConfigInv

LEMMA ApplyKeeps == ConfigInv /\ ApplyOption => ConfigInv'
<1> SUFFICES ASSUME ConfigInv, ApplyOption PROVE ConfigInv'
  OBVIOUS
<1>1. UNCHANGED <<given, step>> /\ step = "options" /\ next' = next + 1
      /\ next <= Len(given) /\ Option(next).does = "set"
      /\ endpoint' = Replace(endpoint, Option(next).sets)
  BY DEF ApplyOption
<1>2. ConfigTypeOK /\ OptionsInOrder /\ \A f \in Fields : FieldIsGiven(f)
  BY DEF ConfigInv
<1>3. next \in DOMAIN given /\ next \in Nat /\ DOMAIN endpoint = Fields
  BY <1>1, <1>2, GivenList DEF ConfigTypeOK
<1>4. DOMAIN endpoint' = Fields
      /\ \A f \in Fields : endpoint'[f] =
            IF f \in DOMAIN Option(next).sets THEN Option(next).sets[f] ELSE endpoint[f]
  BY <1>1, <1>3 DEF Replace
<1>5. ConfigTypeOK'
  BY <1>1, <1>2, <1>4, GivenList DEF ConfigTypeOK
<1>6. \A i : Option(i)' = Option(i)
  BY <1>1 DEF Option
<1>7. OptionsInOrder'
  <2>1. "options" \notin {"built", "failed"} \cup Dependencies
    BY DEF Dependencies
  <2>2. \A i \in DOMAIN given : i < next + 1 => i < next \/ i = next
    BY <1>2, <1>3, GivenList
  <2> QED
    BY <1>1, <1>2, <1>6, <2>1, <2>2 DEF OptionsInOrder
<1>8. \A f \in Fields : FieldIsGiven(f)'
  <2> SUFFICES ASSUME NEW f \in Fields PROVE FieldIsGiven(f)'
    OBVIOUS
  <2>1. Giving(f)' = Giving(f)
    BY <1>1, <1>6 DEF Giving, Setting
  <2>2. \A i \in DOMAIN given : i < next + 1 <=> i < next \/ i = next
    BY <1>2, <1>3, GivenList
  <2>3. CASE f \in DOMAIN Option(next).sets
    <3>1. next \in Applied(f)'
      BY <1>1, <1>3, <2>1, <2>2, <2>3, GivingIs DEF Applied
    <3>2. Max(Applied(f)') \in Applied(f)' /\ next <= Max(Applied(f)')
      <4>1. Applied(f)' # {} => /\ Max(Applied(f)') \in Applied(f)'
                                /\ \A i \in Applied(f)' : i <= Max(Applied(f)')
        <5>1. Applied(f)' \in SUBSET (1 .. Len(given))
          BY <1>1, <1>2, <2>1, GivenList, GivingIs DEF Applied
        <5> HIDE DEF Applied
        <5> QED
          BY <5>1, <1>2, GivenList, LargestIndex
      <4> QED
        BY <3>1, <4>1
    <3>3. Max(Applied(f)') \in DOMAIN given /\ Max(Applied(f)') < next + 1
      BY <3>2, <1>1, <2>1, GivingIs DEF Applied
    <3>4. Max(Applied(f)') = next
      BY <3>2, <3>3, <2>2, <1>2, <1>3, GivenList
    <3>5. endpoint'[f] = Option(next).sets[f]
      BY <1>4, <2>3
    <3> HIDE DEF Applied
    <3> QED
      BY <3>1, <3>4, <3>5, <1>6 DEF FieldIsGiven
  <2>4. CASE f \notin DOMAIN Option(next).sets
    <3>1. Applied(f)' = Applied(f)
      BY <1>1, <1>3, <2>1, <2>2, <2>4, GivingIs DEF Applied
    <3>2. endpoint'[f] = endpoint[f]
      BY <1>4, <2>4
    <3> QED
      BY <3>1, <3>2, <1>1, <1>2, <1>6 DEF FieldIsGiven
  <2> QED
    BY <2>3, <2>4
<1>9. Behind(step') = {}
  BY <1>1 DEF Behind
<1> QED
  BY <1>5, <1>7, <1>8, <1>9 DEF ConfigInv, Fields

LEMMA AppliedKeeps == ConfigInv /\ OptionsApplied => ConfigInv'
<1> SUFFICES ASSUME ConfigInv, OptionsApplied PROVE ConfigInv'
  OBVIOUS
<1>1. UNCHANGED <<given, next, endpoint>> /\ step = "options"
      /\ step' = "issuerOptionsCallback" /\ next > Len(given)
  BY DEF OptionsApplied
<1>2. ConfigTypeOK /\ OptionsInOrder /\ \A f \in Fields : FieldIsGiven(f)
  BY DEF ConfigInv
<1>3. ConfigTypeOK'
  BY <1>1, <1>2 DEF ConfigTypeOK, Dependencies
<1>4. next = Len(given) + 1
  BY <1>1, <1>2, GivenList DEF ConfigTypeOK
<1>5. OptionsInOrder'
  BY <1>1, <1>2, <1>4, SameOptions DEF OptionsInOrder
<1>6. \A f \in Fields : FieldIsGiven(f)'
  BY <1>1, <1>2, SameOptions DEF FieldIsGiven
<1>7. Behind(step') = {}
  BY <1>1 DEF Behind
<1> QED
  BY <1>3, <1>5, <1>6, <1>7 DEF ConfigInv, Fields

LEMMA DefaultKeeps == ASSUME NEW d \in Dependencies PROVE ConfigInv /\ Default(d) => ConfigInv'
<1> SUFFICES ASSUME ConfigInv, Default(d) PROVE ConfigInv'
  OBVIOUS
<1>1. UNCHANGED <<given, next>> /\ step = d /\ step' = After(d)
      /\ endpoint' = IF endpoint[d] = Nil THEN [endpoint EXCEPT ![d] = DefaultOf(d)] ELSE endpoint
  BY DEF Default
<1>2. ConfigTypeOK /\ OptionsInOrder /\ (\A f \in Fields : FieldIsGiven(f))
      /\ (\A x \in Behind(d) : endpoint[x] # Nil)
  BY <1>1 DEF ConfigInv
<1>3. DOMAIN endpoint = Fields /\ d \in Fields
  BY <1>2, FieldsAre DEF ConfigTypeOK
<1>4. After(d) \in {"built"} \cup Dependencies /\ Behind(After(d)) \subseteq Behind(d) \cup {d}
      /\ Behind(After(d)) \subseteq Dependencies
  BY DEF After, Behind, Dependencies
<1>5. After(d) # "failed" /\ After(d) # "options" /\ d # "options"
  BY DEF After, Dependencies
<1>6. DOMAIN endpoint' = Fields
      /\ (\A f \in Fields : f # d => endpoint'[f] = endpoint[f])
      /\ (endpoint[d] # Nil => endpoint'[d] = endpoint[d])
      /\ (endpoint[d] = Nil => endpoint'[d] = DefaultOf(d))
  BY <1>1, <1>3
<1>7. ConfigTypeOK'
  BY <1>1, <1>2, <1>4, <1>6 DEF ConfigTypeOK
<1>8. next = Len(given) + 1
  BY <1>1, <1>2 DEF OptionsInOrder
<1>9. OptionsInOrder'
  BY <1>1, <1>2, <1>5, <1>8, SameOptions DEF OptionsInOrder
<1>10. Sound(DefaultOf(d), {}) /\ DefaultOf(d) # Nil
  BY DefaultsAreSound, SoundHead
<1>11. \A f \in Fields : FieldIsGiven(f)'
  <2> SUFFICES ASSUME NEW f \in Fields PROVE FieldIsGiven(f)'
    OBVIOUS
  <2>1. FieldIsGiven(f) /\ Applied(f)' = Applied(f) /\ \A i : Option(i)' = Option(i)
    BY <1>1, <1>2, SameOptions
  <2>2. CASE f # d \/ endpoint[d] # Nil
    <3>1. endpoint'[f] = endpoint[f]
      BY <1>6, <2>2
    <3> QED
      BY <2>1, <3>1, <1>1, <1>5 DEF FieldIsGiven
  <2>3. CASE f = d /\ endpoint[d] = Nil
    <3>1. Applied(d) = {}
      <4>1. Applied(d) # {} => Sound(endpoint[d], {})
        BY <1>2, <1>3, AppliedIsOfUse DEF FieldIsGiven
      <4> QED
        BY <4>1, <2>3, SoundHead
    <3> QED
      BY <2>1, <2>3, <3>1, <1>1, <1>5, <1>6 DEF FieldIsGiven
  <2> QED
    BY <2>2, <2>3
<1>12. \A x \in Behind(step') : endpoint'[x] # Nil
  BY <1>1, <1>2, <1>4, <1>6, <1>10, FieldsAre
<1> QED
  BY <1>7, <1>9, <1>11, <1>12 DEF ConfigInv, Fields

LEMMA ConfigStutters == ConfigInv /\ UNCHANGED vars => ConfigInv'
<1> SUFFICES ASSUME ConfigInv, UNCHANGED vars PROVE ConfigInv'
  OBVIOUS
<1>1. UNCHANGED <<given, next, endpoint, step>>
  BY DEF vars
<1>2. ConfigTypeOK' /\ OptionsInOrder'
  BY <1>1, SameOptions DEF ConfigInv, ConfigTypeOK, OptionsInOrder
<1>3. \A f \in Fields : FieldIsGiven(f)'
  BY <1>1, SameOptions DEF ConfigInv, FieldIsGiven
<1> QED
  BY <1>1, <1>2, <1>3 DEF ConfigInv, Fields

(***************************************************************************)
(* The inductive invariant of New: it is where its options and defaults    *)
(* have brought it.                                                        *)
(***************************************************************************)
THEOREM ConfigInvariant == Spec => []ConfigInv
<1>1. ConfigInv /\ [Next]_vars => ConfigInv'
  BY RefuseKeeps, ApplyKeeps, AppliedKeeps, DefaultKeeps, ConfigStutters DEF Next, Stop
<1> QED
  BY <1>1, ConfigInit, PTL DEF Spec

(***************************************************************************)
(* Servable: an endpoint that New returns has all its dependencies, none   *)
(* of them lacks a part down to the last decoder, and it issues some token *)
(* - whatever the options were and in whatever order they came.            *)
(***************************************************************************)
THEOREM EveryEndpointIsServable == Spec => []Servable
<1>1. ConfigInv => Servable
  <2> SUFFICES ASSUME ConfigInv, step = "built" PROVE Servable
    BY DEF Servable, Built
  <2>1. ConfigTypeOK /\ OptionsInOrder /\ (\A f \in Fields : FieldIsGiven(f))
    BY DEF ConfigInv
  <2>2. Behind("built") = Dependencies
    BY DEF Behind
  <2>3. \A d \in Dependencies : endpoint[d] # Nil /\ NoEndpoint[d] = Nil
    BY <2>2, FieldsAre DEF ConfigInv, NoEndpoint, Fields
  <2>4. \A d \in Dependencies : Sound(endpoint[d], {})
    <3> SUFFICES ASSUME NEW d \in Dependencies PROVE Sound(endpoint[d], {})
      OBVIOUS
    <3>1. FieldIsGiven(d)
      BY <2>1, FieldsAre
    <3>2. CASE Applied(d) # {}
      BY <3>1, <3>2, <2>1, AppliedIsOfUse DEF FieldIsGiven
    <3>3. CASE Applied(d) = {}
      BY <3>1, <3>3, <2>3, DefaultsAreSound DEF FieldIsGiven
    <3> QED
      BY <3>2, <3>3
  <2>5. endpoint["issuedTokens"] \in (SUBSET TokenKinds) \ {{}}
    <3>1. FieldIsGiven("issuedTokens")
      BY <2>1, FieldsAre
    <3>2. CASE Applied("issuedTokens") # {}
      BY <3>1, <3>2, <2>1, AppliedIsOfUse DEF FieldIsGiven
    <3>3. CASE Applied("issuedTokens") = {}
      <4>1. endpoint["issuedTokens"] = {"access_token"}
        BY <3>1, <3>3, FieldsAre DEF FieldIsGiven, NoEndpoint, Fields
      <4> QED
        BY <4>1 DEF TokenKinds
    <3> QED
      BY <3>2, <3>3
  <2> QED
    BY <2>4, <2>5 DEF Servable
<1> QED
  BY <1>1, ConfigInvariant, PTL

(***************************************************************************)
(* LaterOptionWins: of several options that set the same part of the       *)
(* endpoint the last one has it, and New fails only when some option does. *)
(***************************************************************************)
THEOREM LaterOptionsWin == Spec => []LaterOptionWins
<1>1. ConfigInv => LaterOptionWins
  <2> SUFFICES ASSUME ConfigInv PROVE LaterOptionWins
    OBVIOUS
  <2> DEFINE options == [i \in DOMAIN given |-> Option(i)]
  <2>1. ConfigTypeOK /\ OptionsInOrder /\ (\A f \in Fields : FieldIsGiven(f))
    BY DEF ConfigInv
  <2>2. ASSUME step = "built" PROVE ~Faulty(options) /\ \A f : Applied(f) = Giving(f)
    <3>1. next = Len(given) + 1
      BY <2>1, <2>2 DEF OptionsInOrder
    <3>2. \A i \in DOMAIN given : i < next
      BY <2>1, <3>1, GivenList
    <3>3. ~Faulty(options)
      BY <2>1, <3>2 DEF Faulty, OptionsInOrder
    <3> QED
      BY <3>2, <3>3, GivingIs DEF Applied
  <2>3. ASSUME step = "failed" PROVE Faulty(options)
    BY <2>1, <2>3 DEF OptionsInOrder, Faulty
  <2>4. DOMAIN endpoint = Fields
    BY <2>1 DEF ConfigTypeOK
  <2> HIDE DEF options
  <2>5. ASSUME step = "built", NEW f \in Fields, Giving(f) # {}
        PROVE  endpoint[f] = Option(LastGiving(f)).sets[f]
    BY <2>1, <2>2, <2>5 DEF FieldIsGiven, LastGiving
  <2> QED
    BY <2>2, <2>3, <2>4, <2>5 DEF LaterOptionWins, Built, options
<1> QED
  BY <1>1, ConfigInvariant, PTL

-----------------------------------------------------------------------------
(* The option that has a part of the endpoint New returned *)
LEMMA Winner ==
    ASSUME ConfigInv, step = "built", NEW f \in Fields, Giving(f) # {}
    PROVE  /\ LastGiving(f) \in DOMAIN given
           /\ Option(LastGiving(f)).does = "set"
           /\ endpoint[f] = Option(LastGiving(f)).sets[f]
<1>1. ConfigTypeOK /\ OptionsInOrder /\ FieldIsGiven(f)
  BY DEF ConfigInv
<1>2. next = Len(given) + 1
  BY <1>1 DEF OptionsInOrder
<1>3. \A i \in DOMAIN given : i < next
  BY <1>1, <1>2, GivenList
<1>4. Applied(f) = Giving(f)
  BY <1>3, GivingIs DEF Applied
<1>5. Max(Applied(f)) \in Applied(f)
  BY <1>1, <1>4, LastApplied
<1>6. LastGiving(f) \in DOMAIN given
  BY <1>4, <1>5, GivingIs DEF LastGiving
<1> QED
  BY <1>1, <1>3, <1>4, <1>6 DEF FieldIsGiven, LastGiving, OptionsInOrder

(***************************************************************************)
(* EnabledMethodsAreAnswered: whatever other options New was given, the    *)
(* preset's authenticator answers exactly the methods that its             *)
(* ClientAuthentication options name, with the callback of the first that  *)
(* names it, and lets exactly these through; without any such option it    *)
(* lets all methods through and answers none                               *)
(* (presets/authenticator.go:76, :43).                                     *)
(***************************************************************************)
THEOREM MethodsAreAnswered == Spec => []EnabledMethodsAreAnswered
<1>1. ConfigInv => EnabledMethodsAreAnswered
  <2> DEFINE last == LastGiving("requestAuthenticator")
             options == Authenticators[given[last]]
             enabled == {m \in ClientAuthMethods : Naming(options, m) # {}}
  <2> SUFFICES ASSUME ConfigInv, step = "built", Giving("requestAuthenticator") # {},
                      given[last] \in DOMAIN Authenticators
               PROVE  LET made == endpoint.requestAuthenticator
                          allowed == made.validator.clientCredentialsValidator.allowedMethods
                          resolver == made.resolver.clientResolver
                      IN  /\ allowed = IF enabled = {} THEN ClientAuthMethods ELSE enabled
                          /\ \A m \in ClientAuthMethods \ enabled :
                                Client!Answering(resolver, m) = Nil
                          /\ \A m \in enabled :
                                LET first == options[Min(Naming(options, m))].sets IN
                                Client!Answering(resolver, m) =
                                    first["clientResolverOptions"].callback
    BY Zenon DEF EnabledMethodsAreAnswered, Built
  <2>1. "requestAuthenticator" \in Fields
    BY DEF Fields, Dependencies
  <2>2. /\ Option(last).does = "set"
        /\ endpoint.requestAuthenticator = Option(last).sets["requestAuthenticator"]
    BY <2>1, Winner
  <2>3. AuthenticatorOptions(options) /\ Option(last) = Authenticator(options)
    BY CatalogueAssumption, Zenon DEF Option
  <2> HIDE DEF last, options
  <2> QED
    BY <2>2, <2>3, AuthenticatorAnswers, Zenon
<1> QED
  BY <1>1, ConfigInvariant, PTL

(***************************************************************************)
(* IssuedTokensArePrepared: with the tokens and the callback of the same   *)
(* presets.Tokens, the tokens the endpoint issues are those that a         *)
(* callback prepares.                                                      *)
(***************************************************************************)
THEOREM TokensArePrepared == Spec => []IssuedTokensArePrepared
<1>1. ConfigInv => IssuedTokensArePrepared
  <2> DEFINE last == LastGiving("issuedTokens")
             options == TokenPresets[given[last]]
  <2> SUFFICES ASSUME ConfigInv, step = "built", Giving("issuedTokens") # {},
                      Giving("issuerOptionsCallback") # {},
                      last = LastGiving("issuerOptionsCallback"),
                      given[last] \in DOMAIN TokenPresets
               PROVE  endpoint.issuedTokens =
                        {k \in TokenKinds : endpoint.issuerOptionsCallback[k] # Nil}
    BY Zenon DEF IssuedTokensArePrepared, Built
  <2>1. {"issuedTokens", "issuerOptionsCallback"} \subseteq Fields
    BY DEF Fields, Dependencies
  <2>2. /\ Option(last).does = "set"
        /\ endpoint.issuedTokens = Option(last).sets["issuedTokens"]
        /\ endpoint.issuerOptionsCallback = Option(last).sets["issuerOptionsCallback"]
    BY <2>1, Winner
  <2>3. TokenOptions(options) /\ Option(last) = Tokens(options)
    BY CatalogueAssumption, Zenon DEF Option
  <2> HIDE DEF last, options
  <2> QED
    BY <2>2, <2>3, TokensPrepare
<1> QED
  BY <1>1, ConfigInvariant, PTL
=============================================================================
