-------------------------- MODULE ComponentProofs --------------------------
(***************************************************************************)
(* What the New functions of the packages make of every list of config     *)
(* options: a component that is whole down to its last part, or nothing.   *)
(***************************************************************************)
EXTENDS Components, WellFoundedInduction, TLAPS

-----------------------------------------------------------------------------
(***************************************************************************)
(* Lists of options: the last of those that assign a field.                *)
(***************************************************************************)
IsList(options) == \E n \in Nat : DOMAIN options = 1 .. n

LEMMA EmptyList == IsList(<<>>) /\ DOMAIN <<>> = {}
<1>1. DOMAIN <<>> = 1 .. 0
  OBVIOUS
<1>2. 1 .. 0 = {}
  OBVIOUS
<1> QED
  BY <1>1, <1>2 DEF IsList

(* A set of indices that is not empty has a largest one *)
LEMMA LargestIndex ==
    ASSUME NEW n \in Nat, NEW S \in SUBSET (1 .. n), S # {}
    PROVE  Max(S) \in S /\ \A i \in S : i <= Max(S)
<1> DEFINE below == {n - i : i \in S}
<1>1. \A i \in S : n - i \in Nat /\ n - i \in below
  OBVIOUS
<1>0. below \subseteq Nat /\ below # {}
  BY <1>1
<1>2. PICK least \in below : \A m \in below : ~(<<m, least>> \in OpToRel(<, Nat))
  BY <1>0, NatLessThanWellFounded, WFMin
<1>3. PICK largest \in S : least = n - largest
  BY <1>2
<1>4. \A i \in S : largest >= i
  <2> SUFFICES ASSUME NEW i \in S PROVE largest >= i
    OBVIOUS
  <2>1. n - i \in below
    OBVIOUS
  <2>2. ~(<<n - i, least>> \in OpToRel(<, Nat))
    BY <2>1, <1>2
  <2>3. ~(n - i < n - largest)
    BY <2>2, <1>3 DEF OpToRel
  <2> QED
    BY <2>3
<1>5. Max(S) \in S /\ \A i \in S : Max(S) >= i
  BY <1>4 DEF Max
<1> QED
  BY <1>5

LEMMA LastSetting ==
    ASSUME NEW options, IsList(options), NEW field, Setting(options, field) # {}
    PROVE  LET last == Max(Setting(options, field)) IN
           /\ last \in Setting(options, field)
           /\ \A i \in Setting(options, field) : i <= last
<1>1. PICK n \in Nat : DOMAIN options = 1 .. n
  BY DEF IsList
<1>2. Setting(options, field) \in SUBSET (1 .. n)
  BY <1>1 DEF Setting
<1> HIDE DEF Setting
<1> QED
  BY <1>2, LargestIndex

-----------------------------------------------------------------------------
(***************************************************************************)
(* A component is sound if it has all its parts and each of them is sound: *)
(* what it reaches it reaches through one of them.                         *)
(***************************************************************************)
LEMMA PartsOfOne ==
    ASSUME NEW S, NEW x
    PROVE  x \in PartsOf(S) <=> \E c \in S : x \in PartsOf({c})
BY DEF PartsOf

LEMMA PartsOfComponent ==
    ASSUME NEW c, NEW x
    PROVE  x \in PartsOf({c}) <=> \E part \in Parts(c) \cap DOMAIN c : x = c[part]
BY DEF PartsOf

LEMMA ReachedThroughParts ==
    ASSUME NEW c, NEW x \in Reached(c)
    PROVE  x = c \/ \E part \in Parts(c) \cap DOMAIN c : x \in Reached(c[part])
<1> HIDE DEF PartsOf, Parts
<1>1. CASE x = c
  BY <1>1
<1>2. CASE x \in PartsOf({c})
  <2>1. PICK part \in Parts(c) \cap DOMAIN c : x = c[part]
    BY <1>2, PartsOfComponent
  <2> QED
    BY <2>1 DEF Reached
<1>3. CASE x \in PartsOf(PartsOf({c}))
  <2>1. PICK y \in PartsOf({c}) : x \in PartsOf({y})
    BY <1>3, PartsOfOne
  <2>2. PICK part \in Parts(c) \cap DOMAIN c : y = c[part]
    BY PartsOfComponent
  <2> QED
    BY <2>1, <2>2 DEF Reached
<1>4. CASE x \in PartsOf(PartsOf(PartsOf({c})))
  <2>1. PICK z \in PartsOf(PartsOf({c})) : x \in PartsOf({z})
    BY <1>4, PartsOfOne
  <2>2. PICK y \in PartsOf({c}) : z \in PartsOf({y})
    BY PartsOfOne
  <2>3. PICK part \in Parts(c) \cap DOMAIN c : y = c[part]
    BY PartsOfComponent
  <2>4. x \in PartsOf(PartsOf({y}))
    BY <2>1, <2>2, PartsOfOne
  <2> QED
    BY <2>3, <2>4 DEF Reached
<1> QED
  BY <1>1, <1>2, <1>3, <1>4 DEF Reached

LEMMA SoundOfParts ==
    ASSUME NEW zeros, NEW c, c # Nil, c \in zeros \/ ~Incomplete(c),
           \A part \in Parts(c) \cap DOMAIN c : Sound(c[part], zeros)
    PROVE  Sound(c, zeros)
<1> HIDE DEF Parts, Reached, Incomplete
<1> SUFFICES ASSUME NEW x \in Reached(c)
             PROVE  x # Nil /\ (x \in zeros \/ ~Incomplete(x))
  BY DEF Sound
<1> QED
  BY ReachedThroughParts DEF Sound

(* A part of a sound component is sound, and it is one itself *)
LEMMA SoundHead ==
    ASSUME NEW zeros, NEW c, Sound(c, zeros)
    PROVE  c # Nil /\ (c \in zeros \/ ~Incomplete(c))
<1>1. c \in Reached(c)
  BY DEF Reached
<1> QED
  BY <1>1 DEF Sound

(***************************************************************************)
(* New: a component of the kind of its defaults, and as sound as those and *)
(* the options it is given, or no component at all.                        *)
(***************************************************************************)
Builds(made, kind, options, zeros) ==
    (\A i \in DOMAIN options : Usable(options[i], kind, zeros)) =>
        \/ made.err = NoError /\ made.value.is = kind /\ Sound(made.value, zeros)
        \/ made.err # NoError /\ made.value = Nil

Whole(default, zeros) ==
    LET kind == default.is IN
    /\ kind # "nil"
    /\ DOMAIN PartKinds(kind) \cup LimitsOf(kind) \cup ListsOf(kind) \cup {"is"}
          \subseteq DOMAIN default
    /\ \A part \in DOMAIN PartKinds(kind) : Sound(default[part], zeros)
    /\ \A limit \in LimitsOf(kind) : default[limit] \in Nat \ {0}

LEMMA NilIs == \A x : x.is # "nil" => x # Nil
BY DEF Nil

LEMMA MadeByNew ==
    ASSUME NEW default, NEW options
    PROVE  LET made == New(default, options) IN
           /\ Faulty(options) =>
                made.err = {"Misconfigured"} /\ made.err # NoError /\ made.value = Nil
           /\ ~Faulty(options) =>
                /\ made.err = NoError
                /\ made.value = [f \in DOMAIN default |-> Assigned(options, f, default[f])]
<1>1. {"Misconfigured"} # NoError
  BY DEF NoError
<1> HIDE DEF Faulty, Assigned, Nil, NoError
<1> QED
  BY <1>1 DEF New, Failure, Success

LEMMA MadeHasFields ==
    ASSUME NEW default, NEW options, New(default, options).err = NoError
    PROVE  /\ ~Faulty(options)
           /\ \A f \in DOMAIN default :
                New(default, options).value[f] = Assigned(options, f, default[f])
<1> HIDE DEF New, Faulty, Assigned
<1> QED
  BY MadeByNew

LEMMA AssignedOrDefault ==
    ASSUME NEW options, IsList(options), NEW field, NEW otherwise
    PROVE  \/ Assigned(options, field, otherwise) = otherwise
           \/ \E i \in DOMAIN options :
                /\ field \in DOMAIN options[i].sets
                /\ Assigned(options, field, otherwise) = options[i].sets[field]
<1>1. CASE Setting(options, field) = {}
  BY <1>1 DEF Assigned
<1>2. CASE Setting(options, field) # {}
  <2>1. Max(Setting(options, field)) \in Setting(options, field)
    BY <1>2, LastSetting
  <2> QED
    BY <1>2, <2>1 DEF Assigned, Setting
<1> QED
  BY <1>1, <1>2

LEMMA NewBuilds ==
    ASSUME NEW zeros, NEW default, Whole(default, zeros), NEW options, IsList(options)
    PROVE  Builds(New(default, options), default.is, options, zeros)
<1> DEFINE kind == default.is
           made == New(default, options)
           c == [f \in DOMAIN default |-> Assigned(options, f, default[f])]
<1> SUFFICES ASSUME \A i \in DOMAIN options : Usable(options[i], kind, zeros), ~Faulty(options)
             PROVE  made.err = NoError /\ made.value.is = kind /\ Sound(made.value, zeros)
  BY MadeByNew DEF Builds
<1>1. made.err = NoError /\ made.value = c
  BY MadeByNew
<1>2. \A i \in DOMAIN options : options[i].does = "set"
  BY DEF Faulty
<1>3. c.is = kind
  <2>1. \A i \in DOMAIN options : "is" \notin DOMAIN options[i].sets
    BY <1>2 DEF Usable
  <2>2. Setting(options, "is") = {}
    BY <2>1 DEF Setting
  <2>3. Assigned(options, "is", default["is"]) = kind
    BY <2>2 DEF Assigned
  <2> QED
    BY <2>3 DEF Whole
<1>4. \A part \in DOMAIN PartKinds(kind) : part \in DOMAIN c /\ Sound(c[part], zeros)
  <2> SUFFICES ASSUME NEW part \in DOMAIN PartKinds(kind)
               PROVE  part \in DOMAIN c /\ Sound(c[part], zeros)
    OBVIOUS
  <2>1. part \in DOMAIN default /\ Sound(default[part], zeros)
    BY DEF Whole
  <2>2. c[part] = Assigned(options, part, default[part])
    BY <2>1
  <2>3. \A i \in DOMAIN options :
           part \in DOMAIN options[i].sets => Sound(options[i].sets[part], zeros)
    BY <1>2 DEF Usable
  <2> HIDE DEF c
  <2>4. Sound(c[part], zeros)
    BY <2>1, <2>2, <2>3, AssignedOrDefault
  <2> QED
    BY <2>1, <2>4 DEF c
<1>5. \A limit \in LimitsOf(kind) : limit \in DOMAIN c /\ c[limit] \in Nat \ {0}
  <2> SUFFICES ASSUME NEW limit \in LimitsOf(kind)
               PROVE  limit \in DOMAIN c /\ c[limit] \in Nat \ {0}
    OBVIOUS
  <2>1. limit \in DOMAIN default /\ default[limit] \in Nat \ {0}
    BY DEF Whole
  <2>2. c[limit] = Assigned(options, limit, default[limit])
    BY <2>1
  <2>3. \A i \in DOMAIN options :
           limit \in DOMAIN options[i].sets => options[i].sets[limit] \in Nat \ {0}
    BY <1>2 DEF Usable
  <2> HIDE DEF c
  <2>4. c[limit] \in Nat \ {0}
    BY <2>1, <2>2, <2>3, AssignedOrDefault
  <2> QED
    BY <2>1, <2>4 DEF c
<1>6. \A list \in ListsOf(kind) : list \in DOMAIN c
  BY DEF Whole
<1> HIDE DEF c, made
<1>7. c # Nil
  BY <1>3, NilIs DEF Whole
<1>8. Parts(c) = DOMAIN PartKinds(kind)
  BY <1>3 DEF Parts
<1>9. ~Incomplete(c)
  <2>1. \A part \in Parts(c) : part \in DOMAIN c /\ c[part] # Nil
    BY <1>4, <1>8, SoundHead
  <2>2. \A limit \in LimitsOf(c.is) : limit \in DOMAIN c /\ ~(c[limit] <= 0)
    BY <1>3, <1>5
  <2>3. \A list \in ListsOf(c.is) : list \in DOMAIN c
    BY <1>3, <1>6
  <2> QED
    BY <2>1, <2>2, <2>3 DEF Incomplete
<1>10. Sound(c, zeros)
  BY <1>4, <1>7, <1>8, <1>9, SoundOfParts
<1> QED
  BY <1>1, <1>3, <1>10

(* A list without options leaves the defaults *)
LEMMA NewOfNothing ==
    ASSUME NEW zeros, NEW default, Whole(default, zeros)
    PROVE  LET made == New(default, <<>>) IN
           made.err = NoError /\ made.value.is = default.is /\ Sound(made.value, zeros)
<1>1. ~Faulty(<<>>)
  BY EmptyList DEF Faulty
<1>2. Builds(New(default, <<>>), default.is, <<>>, zeros)
  BY EmptyList, NewBuilds
<1> QED
  BY <1>1, <1>2, MadeByNew, EmptyList DEF Builds

-----------------------------------------------------------------------------
(***************************************************************************)
(* Package jwt: what its components are made of when no option says        *)
(* otherwise, and that this is whole; its New functions are New of that.   *)
(***************************************************************************)

DefaultJwtDecoder ==
    [is |-> "jwt.Decoder", maxTokenBytes |-> 1024 * 1024, maxHeaderBytes |-> 64 * 1024,
     maxClaimsBytes |-> 1024 * 1024, maxSignatureBytes |-> 256 * 1024,
     runtimeOptions |-> <<>>]
DefaultJwtValidator == [is |-> "jwt.Validator", verifier |-> Nil, runtimeOptions |-> <<>>]
DefaultJwtEncoder == [is |-> "jwt.Encoder", runtimeOptions |-> <<>>]
DefaultJwtIssuer == [is |-> "jwt.Issuer", signer |-> Nil, runtimeOptions |-> <<>>]
DefaultJwtResolver == [is |-> "jwt.Resolver", runtimeOptions |-> <<>>]
DefaultJwtReader ==
    [is |-> "jwt.Reader", decoder |-> New(DefaultJwtDecoder, <<>>).value,
     runtimeOptions |-> <<>>]
DefaultJwtWriter ==
    [is |-> "jwt.Writer", encoder |-> New(DefaultJwtEncoder, <<>>).value,
     runtimeOptions |-> <<>>]
DefaultJwtAuthenticator ==
    [is |-> "jwt.Authenticator", reader |-> New(DefaultJwtReader, <<>>).value,
     validator |-> New(DefaultJwtValidator, <<>>).value,
     resolver |-> New(DefaultJwtResolver, <<>>).value]

LEMMA JwtPartKinds ==
    /\ DOMAIN PartKinds("jwt.Decoder") = {}
    /\ DOMAIN PartKinds("jwt.Validator") = {}
    /\ DOMAIN PartKinds("jwt.Encoder") = {}
    /\ DOMAIN PartKinds("jwt.Issuer") = {}
    /\ DOMAIN PartKinds("jwt.Resolver") = {}
    /\ DOMAIN PartKinds("jwt.Reader") = {"decoder"}
    /\ DOMAIN PartKinds("jwt.Writer") = {"encoder"}
    /\ DOMAIN PartKinds("jwt.Authenticator") = {"reader", "validator", "resolver"}
BY DEF PartKinds

LEMMA JwtLimits ==
    /\ LimitsOf("jwt.Decoder") =
          {"maxTokenBytes", "maxHeaderBytes", "maxClaimsBytes", "maxSignatureBytes"}
    /\ ListsOf("jwt.Decoder") = {}
    /\ LimitsOf("jwt.Validator") = {} /\ ListsOf("jwt.Validator") = {}
    /\ LimitsOf("jwt.Encoder") = {} /\ ListsOf("jwt.Encoder") = {}
    /\ LimitsOf("jwt.Issuer") = {} /\ ListsOf("jwt.Issuer") = {}
    /\ LimitsOf("jwt.Resolver") = {} /\ ListsOf("jwt.Resolver") = {}
    /\ LimitsOf("jwt.Reader") = {} /\ ListsOf("jwt.Reader") = {}
    /\ LimitsOf("jwt.Writer") = {} /\ ListsOf("jwt.Writer") = {}
    /\ LimitsOf("jwt.Authenticator") = {} /\ ListsOf("jwt.Authenticator") = {}
BY DEF LimitsOf, ListsOf

LEMMA JwtDefaultsAreWhole ==
    ASSUME NEW zeros
    PROVE  /\ Whole(DefaultJwtDecoder, zeros)
           /\ Whole(DefaultJwtValidator, zeros)
           /\ Whole(DefaultJwtEncoder, zeros)
           /\ Whole(DefaultJwtIssuer, zeros)
           /\ Whole(DefaultJwtResolver, zeros)
           /\ Whole(DefaultJwtReader, zeros)
           /\ Whole(DefaultJwtWriter, zeros)
           /\ Whole(DefaultJwtAuthenticator, zeros)
<1>1. Whole(DefaultJwtDecoder, zeros)
  BY JwtPartKinds, JwtLimits DEF Whole, DefaultJwtDecoder
<1>2. Whole(DefaultJwtValidator, zeros)
  BY JwtPartKinds, JwtLimits DEF Whole, DefaultJwtValidator
<1>3. Whole(DefaultJwtEncoder, zeros)
  BY JwtPartKinds, JwtLimits DEF Whole, DefaultJwtEncoder
<1>4. Whole(DefaultJwtIssuer, zeros)
  BY JwtPartKinds, JwtLimits DEF Whole, DefaultJwtIssuer
<1>5. Whole(DefaultJwtResolver, zeros)
  BY JwtPartKinds, JwtLimits DEF Whole, DefaultJwtResolver
<1>6. Whole(DefaultJwtReader, zeros)
  <2>1. Sound(New(DefaultJwtDecoder, <<>>).value, zeros)
    BY <1>1, NewOfNothing
  <2> QED
    BY <2>1, JwtPartKinds, JwtLimits DEF Whole, DefaultJwtReader
<1>7. Whole(DefaultJwtWriter, zeros)
  <2>1. Sound(New(DefaultJwtEncoder, <<>>).value, zeros)
    BY <1>3, NewOfNothing
  <2> QED
    BY <2>1, JwtPartKinds, JwtLimits DEF Whole, DefaultJwtWriter
<1>8. Whole(DefaultJwtAuthenticator, zeros)
  <2>1. /\ Sound(New(DefaultJwtReader, <<>>).value, zeros)
        /\ Sound(New(DefaultJwtValidator, <<>>).value, zeros)
        /\ Sound(New(DefaultJwtResolver, <<>>).value, zeros)
    BY <1>6, <1>2, <1>5, NewOfNothing
  <2> QED
    BY <2>1, JwtPartKinds, JwtLimits DEF Whole, DefaultJwtAuthenticator
<1> QED
  BY <1>1, <1>2, <1>3, <1>4, <1>5, <1>6, <1>7, <1>8

LEMMA JwtNew == \A d, o : Jwt!New(d, o) = New(d, o)
BY Zenon DEF Jwt!New, Jwt!Faulty, Jwt!Failure, Jwt!Success, Jwt!Assigned, Jwt!Setting,
             Jwt!Max, Jwt!Nil, Jwt!NoError, New, Faulty, Failure, Success, Assigned,
             Setting, Max, Nil, NoError

LEMMA JwtConstructors ==
    /\ \A o : Jwt!NewDecoder(o) = New(DefaultJwtDecoder, o)
    /\ \A o : Jwt!NewValidator(o) = New(DefaultJwtValidator, o)
    /\ \A o : Jwt!NewEncoder(o) = New(DefaultJwtEncoder, o)
    /\ \A o : Jwt!NewIssuer(o) = New(DefaultJwtIssuer, o)
    /\ \A o : Jwt!NewResolver(o) = New(DefaultJwtResolver, o)
    /\ \A o : Jwt!NewReader(o) = New(DefaultJwtReader, o)
    /\ \A o : Jwt!NewWriter(o) = New(DefaultJwtWriter, o)
    /\ \A o : Jwt!NewAuthenticator(o) = New(DefaultJwtAuthenticator, o)
<1>1. \A o : Jwt!NewDecoder(o) = New(DefaultJwtDecoder, o)
  BY JwtNew, Zenon DEF Jwt!NewDecoder, DefaultJwtDecoder
<1>2. \A o : Jwt!NewValidator(o) = New(DefaultJwtValidator, o)
  BY JwtNew, Zenon DEF Jwt!NewValidator, DefaultJwtValidator, Jwt!Nil, Nil
<1>3. \A o : Jwt!NewEncoder(o) = New(DefaultJwtEncoder, o)
  BY JwtNew, Zenon DEF Jwt!NewEncoder, DefaultJwtEncoder
<1>4. \A o : Jwt!NewIssuer(o) = New(DefaultJwtIssuer, o)
  BY JwtNew, Zenon DEF Jwt!NewIssuer, DefaultJwtIssuer, Jwt!Nil, Nil
<1>5. \A o : Jwt!NewResolver(o) = New(DefaultJwtResolver, o)
  BY JwtNew, Zenon DEF Jwt!NewResolver, DefaultJwtResolver
<1>6. \A o : Jwt!NewReader(o) = New(DefaultJwtReader, o)
  BY <1>1, JwtNew, Zenon DEF Jwt!NewReader, DefaultJwtReader
<1>7. \A o : Jwt!NewWriter(o) = New(DefaultJwtWriter, o)
  BY <1>3, JwtNew, Zenon DEF Jwt!NewWriter, DefaultJwtWriter
<1>8. \A o : Jwt!NewAuthenticator(o) = New(DefaultJwtAuthenticator, o)
  BY <1>6, <1>2, <1>5, JwtNew, Zenon DEF Jwt!NewAuthenticator, DefaultJwtAuthenticator
<1> QED
  BY <1>1, <1>2, <1>3, <1>4, <1>5, <1>6, <1>7, <1>8

-----------------------------------------------------------------------------
(***************************************************************************)
(* Package clientcredentials, the same. It makes parts of package jwt.     *)
(***************************************************************************)

DefaultClientReader ==
    [is |-> "clientcredentials.Reader", maxBodyBytes |-> 1024 * 1024,
     tokenDecoder |-> New(DefaultJwtDecoder, <<>>).value, runtimeOptions |-> <<>>]
DefaultClientValidator ==
    [is |-> "clientcredentials.Validator", allowedMethods |-> ClientAuthMethods,
     tokenValidator |-> New(DefaultJwtValidator, <<>>).value]
DefaultClientResolver == [is |-> "clientcredentials.Resolver", runtimeOptions |-> <<>>]
DefaultClientWriter ==
    [is |-> "clientcredentials.Writer", tokenEncoder |-> New(DefaultJwtEncoder, <<>>).value,
     runtimeOptions |-> <<>>]
DefaultClientAuthenticator ==
    [is |-> "clientcredentials.Authenticator",
     reader |-> New(DefaultClientReader, <<>>).value,
     validator |-> New(DefaultClientValidator, <<>>).value,
     resolver |-> New(DefaultClientResolver, <<>>).value]

LEMMA ClientPartKinds ==
    /\ DOMAIN PartKinds("clientcredentials.Reader") = {"tokenDecoder"}
    /\ DOMAIN PartKinds("clientcredentials.Validator") = {"tokenValidator"}
    /\ DOMAIN PartKinds("clientcredentials.Resolver") = {}
    /\ DOMAIN PartKinds("clientcredentials.Writer") = {"tokenEncoder"}
    /\ DOMAIN PartKinds("clientcredentials.Authenticator") = {"reader", "validator", "resolver"}
BY DEF PartKinds

LEMMA ClientLimits ==
    /\ LimitsOf("clientcredentials.Reader") = {"maxBodyBytes"}
    /\ ListsOf("clientcredentials.Reader") = {}
    /\ LimitsOf("clientcredentials.Validator") = {}
    /\ ListsOf("clientcredentials.Validator") = {"allowedMethods"}
    /\ LimitsOf("clientcredentials.Resolver") = {}
    /\ ListsOf("clientcredentials.Resolver") = {}
    /\ LimitsOf("clientcredentials.Writer") = {}
    /\ ListsOf("clientcredentials.Writer") = {}
    /\ LimitsOf("clientcredentials.Authenticator") = {}
    /\ ListsOf("clientcredentials.Authenticator") = {}
BY DEF LimitsOf, ListsOf

LEMMA ClientDefaultsAreWhole ==
    ASSUME NEW zeros
    PROVE  /\ Whole(DefaultClientReader, zeros)
           /\ Whole(DefaultClientValidator, zeros)
           /\ Whole(DefaultClientResolver, zeros)
           /\ Whole(DefaultClientWriter, zeros)
           /\ Whole(DefaultClientAuthenticator, zeros)
<1>1. Whole(DefaultClientReader, zeros)
  <2>1. Sound(New(DefaultJwtDecoder, <<>>).value, zeros)
    BY JwtDefaultsAreWhole, NewOfNothing
  <2> QED
    BY <2>1, ClientPartKinds, ClientLimits DEF Whole, DefaultClientReader
<1>2. Whole(DefaultClientValidator, zeros)
  <2>1. Sound(New(DefaultJwtValidator, <<>>).value, zeros)
    BY JwtDefaultsAreWhole, NewOfNothing
  <2> QED
    BY <2>1, ClientPartKinds, ClientLimits DEF Whole, DefaultClientValidator
<1>3. Whole(DefaultClientResolver, zeros)
  BY ClientPartKinds, ClientLimits DEF Whole, DefaultClientResolver
<1>4. Whole(DefaultClientWriter, zeros)
  <2>1. Sound(New(DefaultJwtEncoder, <<>>).value, zeros)
    BY JwtDefaultsAreWhole, NewOfNothing
  <2> QED
    BY <2>1, ClientPartKinds, ClientLimits DEF Whole, DefaultClientWriter
<1>5. Whole(DefaultClientAuthenticator, zeros)
  <2>1. /\ Sound(New(DefaultClientReader, <<>>).value, zeros)
        /\ Sound(New(DefaultClientValidator, <<>>).value, zeros)
        /\ Sound(New(DefaultClientResolver, <<>>).value, zeros)
    BY <1>1, <1>2, <1>3, NewOfNothing
  <2> QED
    BY <2>1, ClientPartKinds, ClientLimits DEF Whole, DefaultClientAuthenticator
<1> QED
  BY <1>1, <1>2, <1>3, <1>4, <1>5

LEMMA ClientJwtNew == \A d, o : Client!Jwt!New(d, o) = New(d, o)
BY Zenon DEF Client!Jwt!New, Client!Jwt!Faulty, Client!Jwt!Failure, Client!Jwt!Success,
             Client!Jwt!Assigned, Client!Jwt!Setting, Client!Jwt!Max, Client!Jwt!Nil,
             Client!Jwt!NoError, New, Faulty, Failure, Success, Assigned, Setting, Max, Nil,
             NoError

LEMMA ClientJwtConstructors ==
    /\ \A o : Client!Jwt!NewDecoder(o) = New(DefaultJwtDecoder, o)
    /\ \A o : Client!Jwt!NewValidator(o) = New(DefaultJwtValidator, o)
    /\ \A o : Client!Jwt!NewEncoder(o) = New(DefaultJwtEncoder, o)
<1>1. \A o : Client!Jwt!NewDecoder(o) = New(DefaultJwtDecoder, o)
  BY ClientJwtNew, Zenon DEF Client!Jwt!NewDecoder, DefaultJwtDecoder
<1>2. \A o : Client!Jwt!NewValidator(o) = New(DefaultJwtValidator, o)
  BY ClientJwtNew, Zenon DEF Client!Jwt!NewValidator, DefaultJwtValidator, Client!Jwt!Nil, Nil
<1>3. \A o : Client!Jwt!NewEncoder(o) = New(DefaultJwtEncoder, o)
  BY ClientJwtNew, Zenon DEF Client!Jwt!NewEncoder, DefaultJwtEncoder
<1> QED
  BY <1>1, <1>2, <1>3

LEMMA ClientNew == \A d, o : Client!New(d, o) = New(d, o)
BY Zenon DEF Client!New, Client!Faulty, Client!Failure, Client!Success, Client!Assigned,
             Client!Setting, Client!Max, Client!Nil, Client!NoError, New, Faulty, Failure,
             Success, Assigned, Setting, Max, Nil, NoError

LEMMA ClientConstructors ==
    /\ \A o : Client!NewReader(o) = New(DefaultClientReader, o)
    /\ \A o : Client!NewValidator(o) = New(DefaultClientValidator, o)
    /\ \A o : Client!NewResolver(o) = New(DefaultClientResolver, o)
    /\ \A o : Client!NewWriter(o) = New(DefaultClientWriter, o)
    /\ \A o : Client!NewAuthenticator(o) = New(DefaultClientAuthenticator, o)
<1>1. \A o : Client!NewReader(o) = New(DefaultClientReader, o)
  BY ClientNew, ClientJwtConstructors, Zenon DEF Client!NewReader, DefaultClientReader
<1>2. \A o : Client!NewValidator(o) = New(DefaultClientValidator, o)
  BY ClientNew, ClientJwtConstructors, Zenon DEF Client!NewValidator, DefaultClientValidator,
     Client!ClientAuthMethods, ClientAuthMethods
<1>3. \A o : Client!NewResolver(o) = New(DefaultClientResolver, o)
  BY ClientNew, Zenon DEF Client!NewResolver, DefaultClientResolver
<1>4. \A o : Client!NewWriter(o) = New(DefaultClientWriter, o)
  BY ClientNew, ClientJwtConstructors, Zenon DEF Client!NewWriter, DefaultClientWriter
<1>5. \A o : Client!NewAuthenticator(o) = New(DefaultClientAuthenticator, o)
  BY <1>1, <1>2, <1>3, ClientNew, Zenon DEF Client!NewAuthenticator,
     DefaultClientAuthenticator
<1> QED
  BY <1>1, <1>2, <1>3, <1>4, <1>5

-----------------------------------------------------------------------------
(***************************************************************************)
(* Package tokenrequest, the same. It makes parts of both.                 *)
(***************************************************************************)

DefaultRequestReader ==
    [is |-> "tokenrequest.Reader", maxBodyBytes |-> 1024 * 1024,
     clientCredentialsReader |-> New(DefaultClientReader, <<>>).value,
     tokenDecoder |-> New(DefaultJwtDecoder, <<>>).value,
     assertionTokenDecoder |-> New(DefaultJwtDecoder, <<>>).value, runtimeOptions |-> <<>>]
DefaultRequestValidator ==
    [is |-> "tokenrequest.Validator", allowedGrantTypes |-> GrantTypes,
     allowedScopes |-> {"every scope"},
     clientCredentialsValidator |-> New(DefaultClientValidator, <<>>).value,
     refreshTokenValidator |-> New(DefaultJwtValidator, <<>>).value,
     assertionTokenValidator |-> New(DefaultJwtValidator, <<>>).value,
     runtimeOptions |-> <<>>]
DefaultRequestResolver ==
    [is |-> "tokenrequest.Resolver",
     clientResolver |-> New(DefaultClientResolver, <<>>).value, runtimeOptions |-> <<>>]
DefaultRequestAuthenticator ==
    [is |-> "tokenrequest.Authenticator", reader |-> New(DefaultRequestReader, <<>>).value,
     validator |-> New(DefaultRequestValidator, <<>>).value,
     resolver |-> New(DefaultRequestResolver, <<>>).value, runtimeOptions |-> <<>>]
DefaultRequestWriter ==
    [is |-> "tokenrequest.Writer",
     clientCredentialsWriter |-> New(DefaultClientWriter, <<>>).value,
     tokenEncoder |-> New(DefaultJwtEncoder, <<>>).value,
     assertionTokenEncoder |-> New(DefaultJwtEncoder, <<>>).value, runtimeOptions |-> <<>>]

LEMMA RequestPartKinds ==
    /\ DOMAIN PartKinds("tokenrequest.Reader") =
          {"clientCredentialsReader", "tokenDecoder", "assertionTokenDecoder"}
    /\ DOMAIN PartKinds("tokenrequest.Validator") =
          {"clientCredentialsValidator", "refreshTokenValidator", "assertionTokenValidator"}
    /\ DOMAIN PartKinds("tokenrequest.Resolver") = {"clientResolver"}
    /\ DOMAIN PartKinds("tokenrequest.Authenticator") = {"reader", "validator", "resolver"}
    /\ DOMAIN PartKinds("tokenrequest.Writer") =
          {"clientCredentialsWriter", "tokenEncoder", "assertionTokenEncoder"}
BY DEF PartKinds

LEMMA RequestLimits ==
    /\ LimitsOf("tokenrequest.Reader") = {"maxBodyBytes"} /\ ListsOf("tokenrequest.Reader") = {}
    /\ LimitsOf("tokenrequest.Validator") = {}
    /\ ListsOf("tokenrequest.Validator") = {"allowedGrantTypes"}
    /\ LimitsOf("tokenrequest.Resolver") = {} /\ ListsOf("tokenrequest.Resolver") = {}
    /\ LimitsOf("tokenrequest.Authenticator") = {}
    /\ ListsOf("tokenrequest.Authenticator") = {}
    /\ LimitsOf("tokenrequest.Writer") = {} /\ ListsOf("tokenrequest.Writer") = {}
BY DEF LimitsOf, ListsOf

LEMMA RequestDefaultsAreWhole ==
    ASSUME NEW zeros
    PROVE  /\ Whole(DefaultRequestReader, zeros)
           /\ Whole(DefaultRequestValidator, zeros)
           /\ Whole(DefaultRequestResolver, zeros)
           /\ Whole(DefaultRequestAuthenticator, zeros)
           /\ Whole(DefaultRequestWriter, zeros)
<1>1. Whole(DefaultRequestReader, zeros)
  <2>1. /\ Sound(New(DefaultClientReader, <<>>).value, zeros)
        /\ Sound(New(DefaultJwtDecoder, <<>>).value, zeros)
    BY ClientDefaultsAreWhole, JwtDefaultsAreWhole, NewOfNothing
  <2> QED
    BY <2>1, RequestPartKinds, RequestLimits DEF Whole, DefaultRequestReader
<1>2. Whole(DefaultRequestValidator, zeros)
  <2>1. /\ Sound(New(DefaultClientValidator, <<>>).value, zeros)
        /\ Sound(New(DefaultJwtValidator, <<>>).value, zeros)
    BY ClientDefaultsAreWhole, JwtDefaultsAreWhole, NewOfNothing
  <2> DEFINE default == DefaultRequestValidator
  <2>2. /\ default.is = "tokenrequest.Validator"
        /\ {"is", "clientCredentialsValidator", "refreshTokenValidator",
            "assertionTokenValidator", "allowedGrantTypes"} \subseteq DOMAIN default
    BY DEF DefaultRequestValidator
  <2>3. /\ Sound(default["clientCredentialsValidator"], zeros)
        /\ Sound(default["refreshTokenValidator"], zeros)
        /\ Sound(default["assertionTokenValidator"], zeros)
    BY <2>1 DEF DefaultRequestValidator
  <2> HIDE DEF default
  <2>4. Whole(default, zeros)
    BY <2>2, <2>3, RequestPartKinds, RequestLimits DEF Whole
  <2> QED
    BY <2>4 DEF default
<1>3. Whole(DefaultRequestResolver, zeros)
  <2>1. Sound(New(DefaultClientResolver, <<>>).value, zeros)
    BY ClientDefaultsAreWhole, NewOfNothing
  <2> QED
    BY <2>1, RequestPartKinds, RequestLimits DEF Whole, DefaultRequestResolver
<1>4. Whole(DefaultRequestAuthenticator, zeros)
  <2>1. /\ Sound(New(DefaultRequestReader, <<>>).value, zeros)
        /\ Sound(New(DefaultRequestValidator, <<>>).value, zeros)
        /\ Sound(New(DefaultRequestResolver, <<>>).value, zeros)
    BY <1>1, <1>2, <1>3, NewOfNothing
  <2> QED
    BY <2>1, RequestPartKinds, RequestLimits DEF Whole, DefaultRequestAuthenticator
<1>5. Whole(DefaultRequestWriter, zeros)
  <2>1. /\ Sound(New(DefaultClientWriter, <<>>).value, zeros)
        /\ Sound(New(DefaultJwtEncoder, <<>>).value, zeros)
    BY ClientDefaultsAreWhole, JwtDefaultsAreWhole, NewOfNothing
  <2> QED
    BY <2>1, RequestPartKinds, RequestLimits DEF Whole, DefaultRequestWriter
<1> QED
  BY <1>1, <1>2, <1>3, <1>4, <1>5

LEMMA RequestJwtNew == \A d, o : Request!Jwt!New(d, o) = New(d, o)
BY Zenon DEF Request!Jwt!New, Request!Jwt!Faulty, Request!Jwt!Failure, Request!Jwt!Success,
             Request!Jwt!Assigned, Request!Jwt!Setting, Request!Jwt!Max, Request!Jwt!Nil,
             Request!Jwt!NoError, New, Faulty, Failure, Success, Assigned, Setting, Max,
             Nil, NoError

LEMMA RequestJwtConstructors ==
    /\ \A o : Request!Jwt!NewDecoder(o) = New(DefaultJwtDecoder, o)
    /\ \A o : Request!Jwt!NewValidator(o) = New(DefaultJwtValidator, o)
    /\ \A o : Request!Jwt!NewEncoder(o) = New(DefaultJwtEncoder, o)
<1>1. \A o : Request!Jwt!NewDecoder(o) = New(DefaultJwtDecoder, o)
  BY RequestJwtNew, Zenon DEF Request!Jwt!NewDecoder, DefaultJwtDecoder
<1>2. \A o : Request!Jwt!NewValidator(o) = New(DefaultJwtValidator, o)
  BY RequestJwtNew, Zenon DEF Request!Jwt!NewValidator, DefaultJwtValidator, Request!Jwt!Nil,
     Nil
<1>3. \A o : Request!Jwt!NewEncoder(o) = New(DefaultJwtEncoder, o)
  BY RequestJwtNew, Zenon DEF Request!Jwt!NewEncoder, DefaultJwtEncoder
<1> QED
  BY <1>1, <1>2, <1>3

LEMMA RequestClientJwtNew == \A d, o : Request!Client!Jwt!New(d, o) = New(d, o)
BY Zenon DEF Request!Client!Jwt!New, Request!Client!Jwt!Faulty, Request!Client!Jwt!Failure,
             Request!Client!Jwt!Success, Request!Client!Jwt!Assigned,
             Request!Client!Jwt!Setting, Request!Client!Jwt!Max, Request!Client!Jwt!Nil,
             Request!Client!Jwt!NoError, New, Faulty, Failure, Success, Assigned, Setting,
             Max, Nil, NoError

LEMMA RequestClientJwtConstructors ==
    /\ \A o : Request!Client!Jwt!NewDecoder(o) = New(DefaultJwtDecoder, o)
    /\ \A o : Request!Client!Jwt!NewValidator(o) = New(DefaultJwtValidator, o)
    /\ \A o : Request!Client!Jwt!NewEncoder(o) = New(DefaultJwtEncoder, o)
<1>1. \A o : Request!Client!Jwt!NewDecoder(o) = New(DefaultJwtDecoder, o)
  BY RequestClientJwtNew, Zenon DEF Request!Client!Jwt!NewDecoder, DefaultJwtDecoder
<1>2. \A o : Request!Client!Jwt!NewValidator(o) = New(DefaultJwtValidator, o)
  BY RequestClientJwtNew, Zenon DEF Request!Client!Jwt!NewValidator, DefaultJwtValidator,
     Request!Client!Jwt!Nil, Nil
<1>3. \A o : Request!Client!Jwt!NewEncoder(o) = New(DefaultJwtEncoder, o)
  BY RequestClientJwtNew, Zenon DEF Request!Client!Jwt!NewEncoder, DefaultJwtEncoder
<1> QED
  BY <1>1, <1>2, <1>3

LEMMA RequestClientNew == \A d, o : Request!Client!New(d, o) = New(d, o)
BY Zenon DEF Request!Client!New, Request!Client!Faulty, Request!Client!Failure,
             Request!Client!Success, Request!Client!Assigned, Request!Client!Setting,
             Request!Client!Max, Request!Client!Nil, Request!Client!NoError, New, Faulty,
             Failure, Success, Assigned, Setting, Max, Nil, NoError

LEMMA RequestClientConstructors ==
    /\ \A o : Request!Client!NewReader(o) = New(DefaultClientReader, o)
    /\ \A o : Request!Client!NewValidator(o) = New(DefaultClientValidator, o)
    /\ \A o : Request!Client!NewResolver(o) = New(DefaultClientResolver, o)
    /\ \A o : Request!Client!NewWriter(o) = New(DefaultClientWriter, o)
<1>1. \A o : Request!Client!NewReader(o) = New(DefaultClientReader, o)
  BY RequestClientNew, RequestClientJwtConstructors, Zenon DEF Request!Client!NewReader,
     DefaultClientReader
<1>2. \A o : Request!Client!NewValidator(o) = New(DefaultClientValidator, o)
  BY RequestClientNew, RequestClientJwtConstructors, Zenon DEF Request!Client!NewValidator,
     DefaultClientValidator, Request!Client!ClientAuthMethods, ClientAuthMethods
<1>3. \A o : Request!Client!NewResolver(o) = New(DefaultClientResolver, o)
  BY RequestClientNew, Zenon DEF Request!Client!NewResolver, DefaultClientResolver
<1>4. \A o : Request!Client!NewWriter(o) = New(DefaultClientWriter, o)
  BY RequestClientNew, RequestClientJwtConstructors, Zenon DEF Request!Client!NewWriter,
     DefaultClientWriter
<1> QED
  BY <1>1, <1>2, <1>3, <1>4

LEMMA RequestNew == \A d, o : Request!New(d, o) = New(d, o)
BY Zenon DEF Request!New, Request!Faulty, Request!Failure, Request!Success,
             Request!Assigned, Request!Setting, Request!Max, Request!Nil, Request!NoError,
             New, Faulty, Failure, Success, Assigned, Setting, Max, Nil, NoError

LEMMA RequestConstructors ==
    /\ \A o : Request!NewReader(o) = New(DefaultRequestReader, o)
    /\ \A o : Request!NewValidator(o) = New(DefaultRequestValidator, o)
    /\ \A o : Request!NewResolver(o) = New(DefaultRequestResolver, o)
    /\ \A o : Request!NewAuthenticator(o) = New(DefaultRequestAuthenticator, o)
    /\ \A o : Request!NewWriter(o) = New(DefaultRequestWriter, o)
<1>1. \A o : Request!NewReader(o) = New(DefaultRequestReader, o)
  <2>1. Request!Client!NewReader(<<>>).value = New(DefaultClientReader, <<>>).value
    BY RequestClientConstructors, Zenon
  <2>2. Request!Jwt!NewDecoder(<<>>).value = New(DefaultJwtDecoder, <<>>).value
    BY RequestJwtConstructors, Zenon
  <2> DEFINE reader(client, decoder) ==
                [is |-> "tokenrequest.Reader", maxBodyBytes |-> 1024 * 1024,
                 clientCredentialsReader |-> client, tokenDecoder |-> decoder,
                 assertionTokenDecoder |-> decoder, runtimeOptions |-> <<>>]
  <2>3. \A o : Request!NewReader(o) =
                  Request!New(reader(Request!Client!NewReader(<<>>).value,
                                     Request!Jwt!NewDecoder(<<>>).value), o)
    BY Zenon DEF Request!NewReader
  <2>4. DefaultRequestReader =
            reader(New(DefaultClientReader, <<>>).value, New(DefaultJwtDecoder, <<>>).value)
    BY Zenon DEF DefaultRequestReader
  <2> HIDE DEF reader
  <2> QED
    BY <2>1, <2>2, <2>3, <2>4, RequestNew, Zenon
<1>2. \A o : Request!NewValidator(o) = New(DefaultRequestValidator, o)
  BY RequestNew, RequestJwtConstructors, RequestClientConstructors, Zenon DEF
     Request!NewValidator, DefaultRequestValidator, Request!EveryScope, Request!GrantTypes,
     GrantTypes
<1>3. \A o : Request!NewResolver(o) = New(DefaultRequestResolver, o)
  BY RequestNew, RequestJwtConstructors, RequestClientConstructors, Zenon DEF
     Request!NewResolver, DefaultRequestResolver
<1>4. \A o : Request!NewAuthenticator(o) = New(DefaultRequestAuthenticator, o)
  BY <1>1, <1>2, <1>3, RequestNew, Zenon DEF Request!NewAuthenticator,
     DefaultRequestAuthenticator
<1>5. \A o : Request!NewWriter(o) = New(DefaultRequestWriter, o)
  BY RequestNew, RequestJwtConstructors, RequestClientConstructors, Zenon DEF
     Request!NewWriter, DefaultRequestWriter
<1> QED
  BY <1>1, <1>2, <1>3, <1>4, <1>5

-----------------------------------------------------------------------------
(***************************************************************************)
(* Package tokenresponse, the same, but for its validator.                 *)
(***************************************************************************)

DefaultResponseEncoder ==
    [is |-> "tokenresponse.Encoder", tokenEncoder |-> New(DefaultJwtEncoder, <<>>).value,
     runtimeOptions |-> <<>>]
DefaultResponseWriter ==
    [is |-> "tokenresponse.Writer", encoder |-> New(DefaultResponseEncoder, <<>>).value,
     runtimeOptions |-> <<>>]
DefaultResponseDecoder ==
    [is |-> "tokenresponse.Decoder", maxPayloadBytes |-> 1024 * 1024,
     tokenDecoder |-> New(DefaultJwtDecoder, <<>>).value, runtimeOptions |-> <<>>]
DefaultResponseReader ==
    [is |-> "tokenresponse.Reader", maxBodyBytes |-> 1024 * 1024,
     decoder |-> New(DefaultResponseDecoder, <<>>).value, runtimeOptions |-> <<>>]

LEMMA ResponsePartKinds ==
    /\ DOMAIN PartKinds("tokenresponse.Encoder") = {"tokenEncoder"}
    /\ DOMAIN PartKinds("tokenresponse.Writer") = {"encoder"}
    /\ DOMAIN PartKinds("tokenresponse.Decoder") = {"tokenDecoder"}
    /\ DOMAIN PartKinds("tokenresponse.Reader") = {"decoder"}
BY DEF PartKinds

LEMMA ResponseLimits ==
    /\ LimitsOf("tokenresponse.Encoder") = {} /\ ListsOf("tokenresponse.Encoder") = {}
    /\ LimitsOf("tokenresponse.Writer") = {} /\ ListsOf("tokenresponse.Writer") = {}
    /\ LimitsOf("tokenresponse.Decoder") = {"maxPayloadBytes"}
    /\ ListsOf("tokenresponse.Decoder") = {}
    /\ LimitsOf("tokenresponse.Reader") = {"maxBodyBytes"}
    /\ ListsOf("tokenresponse.Reader") = {}
BY DEF LimitsOf, ListsOf

LEMMA ResponseDefaultsAreWhole ==
    ASSUME NEW zeros
    PROVE  /\ Whole(DefaultResponseEncoder, zeros)
           /\ Whole(DefaultResponseWriter, zeros)
           /\ Whole(DefaultResponseDecoder, zeros)
           /\ Whole(DefaultResponseReader, zeros)
<1>1. Whole(DefaultResponseEncoder, zeros)
  <2>1. Sound(New(DefaultJwtEncoder, <<>>).value, zeros)
    BY JwtDefaultsAreWhole, NewOfNothing
  <2> QED
    BY <2>1, ResponsePartKinds, ResponseLimits DEF Whole, DefaultResponseEncoder
<1>2. Whole(DefaultResponseWriter, zeros)
  <2>1. Sound(New(DefaultResponseEncoder, <<>>).value, zeros)
    BY <1>1, NewOfNothing
  <2> QED
    BY <2>1, ResponsePartKinds, ResponseLimits DEF Whole, DefaultResponseWriter
<1>3. Whole(DefaultResponseDecoder, zeros)
  <2>1. Sound(New(DefaultJwtDecoder, <<>>).value, zeros)
    BY JwtDefaultsAreWhole, NewOfNothing
  <2> QED
    BY <2>1, ResponsePartKinds, ResponseLimits DEF Whole, DefaultResponseDecoder
<1>4. Whole(DefaultResponseReader, zeros)
  <2>1. Sound(New(DefaultResponseDecoder, <<>>).value, zeros)
    BY <1>3, NewOfNothing
  <2> QED
    BY <2>1, ResponsePartKinds, ResponseLimits DEF Whole, DefaultResponseReader
<1> QED
  BY <1>1, <1>2, <1>3, <1>4

LEMMA ResponseJwtNew == \A d, o : Response!Jwt!New(d, o) = New(d, o)
BY Zenon DEF Response!Jwt!New, Response!Jwt!Faulty, Response!Jwt!Failure,
             Response!Jwt!Success, Response!Jwt!Assigned, Response!Jwt!Setting,
             Response!Jwt!Max, Response!Jwt!Nil, Response!Jwt!NoError, New, Faulty, Failure,
             Success, Assigned, Setting, Max, Nil, NoError

LEMMA ResponseJwtConstructors ==
    /\ \A o : Response!Jwt!NewDecoder(o) = New(DefaultJwtDecoder, o)
    /\ \A o : Response!Jwt!NewValidator(o) = New(DefaultJwtValidator, o)
    /\ \A o : Response!Jwt!NewEncoder(o) = New(DefaultJwtEncoder, o)
<1>1. \A o : Response!Jwt!NewDecoder(o) = New(DefaultJwtDecoder, o)
  BY ResponseJwtNew, Zenon DEF Response!Jwt!NewDecoder, DefaultJwtDecoder
<1>2. \A o : Response!Jwt!NewValidator(o) = New(DefaultJwtValidator, o)
  BY ResponseJwtNew, Zenon DEF Response!Jwt!NewValidator, DefaultJwtValidator,
     Response!Jwt!Nil, Nil
<1>3. \A o : Response!Jwt!NewEncoder(o) = New(DefaultJwtEncoder, o)
  BY ResponseJwtNew, Zenon DEF Response!Jwt!NewEncoder, DefaultJwtEncoder
<1> QED
  BY <1>1, <1>2, <1>3

LEMMA ResponseNew == \A d, o : Response!New(d, o) = New(d, o)
BY Zenon DEF Response!New, Response!Faulty, Response!Failure, Response!Success,
             Response!Assigned, Response!Setting, Response!Max, Response!Nil,
             Response!NoError, New, Faulty, Failure, Success, Assigned, Setting, Max, Nil,
             NoError

LEMMA ResponseConstructors ==
    /\ \A o : Response!NewEncoder(o) = New(DefaultResponseEncoder, o)
    /\ \A o : Response!NewWriter(o) = New(DefaultResponseWriter, o)
    /\ \A o : Response!NewDecoder(o) = New(DefaultResponseDecoder, o)
    /\ \A o : Response!NewReader(o) = New(DefaultResponseReader, o)
<1>1. \A o : Response!NewEncoder(o) = New(DefaultResponseEncoder, o)
  BY ResponseNew, ResponseJwtConstructors, Zenon DEF Response!NewEncoder,
     DefaultResponseEncoder
<1>2. \A o : Response!NewWriter(o) = New(DefaultResponseWriter, o)
  BY <1>1, ResponseNew, Zenon DEF Response!NewWriter, DefaultResponseWriter
<1>3. \A o : Response!NewDecoder(o) = New(DefaultResponseDecoder, o)
  BY ResponseNew, ResponseJwtConstructors, Zenon DEF Response!NewDecoder,
     DefaultResponseDecoder
<1>4. \A o : Response!NewReader(o) = New(DefaultResponseReader, o)
  BY <1>3, ResponseNew, Zenon DEF Response!NewReader, DefaultResponseReader
<1> QED
  BY <1>1, <1>2, <1>3, <1>4

DefaultResponseValidator ==
    [is |-> "tokenresponse.Validator", allowedTokenTypes |-> {"bearer"},
     allowedIssuedTypes |-> {"any issued type"}, requireAccessToken |-> TRUE,
     allowIDToken |-> TRUE, requireIDToken |-> FALSE, requireIssuedType |-> FALSE,
     accessTokenValidator |-> New(DefaultJwtValidator, <<>>).value,
     refreshTokenValidator |-> New(DefaultJwtValidator, <<>>).value,
     idTokenValidator |-> New(DefaultJwtValidator, <<>>).value, runtimeOptions |-> <<>>]

LEMMA DefaultValidatorIsWhole ==
    ASSUME NEW zeros
    PROVE  Whole(DefaultResponseValidator, zeros)
<1>1. Sound(New(DefaultJwtValidator, <<>>).value, zeros)
  BY JwtDefaultsAreWhole, NewOfNothing
<1> DEFINE default == DefaultResponseValidator
<1>2. /\ default.is = "tokenresponse.Validator"
      /\ {"is", "accessTokenValidator", "refreshTokenValidator", "idTokenValidator",
          "allowedTokenTypes"} \subseteq DOMAIN default
  BY DEF DefaultResponseValidator
<1>3. /\ Sound(default["accessTokenValidator"], zeros)
      /\ Sound(default["refreshTokenValidator"], zeros)
      /\ Sound(default["idTokenValidator"], zeros)
  BY <1>1 DEF DefaultResponseValidator
<1>4. /\ DOMAIN PartKinds("tokenresponse.Validator") =
            {"accessTokenValidator", "refreshTokenValidator", "idTokenValidator"}
      /\ LimitsOf("tokenresponse.Validator") = {}
      /\ ListsOf("tokenresponse.Validator") = {"allowedTokenTypes"}
  BY DEF PartKinds, LimitsOf, ListsOf
<1> HIDE DEF default
<1>5. Whole(default, zeros)
  BY <1>2, <1>3, <1>4 DEF Whole
<1> QED
  BY <1>5 DEF default

LEMMA ResponseDefaultValidator == Response!DefaultValidator = DefaultResponseValidator
<1>1. Response!Jwt!NewValidator(<<>>).value = New(DefaultJwtValidator, <<>>).value
    BY ResponseJwtConstructors, Zenon
<1> DEFINE validator(v) ==
                [is |-> "tokenresponse.Validator", allowedTokenTypes |-> {"bearer"},
                 allowedIssuedTypes |-> {"any issued type"}, requireAccessToken |-> TRUE,
                 allowIDToken |-> TRUE, requireIDToken |-> FALSE, requireIssuedType |-> FALSE,
                 accessTokenValidator |-> v, refreshTokenValidator |-> v,
                 idTokenValidator |-> v, runtimeOptions |-> <<>>]
<1>2. Response!DefaultValidator = validator(Response!Jwt!NewValidator(<<>>).value)
    BY Zenon DEF Response!DefaultValidator, Response!AnyIssuedType
<1>3. DefaultResponseValidator = validator(New(DefaultJwtValidator, <<>>).value)
    BY Zenon DEF DefaultResponseValidator
<1> HIDE DEF validator
<1> QED
    BY <1>1, <1>2, <1>3, Zenon

(* NewValidator refuses what the options contradict each other about *)
LEMMA ResponseValidatorBuilds ==
    ASSUME NEW zeros, NEW options, IsList(options)
    PROVE  Builds(Response!NewValidator(options), "tokenresponse.Validator", options, zeros)
<1> DEFINE built == New(DefaultResponseValidator, options)
<1>2. Response!New(Response!DefaultValidator, options) = built
  BY ResponseDefaultValidator, ResponseNew, Zenon
<1>3. DefaultResponseValidator.is = "tokenresponse.Validator"
  BY DEF DefaultResponseValidator
<1>4. Builds(built, "tokenresponse.Validator", options, zeros)
  BY <1>3, DefaultValidatorIsWhole, NewBuilds
<1>5. \/ Response!NewValidator(options) = Failure({"Misconfigured"}, Nil)
      \/ Response!NewValidator(options) = built
  BY <1>2, Zenon DEF Response!NewValidator, Response!Failure, Failure, Response!Nil, Nil,
     Response!NoError, NoError
<1>6. {"Misconfigured"} # NoError
  BY DEF NoError
<1>7. Builds(Failure({"Misconfigured"}, Nil), "tokenresponse.Validator", options, zeros)
  BY <1>6 DEF Failure, Builds
<1> QED
  BY <1>4, <1>5, <1>7

-----------------------------------------------------------------------------
(***************************************************************************)
(* All of them.                                                            *)
(***************************************************************************)

(***************************************************************************)
(* Whatever list of config options a New function of the four packages is  *)
(* given, as long as none of them sets a part that is not sound itself, it *)
(* returns a component of its kind that is sound, or an error and nothing: *)
(* no component is ever returned that lacks a part.                        *)
(***************************************************************************)
THEOREM NewComponentsAreSound ==
    ASSUME NEW zeros, NEW options, IsList(options)
    PROVE  /\ Builds(Jwt!NewDecoder(options), "jwt.Decoder", options, zeros)
           /\ Builds(Jwt!NewValidator(options), "jwt.Validator", options, zeros)
           /\ Builds(Jwt!NewEncoder(options), "jwt.Encoder", options, zeros)
           /\ Builds(Jwt!NewIssuer(options), "jwt.Issuer", options, zeros)
           /\ Builds(Jwt!NewResolver(options), "jwt.Resolver", options, zeros)
           /\ Builds(Jwt!NewReader(options), "jwt.Reader", options, zeros)
           /\ Builds(Jwt!NewWriter(options), "jwt.Writer", options, zeros)
           /\ Builds(Jwt!NewAuthenticator(options), "jwt.Authenticator", options, zeros)
           /\ Builds(Client!NewReader(options), "clientcredentials.Reader", options, zeros)
           /\ Builds(Client!NewValidator(options), "clientcredentials.Validator", options, zeros)
           /\ Builds(Client!NewResolver(options), "clientcredentials.Resolver", options, zeros)
           /\ Builds(Client!NewWriter(options), "clientcredentials.Writer", options, zeros)
           /\ Builds(Client!NewAuthenticator(options),
                     "clientcredentials.Authenticator", options, zeros)
           /\ Builds(Request!NewReader(options), "tokenrequest.Reader", options, zeros)
           /\ Builds(Request!NewValidator(options), "tokenrequest.Validator", options, zeros)
           /\ Builds(Request!NewResolver(options), "tokenrequest.Resolver", options, zeros)
           /\ Builds(Request!NewAuthenticator(options),
                     "tokenrequest.Authenticator", options, zeros)
           /\ Builds(Request!NewWriter(options), "tokenrequest.Writer", options, zeros)
           /\ Builds(Response!NewEncoder(options), "tokenresponse.Encoder", options, zeros)
           /\ Builds(Response!NewWriter(options), "tokenresponse.Writer", options, zeros)
           /\ Builds(Response!NewDecoder(options), "tokenresponse.Decoder", options, zeros)
           /\ Builds(Response!NewReader(options), "tokenresponse.Reader", options, zeros)
           /\ Builds(Response!NewValidator(options), "tokenresponse.Validator", options, zeros)
<1>1. /\ Builds(Jwt!NewDecoder(options), "jwt.Decoder", options, zeros)
      /\ Builds(Jwt!NewValidator(options), "jwt.Validator", options, zeros)
      /\ Builds(Jwt!NewEncoder(options), "jwt.Encoder", options, zeros)
      /\ Builds(Jwt!NewIssuer(options), "jwt.Issuer", options, zeros)
      /\ Builds(Jwt!NewResolver(options), "jwt.Resolver", options, zeros)
      /\ Builds(Jwt!NewReader(options), "jwt.Reader", options, zeros)
      /\ Builds(Jwt!NewWriter(options), "jwt.Writer", options, zeros)
      /\ Builds(Jwt!NewAuthenticator(options), "jwt.Authenticator", options, zeros)
  <2>1. /\ DefaultJwtDecoder.is = "jwt.Decoder"
        /\ DefaultJwtValidator.is = "jwt.Validator"
        /\ DefaultJwtEncoder.is = "jwt.Encoder"
        /\ DefaultJwtIssuer.is = "jwt.Issuer"
        /\ DefaultJwtResolver.is = "jwt.Resolver"
        /\ DefaultJwtReader.is = "jwt.Reader"
        /\ DefaultJwtWriter.is = "jwt.Writer"
        /\ DefaultJwtAuthenticator.is = "jwt.Authenticator"
    BY DEF DefaultJwtDecoder, DefaultJwtValidator, DefaultJwtEncoder, DefaultJwtIssuer,
       DefaultJwtResolver, DefaultJwtReader, DefaultJwtWriter, DefaultJwtAuthenticator
  <2>2. /\ Builds(New(DefaultJwtDecoder, options), "jwt.Decoder", options, zeros)
        /\ Builds(New(DefaultJwtValidator, options), "jwt.Validator", options, zeros)
        /\ Builds(New(DefaultJwtEncoder, options), "jwt.Encoder", options, zeros)
        /\ Builds(New(DefaultJwtIssuer, options), "jwt.Issuer", options, zeros)
        /\ Builds(New(DefaultJwtResolver, options), "jwt.Resolver", options, zeros)
        /\ Builds(New(DefaultJwtReader, options), "jwt.Reader", options, zeros)
        /\ Builds(New(DefaultJwtWriter, options), "jwt.Writer", options, zeros)
        /\ Builds(New(DefaultJwtAuthenticator, options), "jwt.Authenticator", options, zeros)
    BY <2>1, JwtDefaultsAreWhole, NewBuilds
  <2> QED
    BY <2>2, JwtConstructors
<1>2. /\ Builds(Client!NewReader(options), "clientcredentials.Reader", options, zeros)
      /\ Builds(Client!NewValidator(options), "clientcredentials.Validator", options, zeros)
      /\ Builds(Client!NewResolver(options), "clientcredentials.Resolver", options, zeros)
      /\ Builds(Client!NewWriter(options), "clientcredentials.Writer", options, zeros)
      /\ Builds(Client!NewAuthenticator(options), "clientcredentials.Authenticator", options, zeros)
  <2>1. /\ DefaultClientReader.is = "clientcredentials.Reader"
        /\ DefaultClientValidator.is = "clientcredentials.Validator"
        /\ DefaultClientResolver.is = "clientcredentials.Resolver"
        /\ DefaultClientWriter.is = "clientcredentials.Writer"
        /\ DefaultClientAuthenticator.is = "clientcredentials.Authenticator"
    BY DEF DefaultClientReader, DefaultClientValidator, DefaultClientResolver,
       DefaultClientWriter, DefaultClientAuthenticator
  <2>2. /\ Builds(New(DefaultClientReader, options), "clientcredentials.Reader", options, zeros)
        /\ Builds(New(DefaultClientValidator, options),
                  "clientcredentials.Validator", options, zeros)
        /\ Builds(New(DefaultClientResolver, options), "clientcredentials.Resolver", options, zeros)
        /\ Builds(New(DefaultClientWriter, options), "clientcredentials.Writer", options, zeros)
        /\ Builds(New(DefaultClientAuthenticator, options),
                  "clientcredentials.Authenticator", options, zeros)
    BY <2>1, ClientDefaultsAreWhole, NewBuilds
  <2> QED
    BY <2>2, ClientConstructors
<1>3. /\ Builds(Request!NewReader(options), "tokenrequest.Reader", options, zeros)
      /\ Builds(Request!NewValidator(options), "tokenrequest.Validator", options, zeros)
      /\ Builds(Request!NewResolver(options), "tokenrequest.Resolver", options, zeros)
      /\ Builds(Request!NewAuthenticator(options), "tokenrequest.Authenticator", options, zeros)
      /\ Builds(Request!NewWriter(options), "tokenrequest.Writer", options, zeros)
  <2>1. /\ DefaultRequestReader.is = "tokenrequest.Reader"
        /\ DefaultRequestValidator.is = "tokenrequest.Validator"
        /\ DefaultRequestResolver.is = "tokenrequest.Resolver"
        /\ DefaultRequestAuthenticator.is = "tokenrequest.Authenticator"
        /\ DefaultRequestWriter.is = "tokenrequest.Writer"
    BY DEF DefaultRequestReader, DefaultRequestValidator, DefaultRequestResolver,
       DefaultRequestAuthenticator, DefaultRequestWriter
  <2>2. /\ Builds(New(DefaultRequestReader, options), "tokenrequest.Reader", options, zeros)
        /\ Builds(New(DefaultRequestValidator, options), "tokenrequest.Validator", options, zeros)
        /\ Builds(New(DefaultRequestResolver, options), "tokenrequest.Resolver", options, zeros)
        /\ Builds(New(DefaultRequestAuthenticator, options),
                  "tokenrequest.Authenticator", options, zeros)
        /\ Builds(New(DefaultRequestWriter, options), "tokenrequest.Writer", options, zeros)
    BY <2>1, RequestDefaultsAreWhole, NewBuilds
  <2> QED
    BY <2>2, RequestConstructors
<1>4. /\ Builds(Response!NewEncoder(options), "tokenresponse.Encoder", options, zeros)
      /\ Builds(Response!NewWriter(options), "tokenresponse.Writer", options, zeros)
      /\ Builds(Response!NewDecoder(options), "tokenresponse.Decoder", options, zeros)
      /\ Builds(Response!NewReader(options), "tokenresponse.Reader", options, zeros)
  <2>1. /\ DefaultResponseEncoder.is = "tokenresponse.Encoder"
        /\ DefaultResponseWriter.is = "tokenresponse.Writer"
        /\ DefaultResponseDecoder.is = "tokenresponse.Decoder"
        /\ DefaultResponseReader.is = "tokenresponse.Reader"
    BY DEF DefaultResponseEncoder, DefaultResponseWriter, DefaultResponseDecoder,
       DefaultResponseReader
  <2>2. /\ Builds(New(DefaultResponseEncoder, options), "tokenresponse.Encoder", options, zeros)
        /\ Builds(New(DefaultResponseWriter, options), "tokenresponse.Writer", options, zeros)
        /\ Builds(New(DefaultResponseDecoder, options), "tokenresponse.Decoder", options, zeros)
        /\ Builds(New(DefaultResponseReader, options), "tokenresponse.Reader", options, zeros)
    BY <2>1, ResponseDefaultsAreWhole, NewBuilds
  <2> QED
    BY <2>2, ResponseConstructors
<1> QED
  BY <1>1, <1>2, <1>3, <1>4, ResponseValidatorBuilds

(***************************************************************************)
(* The config options themselves: each of the shapes they come in is       *)
(* usable, if what it was given is.                                        *)
(***************************************************************************)
LEMMA SetFieldSets ==
    ASSUME NEW field, NEW value
    PROVE  LET option == SetField(field, value) IN
           option.does = "set" /\ DOMAIN option.sets = {field} /\ option.sets[field] = value
BY DEF SetField, Sets

LEMMA FailsSetsNothing == Fails.does # "set"
BY DEF Fails

(***************************************************************************)
(* No config option of the packages does harm: a dependency that is nil is *)
(* refused, as are a limit of nothing, and options of a part its own New   *)
(* function has refused.                                                   *)
(***************************************************************************)
THEOREM OptionsAreUsable ==
    ASSUME NEW zeros, NEW kind, NEW field, field # "is"
    PROVE  /\ field \notin LimitsOf(kind) =>
                /\ \A value : value = Nil \/ Sound(value, zeros) =>
                      Usable(Dependency(field, value), kind, zeros)
                /\ \A made : (made.err = NoError => Sound(made.value, zeros)) =>
                      Usable(Component(field, made), kind, zeros)
           /\ field \notin DOMAIN PartKinds(kind) =>
                \A bytes \in Int : Usable(Limit(field, bytes), kind, zeros)
           /\ field \notin DOMAIN PartKinds(kind) \cup LimitsOf(kind) =>
                /\ \A list, supported : Usable(Restriction(field, list, supported), kind, zeros)
                /\ \A value : Usable(SetField(field, value), kind, zeros)
<1> USE SetFieldSets, FailsSetsNothing
<1>1. \A value : field \notin LimitsOf(kind) /\ Sound(value, zeros) =>
          Usable(SetField(field, value), kind, zeros)
  BY DEF Usable
<1>2. \A value : field \notin DOMAIN PartKinds(kind) /\ value \in Nat \ {0} =>
          Usable(SetField(field, value), kind, zeros)
  BY DEF Usable
<1>3. \A value : field \notin DOMAIN PartKinds(kind) \cup LimitsOf(kind) =>
          Usable(SetField(field, value), kind, zeros)
  BY DEF Usable
<1>4. Usable(Fails, kind, zeros)
  BY DEF Usable
<1>5. \A value : field \notin LimitsOf(kind) /\ (value = Nil \/ Sound(value, zeros)) =>
          Usable(Dependency(field, value), kind, zeros)
  BY <1>1, <1>4 DEF Dependency
<1>6. \A made : /\ field \notin LimitsOf(kind)
                /\ (made.err = NoError => Sound(made.value, zeros))
                => Usable(Component(field, made), kind, zeros)
  BY <1>1, <1>4 DEF Component
<1>7. \A bytes \in Int : field \notin DOMAIN PartKinds(kind) =>
          Usable(Limit(field, bytes), kind, zeros)
  BY <1>2, <1>4 DEF Limit
<1>8. \A list, supported : field \notin DOMAIN PartKinds(kind) \cup LimitsOf(kind) =>
          Usable(Restriction(field, list, supported), kind, zeros)
  BY <1>3, <1>4 DEF Restriction
<1> QED
  BY <1>3, <1>5, <1>6, <1>7, <1>8
=============================================================================
