---------------------------- MODULE Constructors ----------------------------
(***************************************************************************)
(* How every component of the library is built: New calls the config       *)
(* options it is given in their order, gives up at the first that is nil   *)
(* or returns an error, and fills what none of them set with a default.    *)
(*                                                                         *)
(* A component, or a callback, is a record whose field "is" names what it  *)
(* is; its other fields are what it was configured with.  A config option  *)
(* is a record                                                             *)
(*    does    "set", "fail" (it returns an error) or "nil" (it is nil)     *)
(*    sets    the fields it assigns                                        *)
(***************************************************************************)
EXTENDS OAuthErrors, OAuthNames, SequencesExt

Nil == [is |-> "nil"]
Named(name) == [is |-> name]

Sets(values) == [does |-> "set", sets |-> values]
SetField(field, value) == Sets([f \in {field} |-> value])
Fails == [does |-> "fail", sets |-> <<>>]
NilOption == [does |-> "nil", sets |-> <<>>]

Faulty(options) == \E i \in DOMAIN options : options[i].does # "set"

(* The options that assign a field, and the value the last of them leaves *)
Setting(options, field) == {i \in DOMAIN options : field \in DOMAIN options[i].sets}
Assigned(options, field, otherwise) ==
    LET setting == Setting(options, field) IN
    IF setting = {} THEN otherwise ELSE options[Max(setting)].sets[field]

(* A New function: the component with the fields of default, or an error *)
New(default, options) ==
    IF Faulty(options) THEN Failure({"Misconfigured"}, Nil)
    ELSE Success([f \in DOMAIN default |-> Assigned(options, f, default[f])])

-----------------------------------------------------------------------------
(***************************************************************************)
(* The shapes config options come in: a dependency that must not be nil,   *)
(* a component built from options of its own, a positive limit, a list     *)
(* that is neither empty nor holds anything unsupported, and the runtime   *)
(* options, which replace those set before.                                *)
(***************************************************************************)
Dependency(field, value) == IF value = Nil THEN Fails ELSE SetField(field, value)
Component(field, made) == IF made.err = NoError THEN SetField(field, made.value) ELSE Fails

Limit(field, bytes) == IF bytes > 0 THEN SetField(field, bytes) ELSE Fails
Restriction(field, list, supported) ==
    IF list # <<>> /\ Range(list) \subseteq supported
    THEN SetField(field, Range(list)) ELSE Fails
Runtime(options) == SetField("runtimeOptions", options)
=============================================================================
