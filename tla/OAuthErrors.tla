---------------------------- MODULE OAuthErrors ----------------------------
(***************************************************************************)
(* Errors as the endpoint tells them apart.  errors.Is looks for a vapi    *)
(* category anywhere in an error's chain and vapi.NewErrorCategory adds    *)
(* one category on top of those of its cause, so an error is the set of    *)
(* the categories found in it and an error from outside the library that   *)
(* has none is {"uncategorised"}.  The empty set is Go's nil.              *)
(***************************************************************************)

Categories == {"Unauthenticated", "Unsupported", "PolicyRejected", "Malformed",
               "Unavailable", "Misconfigured", "NotApplicable", "Internal",
               "Binding", "WrongIssuer", "WrongAudience", "Expired", "NotYetValid",
               "uncategorised"}

NoError == {}
Errors == SUBSET Categories

NewErrorCategory(category, cause) == {category} \cup cause

(* What an operation hands back: a value that counts only without an error *)
Success(value) == [err |-> NoError, value |-> value]
Failure(err, nothing) == [err |-> err, value |-> nothing]

(***************************************************************************)
(* The answer handleError selects: the first category of this list that    *)
(* the error carries decides, whatever else it carries.                    *)
(***************************************************************************)
ErrorAnswer(err) ==
    IF "Unauthenticated" \in err THEN [status |-> 401, body |-> "invalid_client"]
    ELSE IF "Unsupported" \in err THEN [status |-> 400, body |-> "unsupported_grant_type"]
    ELSE IF "PolicyRejected" \in err THEN [status |-> 400, body |-> "invalid_grant"]
    ELSE IF "Malformed" \in err THEN [status |-> 400, body |-> "invalid_request"]
    ELSE IF "Unavailable" \in err THEN [status |-> 503, body |-> "temporarily_unavailable"]
    ELSE [status |-> 500, body |-> "server_error"]

ErrorCodes == {"invalid_client", "unsupported_grant_type", "invalid_grant",
               "invalid_request", "temporarily_unavailable", "server_error"}
=============================================================================
