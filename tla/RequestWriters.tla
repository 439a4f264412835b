--------------------------- MODULE RequestWriters ---------------------------
(***************************************************************************)
(* The client's side of a token request: tokenrequest.Writer and the       *)
(* clientcredentials.Writer it calls first.  Both write into a carrier,    *)
(* the *http.Request, that may have been written before; it is described   *)
(* by the record that module ClientCredentials reads, as the server sees   *)
(* it.                                                                     *)
(***************************************************************************)
EXTENDS TokenRequest

CONSTANTS
    Encoded,      \* the text the token encoder writes for a token
    EncodeFault   \* the error it has instead

ASSUME EncoderAssumption ==
    /\ Encoded \in [Text -> Text]
    /\ EncodeFault \in [Text -> Errors]
    /\ \A t \in Text : Encoded[t] = "" <=> t = ""
    /\ EncodeFault[""] = NoError /\ DecodeFault[""] = NoError  \* nil is left out

(* A body that is not there, or that has been read to its end *)
NoForm == [f \in FormFields |-> ""]

(* What a WriteArtifact returns, and the carrier as it leaves it *)
Wrote(err, carrier) == [err |-> err, carrier |-> carrier]
WithBody(carrier, form) == [carrier EXCEPT !.form = form, !.parses = TRUE]

CredentialForm(c) ==
    [NoForm EXCEPT
        !["client_id"] = c.client_id,
        !["client_secret"] = c.client_secret,
        !["client_assertion"] = Encoded[c.assertion],
        !["client_assertion_type"] = IF c.assertion = "" THEN "" ELSE c.assertion_type]

(* A mistake: the credentials are added to the form that is there already *)
AddClientCredentials(carrier, c) ==
    IF EncodeFault[c.assertion] # NoError
    THEN Wrote(NewErrorCategory("Malformed", EncodeFault[c.assertion]), carrier)
    ELSE Wrote(NoError, WithBody(carrier, [f \in FormFields |->
             IF CredentialForm(c)[f] # "" THEN CredentialForm(c)[f] ELSE carrier.form[f]]))

(***************************************************************************)
(* clientcredentials.Writer.writeArtifact: a new form replaces the body,   *)
(* or nothing does.  It does not look at AuthMethod and leaves the         *)
(* Authorization header alone.                                             *)
(***************************************************************************)
WriteClientCredentials(carrier, c) ==
    IF EncodeFault[c.assertion] # NoError
    THEN Wrote(NewErrorCategory("Malformed", EncodeFault[c.assertion]), carrier)
    ELSE Wrote(NoError, WithBody(carrier, CredentialForm(c)))

(* The fields writeArtifact puts into the form for each grant type *)
FieldsWritten(grant) ==
    CASE grant = "authorization_code" -> {"code", "redirect_uri", "code_verifier"}
      [] grant = "password" -> {"username", "password", "scope"}
      [] grant = "client_credentials" -> {"scope"}
      [] grant = "refresh_token" -> {"refresh_token", "scope"}
      [] grant = "device_code" -> {"device_code"}
      [] grant \in {"jwt_bearer", "saml2_bearer"} -> {"assertion"}
      [] OTHER -> {}

(***************************************************************************)
(* tokenrequest.Writer.writeArtifact: the credentials, then the form they  *)
(* are in is read, completed and put back.  When a token cannot be encoded *)
(* the form has been read already and nothing is put in its place.         *)
(***************************************************************************)
WriteTokenRequest(carrier, a) ==
    LET first == WriteClientCredentials(carrier, a.credentials)
        form == first.carrier.form
        written == FieldsWritten(a.grant_type)
        text(f) == IF f \in TokenFields THEN Encoded[a.fields[f]] ELSE a.fields[f]
        faults == UNION {EncodeFault[a.fields[f]] : f \in written \cap TokenFields}
    IN  IF first.err # NoError THEN first
        ELSE IF faults # NoError
        THEN Wrote(NewErrorCategory("Malformed", faults), WithBody(carrier, NoForm))
        ELSE Wrote(NoError, WithBody(carrier, [f \in FormFields |->
                 IF f = "grant_type" THEN a.grant_type
                 ELSE IF f \in written /\ a.fields[f] # "" THEN text(f)
                 ELSE form[f]]))
=============================================================================
