--------------------------- MODULE MCBearerAccess ---------------------------
(***************************************************************************)
(* The tokens TLC follows: one whose parts fill the decoder's limits to    *)
(* the last byte, one that is a byte over, claims of every form, and       *)
(* requests with everything an Authorization header can hold, tokens of    *)
(* others too.                                                             *)
(***************************************************************************)
EXTENDS BearerAccess

Absent == [form |-> "absent", value |-> ""]
Claim(value) == [form |-> "string", value |-> value]
NoString == [form |-> "other", value |-> ""]
Audience(form, items) == [form |-> form, value |-> items]

Plain == [iss |-> Claim("issuer"), sub |-> Claim("alice"), nonce |-> Claim("n"),
          aud |-> Audience("list", <<"elsewhere", "here">>),
          iat |-> NoDate, exp |-> NoDate, nbf |-> NoDate]
Part(says, bytes) == [says |-> says, json |-> TRUE, layers |-> 0, bytes |-> bytes]
Template(claims, headerBytes, claimsBytes) ==
    [header |-> Part([typ |-> "JWT"], headerBytes), claims |-> Part(claims, claimsBytes)]

MaxHeader == 7
MaxClaims == 11
MaxSignature == 8
(* One byte less than a token takes whose three parts are as long as allowed *)
MaxToken == EncodedLen(MaxHeader) + EncodedLen(MaxClaims) + EncodedLen(MaxSignature) + 1

TimedTemplates == {Template(Plain, 7, 11)}
SizedTemplates == {Template(Plain, 6, 11), Template(Plain, 7, 10), Template(Plain, 7, 12),
                   Template(Plain, 8, 11)}
ClaimTemplates == {
    Template(Plain, 7, 11),
    Template([Plain EXCEPT !.aud = Audience("string", <<"here">>), !.sub = Absent], 7, 11),
    Template([Plain EXCEPT !.aud = Audience("list", <<"here", "">>)], 7, 11),
    Template([Plain EXCEPT !.aud = Audience("list", <<>>)], 7, 11),
    Template([Plain EXCEPT !.aud = Audience("string", <<"elsewhere">>)], 7, 11),
    Template([Plain EXCEPT !.aud = Audience("other", <<>>)], 7, 11),
    Template([Plain EXCEPT !.aud = Audience("absent", <<>>)], 7, 11),
    Template([Plain EXCEPT !.iss = Absent], 7, 11),
    Template([Plain EXCEPT !.iss = NoString], 7, 11),
    Template([Plain EXCEPT !.nonce = Claim("stale"), !.sub = NoString], 7, 11)}
AllTemplates == SizedTemplates \cup ClaimTemplates

TimedPolicy == <<WithValidClock(2)>>
FullPolicy == <<WithType("JWT"), WithValidIssuer("issuer"), WithValidAudience({"here"}),
                WithValidClock(2), WithNonce("n")>>

MCSkews == -3 .. 3
NoSkew == {0}

Faults == {NoError, {"Unauthenticated"}}

Piece(bytes, layers) == [says |-> <<>>, json |-> FALSE, layers |-> layers, bytes |-> bytes]
NotJson == [Part(Plain, 11) EXCEPT !.layers = 1, !.json = FALSE]
Other(credential, raw) == [bearer |-> TRUE, credential |-> credential, text |-> raw]
Basic == [bearer |-> FALSE, credential |-> "whole", text |-> <<>>]

(* A token of somebody else, which says it is of the issuer or of another, with
   a signature or without, dated in its own way *)
Foreign(claims, bytes) ==
    <<Bearer(<<Wrap(Part([typ |-> "JWT"], 7)), Wrap(Part(claims, 11)), Piece(bytes, 1)>>)>>
OfOthers == [Plain EXCEPT !.sub = Claim("bob")]
Real(value) == [form |-> "float64", value |-> value]
MCForeign == {
    Foreign(OfOthers, 0),
    Foreign([OfOthers EXCEPT !.iat = Real(-1), !.exp = Real(1)], 8),
    Foreign([OfOthers EXCEPT !.iat = NoString, !.nbf = Real(1)], 8),
    Foreign([OfOthers EXCEPT !.exp = NoString], 0),
    Foreign([OfOthers EXCEPT !.iss = Claim("elsewhere")], 8)}
MCOtherRequests == MCForeign \cup {
    <<>>, <<Basic>>, <<Basic, Basic>>, <<Bearer(<<>>), Bearer(<<>>)>>,
    <<Other("missing", <<>>)>>, <<Other("split", <<>>)>>,
    <<Bearer(<<Piece(1, 0)>>)>>,
    <<Bearer(<<Piece(0, 0), Piece(3, 1), Piece(0, 0)>>)>>,
    <<Bearer(<<Piece(3, 1), Piece(3, 1), Piece(3, 1), Piece(3, 1)>>)>>,
    <<Bearer(<<Piece(3, 1), NotJson, Piece(0, 0)>>)>>}
NoOtherRequests == {}
=============================================================================
