------------------------------- MODULE Signing -------------------------------
(***************************************************************************)
(* The signature of a request: the canonical form internal/signing builds, *)
(* and the HTTP request Doer.attempt sends with it.                        *)
(*                                                                         *)
(* The HMAC is abstracted to its argument, so a signature is the canonical *)
(* form it covers; sorting the pairs, escaping and hashing are functions   *)
(* of that form and left out.  The value of a parameter is the sequence of *)
(* the values joined in it.  A query is a function from keys to values: as *)
(* it has a key once, the order Go's map gives the keys in is of no        *)
(* consequence to what is joined.                                          *)
(***************************************************************************)
EXTENDS Integers, Sequences

\* The empty string: no body, no token.
Empty == ""

SignatureHeaders == {"x-app-key", "x-timestamp", "x-signature-version",
                     "x-signature-algorithm", "x-signature-nonce"}

\* The five headers; a timestamp and a nonce are new for every signature.
NewHeaders(key, stamp) ==
  [h \in SignatureHeaders |->
    CASE h = "x-app-key" -> <<key>>
      [] h \in {"x-timestamp", "x-signature-nonce"} -> <<stamp>>
      [] OTHER -> <<"1.0">>]

\* The host, the signature headers and the query: a key of the query that is there
\* already appends.
Params(req, headers) ==
  LET base == [k \in DOMAIN headers \cup {"host"} |->
                 IF k = "host" THEN <<req.host>> ELSE headers[k]]
      At(f, k) == IF k \in DOMAIN f THEN f[k] ELSE <<>>
  IN [k \in DOMAIN base \cup DOMAIN req.query |-> At(base, k) \o At(req.query, k)]

Digest(body, letters) == IF body = Empty THEN <<>> ELSE <<letters, body>>

\* canonical: the path, if there is one, the parameters, and the uppercase
\* digest of a body that is not empty.
Canonical(req, headers) ==
  [path |-> req.path, params |-> Params(req, headers), digest |-> Digest(req.body, "UPPER")]

\* SignStream: the headers and the lowercase digest alone.
CanonicalStream(body, headers) ==
  [params |-> headers, digest |-> Digest(body, "lower")]

\* Merge(f, g) is f overridden by g.
Merge(f, g) == [k \in DOMAIN f \cup DOMAIN g |-> IF k \in DOMAIN g THEN g[k] ELSE f[k]]

\* Faulty variant of SentHeaders: the authorizer's headers win.
AuthorizerLast(auth, signed, rest) == Merge(Merge(signed, rest), auth)

\* attempt sets the authorizer's headers, then the signature's, then its own.
SentHeaders(auth, signed, rest) == Merge(Merge(auth, signed), rest)

ClientHeaders(req) ==
  {"accept", "user-agent"} \cup IF req.body # Empty THEN {"content-type"} ELSE {}

\* attempt: the message sent, with the signature that goes with it.
Attempt(req, auth, key, stamp) ==
  LET headers == NewHeaders(key, stamp) IN
    [req |-> req, signature |-> Canonical(req, headers),
     headers |-> SentHeaders(auth, headers, [h \in ClientHeaders(req) |-> <<"client">>])]

\* events.Stream.connect: the subscription sent, with its metadata.
StreamAttempt(body, token, key, stamp) ==
  LET headers == NewHeaders(key, stamp) IN
    [body |-> body, signature |-> CanonicalStream(body, headers),
     metadata |-> Merge(headers, IF token = Empty THEN <<>> ELSE [k \in {"x-access-token"} |-> <<token>>])]

-----------------------------------------------------------------------------
(* Properties. *)

Received(headers) == [h \in SignatureHeaders |-> headers[h]]

\* The server, which builds the canonical form from the headers or the metadata
\* it receives, gets the one that was signed, whatever headers the authorizer
\* adds; and the token it adds arrives.
Verifies(requests, auths) ==
  /\ \A req \in requests, auth \in auths :
       LET sent == Attempt(req, auth, "app", "s1") IN
         /\ sent.signature = Canonical(sent.req, Received(sent.headers))
         /\ \A h \in DOMAIN auth \ SignatureHeaders : sent.headers[h] = auth[h]
  /\ \A body \in {Empty, "b"}, token \in {Empty, "t"} :
       LET sent == StreamAttempt(body, token, "app", "s1") IN
         /\ sent.signature = CanonicalStream(sent.body, Received(sent.metadata))
         /\ token # Empty => sent.metadata["x-access-token"] = <<token>>

=============================================================================
