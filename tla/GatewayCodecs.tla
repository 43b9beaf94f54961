--------------------------- MODULE GatewayCodecs ----------------------------
(***************************************************************************)
(* The notification codecs and their registry: what each provider's codec  *)
(* reads in a request body, and which requests it verifies.  They are pure *)
(* functions of the request, so this module has no state; WebhookIngest    *)
(* calls them.                                                             *)
(*                                                                         *)
(* A body is valid JSON or not, and then has values at some of the paths   *)
(* the codecs look at.  A value that is not of the type its reader wants   *)
(* (an id that is not text or is empty, an amount Decimal cannot read) is  *)
(* read as if it were absent, and is left out of the body.  A status is a  *)
(* word in a spelling: lower case, or some other.  The keyed digest is     *)
(* ideal: equal digests are of equal secrets and equal signed texts.       *)
(***************************************************************************)
EXTENDS Integers

CONSTANTS
    Key,            \* provider transaction ids
    Gross           \* amounts a body may carry

Path == {"/transaction/id", "/transaction/status", "/order/amount",
         "order_id", "transaction_status", "gross_amount",
         "id", "status", "paid_amount", "provider_transaction_id"}

Spelled(words, spellings) == [word: words, lower: spellings]

\* A codec: its VerificationScheme, where it reads the dedup key, the status
\* and the amount, and the statuses that claim settlement.  DOKU and Xendit
\* fold the case of the status, the others do not.
DokuCodec ==
    [scheme |-> "HmacRawBody", key |-> "/transaction/id",
     status |-> "/transaction/status", amount |-> {"/order/amount"},
     settles |-> Spelled({"settle"}, BOOLEAN)]

MidtransCodec ==
    [scheme |-> "ApiRefetch", key |-> "order_id",
     status |-> "transaction_status", amount |-> {"gross_amount"},
     settles |-> Spelled({"settlement", "capture"}, {TRUE})]

XenditCodec ==
    [scheme |-> "ApiRefetch", key |-> "id",
     status |-> "status", amount |-> {"paid_amount"},
     settles |-> Spelled({"paid", "settled"}, BOOLEAN)]

ManualNoopCodec ==
    [scheme |-> "ApiRefetch", key |-> "provider_transaction_id",
     status |-> "status", amount |-> {},
     settles |-> Spelled({"settled"}, {TRUE})]

\* GatewayCodecRegistry::with_builtin.
codecs == [doku |-> DokuCodec, midtrans |-> MidtransCodec,
           xendit |-> XenditCodec, manual |-> ManualNoopCodec]

Registered(code) == code \in DOMAIN codecs

SchemeOf(code) == codecs[code].scheme

-----------------------------------------------------------------------------
(* parse                                                                   *)

\* Neither ParseError: JSON, with a usable transaction id.
Parses(code, body) ==
    /\ body.json
    /\ codecs[code].key \in DOMAIN body.fields

ClaimsSettlement(codec, fields) ==
    codec.status \in DOMAIN fields /\ fields[codec.status] \in codec.settles

\* The NormalizedNotification of a body that parses.  A missing amount reads as
\* zero.
parse(code, body) ==
    LET codec == codecs[code]
        amounts == codec.amount \cap DOMAIN body.fields IN
    [provider_transaction_id |-> body.fields[codec.key],
     event |-> IF ClaimsSettlement(codec, body.fields) THEN "SettleHint" ELSE "Ignore",
     gross_hint |-> IF amounts = {} THEN 0 ELSE body.fields[CHOOSE p \in amounts : TRUE]]

-----------------------------------------------------------------------------
(* verify                                                                  *)

\* The signed text names the caller and the request by these headers.
DigestHeader == {"client-id", "request-id", "request-timestamp"}

\* A request to a webhook route, as far as its codec can see: the body, the
\* digest headers that are present and not empty, what they and the request
\* target say (timestamp and target enter the digest in lower case, so their
\* spelling does not count), and the Signature header.
Unsigned == {[form |-> "missing"], [form |-> "malformed"]}

Digest(secret, request) ==
    [form |-> "digest", secret |-> secret, said |-> request.said, body |-> request.body]

\* Mutant: the digest covers the headers and the target, not the body.
verify_HeadersOnly(code, request, secret) ==
    SchemeOf(code) = "HmacRawBody" =>
        /\ request.signature \notin Unsigned
        /\ DigestHeader \subseteq request.headers
        /\ request.signature.secret = secret
        /\ request.signature.said = request.said

\* An ApiRefetch codec verifies nothing: its re-fetch is the verification.
verify(code, request, secret) ==
    SchemeOf(code) = "HmacRawBody" =>
        /\ request.signature \notin Unsigned
        /\ DigestHeader \subseteq request.headers
        /\ request.signature = Digest(secret, request)

=============================================================================
