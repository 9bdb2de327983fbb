------------------------------ MODULE KeySetup ------------------------------
(***************************************************************************)
(* Becoming a subscriber: ReadOnlyClient and EbicsBackend for HEV, INI,    *)
(* HIA and HPB, FileBankKeyTrustStore for the bank's keys, and the trust   *)
(* check in front of discovery and download.  One host calls the client,   *)
(* one operation at a time, over HttpsTransport.                           *)
(*                                                                         *)
(* The host (external) repeats INI or HIA only when classify_retry calls   *)
(* its last error transient, and accepts bank keys only by the digests the *)
(* bank has published.  The bank (external) registers a key at most once.  *)
(***************************************************************************)
EXTENDS HttpsTransport, FiniteSets

CONSTANTS
    KeyPairs,   \* pairs of bank certificates; a pair is its own digests
    NoKeys      \* no candidate, pin or trusted keys

VARIABLES
    hpc,         \* "idle", "hev" (negotiating), "op", label of the client's call
    call,        \* call: the operation called
    protocol,    \* the host has a NegotiatedProtocol to pass on
    letter,      \* letter[o]: "none", "returned", or "pending"
    mayCall,     \* key orders the host may submit (again)
    cut,         \* key orders during whose call the host process was lost
    registered,  \* registered[o]: the bank has the key
    submitted,   \* submitted[o]: requests that reached the bank
    reply,       \* what the bank answers to the request under way
    candidate,   \* UntrustedBankKeys the host got from HPB, or NoKeys
    pin,         \* trust store file: [certs, digests]
    using,       \* TrustedBankKeys of the running call, or NoKeys
    accepted,    \* key pairs the operator has ever accepted
    bankKeys,    \* key pair the bank uses and publishes
    stale        \* certificates that have expired

hostVars == <<hpc, call, protocol, letter, mayCall, cut>>
bankVars == <<registered, submitted, reply, bankKeys, stale>>
trustVars == <<candidate, pin, using, accepted>>
vars == <<netVars, hostVars, bankVars, trustVars>>

KeyOrders == InitializationOrders
TrustedOps == {"HPD", "BTD"}   \* discover_capabilities; download and resolve
Operations == KeyOrders \cup TrustedOps \cup {"HEV", "HPB"}

Replies == {"none", "ok", "no_order_id", "rejected", "two_codes", "with_data", "malformed"}

TypeOK ==
    /\ NetTypeOK
    /\ hpc \in {"idle", "hev", "op"} /\ call \in Operations \cup {"none"}
    /\ protocol \in BOOLEAN
    /\ letter \in [KeyOrders -> {"none", "returned", "pending"}]
    /\ mayCall \subseteq KeyOrders /\ cut \subseteq KeyOrders
    /\ registered \in [KeyOrders -> BOOLEAN] /\ submitted \in [KeyOrders -> Nat]
    /\ reply \in Replies
    /\ candidate \in KeyPairs \cup {NoKeys} /\ using \in KeyPairs \cup {NoKeys}
    /\ pin \in [certs: KeyPairs, digests: KeyPairs] \cup {NoKeys}
    /\ accepted \subseteq KeyPairs /\ bankKeys \in KeyPairs /\ stale \subseteq KeyPairs

Init ==
    /\ NetInit
    /\ hpc = "idle" /\ call = "none" /\ protocol = FALSE
    /\ letter = [o \in KeyOrders |-> "none"]
    /\ mayCall = KeyOrders /\ cut = {}
    /\ registered = [o \in KeyOrders |-> FALSE]
    /\ submitted = [o \in KeyOrders |-> 0]
    /\ reply = "none"
    /\ candidate = NoKeys /\ pin = NoKeys /\ using = NoKeys /\ accepted = {}
    /\ bankKeys \in KeyPairs /\ stale = {}

-----------------------------------------------------------------------------
(* The trust store *)

(* accept_out_of_band: both digests equal the expected ones. *)
AcceptsOutOfBand(keys, digests) == keys = digests

RequireTrustedByFile == pin # NoKeys   \* mutant: digests are derived from the same file

(* require_trusted: a pin is on file, its certificates still validate, and    *)
(* they match the digests recorded with them.                                 *)
RequireTrusted ==
    /\ pin # NoKeys
    /\ pin.certs \notin stale
    /\ AcceptsOutOfBand(pin.certs, pin.digests)

(* accept_bank_keys with the digests the bank publishes *)
AcceptBankKeys ==
    /\ hpc = "idle" /\ candidate # NoKeys
    /\ AcceptsOutOfBand(candidate, bankKeys)
    /\ pin' = [certs |-> candidate, digests |-> bankKeys]
    /\ accepted' = accepted \cup {candidate}
    /\ UNCHANGED <<netVars, hostVars, bankVars, candidate, using>>

(* External: the certificates in the file are replaced, the digests are not. *)
CertificatesSwapped ==
    /\ pin # NoKeys
    /\ \E k \in KeyPairs \ {pin.certs} : pin' = [pin EXCEPT !.certs = k]
    /\ UNCHANGED <<netVars, hostVars, bankVars, candidate, using, accepted>>

(* External: the bank changes to new keys, certificates expire. *)
BankRotatesKeys ==
    /\ \E k \in KeyPairs \ ({bankKeys} \cup stale) : bankKeys' = k
    /\ \E s \in {stale, stale \cup {bankKeys}} : stale' = s
    /\ UNCHANGED <<netVars, hostVars, registered, submitted, reply, trustVars>>

-----------------------------------------------------------------------------
(* Calls *)

Return(retry) ==
    /\ hpc' = "idle" /\ call' = "none"
    /\ mayCall' = IF retry /\ call \in KeyOrders THEN mayCall \cup {call} ELSE mayCall

ExchangeDone ==
    /\ outcome' = "none" /\ reached' = FALSE
    /\ ord' = "none" /\ declared' = NoLength /\ received' = 0
    /\ UNCHANGED <<net, late>>

(* Discovery and download ask the trust store before anything is sent; all    *)
(* but HEV then negotiate, unless the host passes a protocol on.              *)
StartCall(o, given) ==
    /\ hpc = "idle"
    /\ given => protocol /\ o # "HEV"
    /\ o \in KeyOrders => o \in mayCall
    /\ o \in TrustedOps => RequireTrusted
    /\ call' = o /\ hpc' = IF given THEN "op" ELSE "hev"
    /\ mayCall' = mayCall \ {o}
    /\ using' = IF o \in TrustedOps THEN pin.certs ELSE NoKeys
    /\ late' = FALSE
    /\ UNCHANGED <<net, ord, declared, received, reached, outcome, protocol, letter, cut,
                   bankVars, candidate, pin, accepted>>

(* The control of the call covers the negotiation and the order after it. *)
Begin ==
    /\ \/ hpc = "hev" /\ BeginExchange("HEV")
       \/ hpc = "op" /\ BeginExchange(call)
    /\ UNCHANGED <<hostVars, bankVars, trustVars>>

(* Certificates, nonce or letter data are refused before anything is sent. *)
PreparationFails ==
    /\ hpc = "op" /\ net = "off" /\ outcome = "none"
    /\ Return(FALSE)
    /\ UNCHANGED <<netVars, protocol, letter, cut, bankVars, trustVars>>

(* The bank takes a key once.  Whatever it decides, its answer may be one the *)
(* client cannot make sense of.                                               *)
Send ==
    /\ SendRequest
    /\ IF hpc = "op" /\ call \in KeyOrders
       THEN /\ submitted' = [submitted EXCEPT ![call] = @ + 1]
            /\ \/ /\ ~registered[call]
                  /\ registered' = [registered EXCEPT ![call] = TRUE]
                  /\ reply' \in Replies \ {"none", "rejected"}
               \/ /\ UNCHANGED registered
                  /\ reply' \in Replies \ {"none", "ok"}
       ELSE UNCHANGED <<registered, submitted, reply>>
    /\ UNCHANGED <<hostVars, bankKeys, stale, trustVars>>

(* parse_hev_response and select_h005 accept the bank's versions. *)
Negotiated ==
    /\ hpc = "hev" /\ outcome = "body"
    /\ protocol' = TRUE
    /\ IF call = "HEV" THEN Return(FALSE) ELSE hpc' = "op" /\ UNCHANGED <<call, mayCall>>
    /\ ExchangeDone
    /\ UNCHANGED <<letter, cut, bankVars, trustVars>>

(* Negotiation fails, in the exchange or in the answer. *)
NotNegotiated ==
    /\ hpc = "hev" /\ outcome # "none"
    /\ Return(outcome = "transient")
    /\ ExchangeDone
    /\ UNCHANGED <<protocol, letter, cut, bankVars, trustVars>>

ParseKeyResponseLenient(r) ==   \* mutant: the order ID is not looked for
    CASE r \in {"ok", "no_order_id"} -> "returned"
      [] r = "rejected"              -> "none"
      [] OTHER                       -> "pending"

(* _parse_key_initialization_response: a plain success confirms the letter, a *)
(* single rejection code withdraws it, anything else leaves it open.          *)
ParseKeyResponse(r) ==
    CASE r = "ok"       -> "returned"
      [] r = "rejected" -> "none"
      [] OTHER          -> "pending"

(* initialize_signature_key, initialize_auth_encryption_keys *)
KeySubmitted ==
    /\ hpc = "op" /\ call \in KeyOrders /\ outcome # "none"
    /\ letter' = [letter EXCEPT ![call] =
            CASE outcome = "body" -> ParseKeyResponse(reply)
              [] outcome \in {"ambiguous", "transport", "limit"} -> "pending"
              [] OTHER -> "none"]
    /\ Return(outcome = "transient")
    /\ ExchangeDone
    /\ reply' = "none"
    /\ UNCHANGED <<protocol, cut, registered, submitted, bankKeys, stale, trustVars>>

(* _parse_hpb_response: the answer is encrypted to the subscriber and not     *)
(* signed by anyone, so that it may hold any pair that validates now.         *)
HpbKeys == KeyPairs \ stale

(* fetch_bank_keys: the pair becomes a candidate and nothing more. *)
BankKeysFetched ==
    /\ hpc = "op" /\ call = "HPB" /\ outcome # "none"
    /\ IF outcome = "body" THEN candidate' \in {candidate} \cup HpbKeys
                           ELSE UNCHANGED candidate
    /\ Return(FALSE)
    /\ ExchangeDone
    /\ UNCHANGED <<protocol, letter, cut, bankVars, pin, using, accepted>>

(* The first exchange of a discovery or download; the rest of it is modelled  *)
(* by MetadataDiscovery and BtdDownload.                                      *)
TrustedOperation ==
    /\ hpc = "op" /\ call \in TrustedOps /\ outcome # "none"
    /\ Return(FALSE)
    /\ ExchangeDone
    /\ using' = NoKeys
    /\ UNCHANGED <<protocol, letter, cut, bankVars, candidate, pin, accepted>>

Stop == hpc # "idle" /\ ControlStops /\ UNCHANGED <<hostVars, bankVars, trustVars>>

Network == NetStep /\ UNCHANGED <<hostVars, bankVars, trustVars>>

(* External: the host process is lost, and the letter of its call with it. *)
HostLost ==
    /\ hpc # "idle"
    /\ hpc' = "idle" /\ call' = "none" /\ protocol' = FALSE
    /\ cut' = cut \cup ({call} \cap KeyOrders)
    /\ net' = "off" /\ outcome' = "none" /\ reached' = FALSE /\ late' = FALSE
    /\ declared' = NoLength /\ received' = 0 /\ ord' = "none"
    /\ reply' = "none" /\ using' = NoKeys /\ candidate' = NoKeys
    /\ UNCHANGED <<letter, mayCall, registered, submitted, bankKeys, stale, pin, accepted>>

Next ==
    \/ \E o \in Operations, given \in BOOLEAN : StartCall(o, given)
    \/ Begin \/ PreparationFails \/ Send \/ Network \/ Stop
    \/ Negotiated \/ NotNegotiated \/ KeySubmitted \/ BankKeysFetched \/ TrustedOperation
    \/ HostLost
    \/ AcceptBankKeys \/ CertificatesSwapped \/ BankRotatesKeys

Spec == Init /\ [][Next]_vars

-----------------------------------------------------------------------------
(* Properties *)

(* A host that repeats only what classify_retry calls transient submits each  *)
(* key at most once, however often calls fail before or after sending.        *)
KeySubmittedAtMostOnce == \A o \in KeyOrders : submitted[o] <= 1

(* Whenever the bank has a key, the host has its letter, returned or as       *)
(* pending_letter of AmbiguousInitializationError, unless its process was     *)
(* lost: no deadline, limit, HTTP or TLS error hides the registration.        *)
RegisteredKeyHasLetter ==
    \A o \in KeyOrders : registered[o] /\ call # o => letter[o] # "none" \/ o \in cut

(* A letter that is returned as final belongs to a key the bank has; one that *)
(* the bank may not know is only ever pending.                                *)
ReturnedLetterIsRegistered ==
    \A o \in KeyOrders : letter[o] = "returned" => registered[o]

(* Not even the version negotiation of a discovery or download begins without *)
(* keys the operator has accepted, also when the bank rotates its keys, a     *)
(* candidate was fetched, or the certificates on file were replaced.          *)
OnlyAcceptedKeysUsed ==
    call \in TrustedOps /\ (net # "off" \/ outcome # "none") => using \in accepted
=============================================================================
