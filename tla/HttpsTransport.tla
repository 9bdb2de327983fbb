--------------------------- MODULE HttpsTransport ---------------------------
(***************************************************************************)
(* HttpsTransport.exchange() of transport.py: one POST to the bank under   *)
(* the caller's deadline, a bounded read of the response, and the          *)
(* classification of everything that can go wrong on the way.              *)
(*                                                                         *)
(* An exchange is over when `outcome` is set: "body", or the class of the  *)
(* exception it raises.  "stopped" is OperationDeadlineError or            *)
(* OperationCancelledError, "other" any exception the code does not name.  *)
(***************************************************************************)
EXTENDS Naturals

CONSTANTS
    MaxResponse,   \* max_response_bytes
    ChunkSize,     \* most bytes asked for in one read (64 KiB)
    MaxLength,     \* bound: largest Content-Length a response declares here
    NoLength       \* the response declares no Content-Length

ASSUME TransportAssumption ==
    /\ MaxResponse \in Nat \ {0} /\ ChunkSize \in Nat \ {0}
    /\ MaxLength \in Nat /\ MaxLength > MaxResponse
    /\ NoLength \notin Nat

VARIABLES
    net,        \* "off", "connect", "sent", "body", "end"
    ord,        \* order type of the request
    declared,   \* Content-Length of the response, or NoLength
    received,   \* bytes read so far
    late,       \* the control is cancelled or its deadline has passed
    reached,    \* bytes of this request may have left the host
    outcome     \* result of the exchange

netVars == <<net, ord, declared, received, late, reached, outcome>>

InitializationOrders == {"INI", "HIA"}
OrderTypes == InitializationOrders \cup {"none", "HEV", "HPB", "HPD", "BTD"}
Outcomes == {"none", "body", "transient", "ambiguous", "transport", "limit", "stopped", "other"}

NetTypeOK ==
    /\ net \in {"off", "connect", "sent", "body", "end"}
    /\ ord \in OrderTypes
    /\ declared \in 0..MaxLength \cup {NoLength}
    /\ received \in 0..(MaxResponse + 1)
    /\ late \in BOOLEAN /\ reached \in BOOLEAN
    /\ outcome \in Outcomes

NetInit ==
    /\ net = "off" /\ ord = "none" /\ declared = NoLength /\ received = 0
    /\ late = FALSE /\ reached = FALSE /\ outcome = "none"

-----------------------------------------------------------------------------
ClassifyUrlErrorTransient(o, e) ==   \* mutant: an unreachable bank means nothing was sent
    IF e \in {"certificate", "url"} THEN "transient"
    ELSE IF e = "os" \/ o \in InitializationOrders THEN "ambiguous"
    ELSE IF e \in {"limit", "stopped", "other"} THEN e
    ELSE "transport"

ClassifyStopAsIs(o, e) ==   \* mutant: a deadline is reported as such for every order
    IF e = "certificate" THEN "transient"
    ELSE IF e = "stopped" THEN e
    ELSE IF e \in {"url", "os"} \/ o \in InitializationOrders THEN "ambiguous"
    ELSE IF e \in {"limit", "other"} THEN e
    ELSE "transport"

(* The except clauses of exchange().  e is what was raised: "certificate"     *)
(* (URLError with SSLCertVerificationError), "tls" (any other SSLError),      *)
(* "url" (other URLError), "os" (TimeoutError, OSError), "http" (HTTPError),  *)
(* "transport" (redirect, conflicting or short length), "limit", "stopped",   *)
(* "other".                                                                   *)
Classify(o, e) ==
    IF e = "certificate" THEN "transient"
    ELSE IF e \in {"url", "os"} \/ o \in InitializationOrders THEN "ambiguous"
    ELSE IF e \in {"limit", "stopped", "other"} THEN e
    ELSE "transport"

Raise(e) == net' = "off" /\ outcome' = Classify(ord, e)

(* _remaining_timeout comes first, outside the try statement. *)
BeginExchange(o) ==
    /\ net = "off" /\ outcome = "none"
    /\ ord' = o
    /\ IF late THEN outcome' = "stopped" /\ UNCHANGED net
               ELSE net' = "connect" /\ UNCHANGED outcome
    /\ declared' = NoLength /\ received' = 0 /\ reached' = FALSE
    /\ UNCHANGED late

(* Name resolution, connection, proxy and TLS handshake *)
ConnectionFails ==
    /\ net = "connect"
    /\ \E e \in {"certificate", "tls", "url", "other"} : Raise(e)
    /\ UNCHANGED <<ord, declared, received, late, reached>>

SendRequest ==
    /\ net = "connect"
    /\ net' = "sent" /\ reached' = TRUE
    /\ UNCHANGED <<ord, declared, received, late, outcome>>

(* The connection breaks while the request is written or the response is      *)
(* awaited, or the status line is an error or a redirect.                     *)
NoResponse ==
    /\ net = "sent"
    /\ \E e \in {"url", "os", "tls", "http", "transport", "other"} : Raise(e)
    /\ UNCHANGED <<ord, declared, received, late, reached>>

(* _read_bounded, up to its loop: the declared length is checked first. *)
ResponseHead ==
    /\ net = "sent"
    /\ \E n \in 0..MaxLength \cup {NoLength} :
          IF n # NoLength /\ n > MaxResponse
          THEN Raise("limit") /\ UNCHANGED declared
          ELSE declared' = n /\ net' = "body" /\ UNCHANGED outcome
    /\ UNCHANGED <<ord, received, late, reached>>

ReadChunkUncapped(n) ==   \* mutant: every read asks for a whole chunk
    /\ net = "body" /\ ~late
    /\ received <= MaxResponse /\ received # declared
    /\ n <= ChunkSize
    /\ declared # NoLength => n <= declared - received
    /\ received' = received + n
    /\ UNCHANGED <<net, ord, declared, late, reached, outcome>>

(* One read; the last one asks for one byte more than is allowed. *)
ReadChunk(n) ==
    /\ net = "body" /\ ~late
    /\ received <= MaxResponse /\ received # declared
    /\ n <= ChunkSize /\ n <= MaxResponse + 1 - received
    /\ declared # NoLength => n <= declared - received
    /\ received' = received + n
    /\ UNCHANGED <<net, ord, declared, late, reached, outcome>>

(* The deadline is checked before each read; a read may fail. *)
ReadFails ==
    /\ net = "body" /\ received <= MaxResponse /\ received # declared
    /\ \E e \in IF late THEN {"stopped"} ELSE {"os", "tls", "transport", "other"} : Raise(e)
    /\ UNCHANGED <<ord, declared, received, late, reached>>

EndOfBodyShort ==   \* mutant: the declared length is not compared at the end
    /\ net = "body"
    /\ IF received > MaxResponse THEN Raise("limit") ELSE net' = "end" /\ UNCHANGED outcome
    /\ UNCHANGED <<ord, declared, received, late, reached>>

(* The loop ends at the declared length, at the limit, or at the end of the   *)
(* stream, which may come early.                                              *)
EndOfBody ==
    /\ net = "body"
    /\ IF received > MaxResponse THEN Raise("limit")
       ELSE IF declared \notin {NoLength, received} THEN Raise("transport")
       ELSE net' = "end" /\ UNCHANGED outcome
    /\ UNCHANGED <<ord, declared, received, late, reached>>

(* The deadline is checked once more before the body is returned. *)
EndExchange ==
    /\ net = "end"
    /\ IF late THEN Raise("stopped") ELSE net' = "off" /\ outcome' = "body"
    /\ UNCHANGED <<ord, declared, received, late, reached>>

ControlStops == ~late /\ late' = TRUE
                /\ UNCHANGED <<net, ord, declared, received, reached, outcome>>

(* Every step of an exchange except sending, which the bank takes part in. *)
NetStep ==
    \/ ConnectionFails \/ NoResponse \/ ResponseHead
    \/ \E n \in 1..ChunkSize : ReadChunk(n)
    \/ ReadFails \/ EndOfBody \/ EndExchange

(* The properties of an exchange. *)

(* A returned body is within the limit and as long as it was declared to be,  *)
(* and never more than one byte over the limit is held in memory.             *)
BodyBounded ==
    /\ received <= MaxResponse + 1
    /\ outcome = "body" => received <= MaxResponse /\ declared \in {NoLength, received}
=============================================================================
