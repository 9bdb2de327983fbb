------------------------- MODULE VersionNegotiation -------------------------
(***************************************************************************)
(* HEV: parse_hev_response(), VersionDiscovery and select_h005().  The     *)
(* answer is not signed.  It is a record of its form (root and fields as   *)
(* H000 has them), its return code and the versions it advertises, in      *)
(* order, as pairs of protocol and version number.                         *)
(***************************************************************************)
EXTENDS Naturals, FiniteSets, Sequences, SequencesExt

Supported == [protocol |-> "H005", version |-> "03.00"]

HevForms ==
    [wellFormed: BOOLEAN, code: STRING, versions: Seq([protocol: STRING, version: STRING])]

NoVersion == [kind |-> "refused"]
Unsupported == [kind |-> "unsupported"]
Negotiated == [kind |-> "protocol"]

(* by_protocol.setdefault(): the first version advertised with a protocol. *)
VersionFor(versions, protocol) ==
    versions[SelectInSeq(versions, LAMBDA v : v.protocol = protocol)].version

(* by_version.setdefault() *)
ProtocolFor(versions, number) ==
    versions[SelectInSeq(versions, LAMBDA v : v.version = number)].protocol

AdvertisementOneWay(versions) ==   \* mutant: only by_protocol is compared
    /\ versions # <<>> /\ IsInjective(versions)
    /\ \A v \in ToSet(versions) : VersionFor(versions, v.protocol) = v.version

(* VersionDiscovery: some version, none twice, and no later entry that        *)
(* contradicts an earlier one.                                                *)
Advertisement(versions) ==
    /\ versions # <<>> /\ IsInjective(versions)
    /\ \A v \in ToSet(versions) : /\ VersionFor(versions, v.protocol) = v.version
                                  /\ ProtocolFor(versions, v.version) = v.protocol

(* parse_hev_response *)
ParseHev(hev) == hev.wellFormed /\ hev.code = "000000" /\ Advertisement(hev.versions)

(* probe_versions of the client: HEV, then select_h005. *)
ProbeVersions(hev) ==
    IF ~ParseHev(hev) THEN NoVersion
    ELSE IF Supported \in ToSet(hev.versions) THEN Negotiated
    ELSE Unsupported

-----------------------------------------------------------------------------
(* The advertisement as a relation, in no order. *)
OneToOne(pairs) ==
    \A u, v \in pairs : (u.protocol = v.protocol) <=> (u.version = v.version)

(* H005 is used exactly if the bank says without contradiction, neither about *)
(* the protocol nor about the number and in whatever order, that it is 03.00; *)
(* that it is missing is said only of a consistent answer.  There is no       *)
(* downgrade and no guess.                                                    *)
NegotiationIsExact(hev, answer) ==
    LET pairs == ToSet(hev.versions)
        consistent == /\ hev.wellFormed /\ hev.code = "000000" /\ pairs # {}
                      /\ OneToOne(pairs) /\ Len(hev.versions) = Cardinality(pairs)
    IN  /\ answer.kind = "protocol" <=> consistent /\ Supported \in pairs
        /\ answer.kind = "unsupported" <=> consistent /\ Supported \notin pairs
=============================================================================
