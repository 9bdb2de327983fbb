--------------------------- MODULE BtdDocumented ---------------------------
(***************************************************************************)
(* Statements that the repository's documentation and messages make about  *)
(* BTD downloads and that the code, as modelled, does not live up to.      *)
(***************************************************************************)
EXTENDS MCBtdDownload

(* The AmbiguousTransportError of download() says that                        *)
(* resolve_ambiguous_receipt "closes the session out" (backend.py:1686).      *)
(* After a negative receipt it refuses to, and nothing else ends the session. *)
AmbiguityClosedOut ==
    EventuallyUndisturbed => \A s \in Sessions :
        [](state[s] # NoSession /\ state[s].phase = "receipt_ambiguous"
             => <>(state[s] = NoSession \/ state[s].phase \in TerminalPhases))

(* architecture.md:131 says an uncertain network outcome after sending either *)
(* receipt becomes receipt_ambiguous.  A call that gives up waiting because   *)
(* its deadline has passed holds an expired lease and cannot record it.       *)
UnknownOutcomeRecorded ==
    [][\A w \in Workers :
          pc[w] = "await" /\ pc'[w] = "release" /\ bank[mem[w].txn].fate = "inflight"
             => state'[Sid(w)].phase = "receipt_ambiguous"]_vars

(* threat-model.md:133 says BTD claims each transaction ID in the same        *)
(* operation that records initialized state.  The file store writes the claim *)
(* first; a crash in between leaves a claim no session will ever use.         *)
ClaimedTogetherWithSession ==
    [][\A t \in claims' \ claims : \E s \in Sessions : TxnOf(s)' = t]_vars

(* interfaces.py:137 says list_segments recovers the index after a process    *)
(* restart, and examples/README.md:25 that a restarted worker can recover     *)
(* safely.  A process lost inside put_segment leaves a file whose name is no  *)
(* number, and from then on every call for the session raises ValueError.     *)
RestartedWorkerRecovers ==
    EventuallyUndisturbed => \A s \in Sessions : <>[]Settled(s)
=============================================================================
