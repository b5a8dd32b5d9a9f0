-------------------------- MODULE AcceptanceLedger --------------------------
(***************************************************************************)
(* What the TA's protected transactions promise (docs/ABI.md, D043, D047   *)
(* and M9.3): one ledger whose every change is a single step that consumes *)
(* a QueryResponse digest, advances the generation by one and one          *)
(* component to a strictly newer sequence, and with it switches the        *)
(* Catalog or the application that is served.  Nothing else is ever        *)
(* visible: no half-written record, no rollback, no other component.       *)
(*                                                                         *)
(* The weaknesses of the implementation are part of the promise: a crash   *)
(* while generation 1 is being written can leave a ledger that can no      *)
(* longer be read (LoseFirstCommit), and an acceptance without a payload   *)
(* of a component that has one leaves open what is served for it (Accept). *)
(***************************************************************************)
EXTENDS ProtectedApp

VARIABLES available, generation, sequences, digest, catalog, application

ledgerVars ==
    <<available, generation, sequences, digest, catalog, application>>

NoApplication == [component |-> NoComponent, payload |-> NoPayload]
Applications == [component : Apps, payload : Payloads] \cup {NoApplication}

Init ==
    /\ available \in BOOLEAN
    /\ generation \in 0..MaxGeneration
    /\ available => generation = 0 /\ digest = NoDigest
    /\ sequences \in SequenceMap
    /\ digest \in Digests \cup {NoDigest}
    /\ catalog = NoPayload
    /\ application = NoApplication

\* One acceptance: the digest is new, the sequence newer, and there is room.
Advance(comp, seq, d) ==
    /\ available
    /\ generation < MaxGeneration
    /\ seq > sequences[comp]
    /\ d # digest
    /\ sequences[comp] = Unknown =>
         Cardinality({c \in Component : sequences[c] # Unknown}) # MaxComponents
    /\ sequences' = [sequences EXCEPT ![comp] = seq]
    /\ digest' = d
    /\ UNCHANGED available

(***************************************************************************)
(* An acceptance without a payload.  For a component that has one the      *)
(* stored payload may be left behind, or one that was staged for this      *)
(* sequence and abandoned may become the one served.                       *)
(***************************************************************************)
Accept(comp, seq, d) ==
    /\ Advance(comp, seq, d)
    /\ \/ catalog' = catalog
       \/ comp = Catalog /\ catalog' \in Payloads \cup {NoPayload}
    /\ \/ application' = application
       \/ /\ comp \in Apps
          /\ comp \in {application.component, application'.component}
          /\ application' \in Applications

(***************************************************************************)
(* A Catalog component that was imported from the legacy map without a     *)
(* stored Catalog can never be installed.                                  *)
(***************************************************************************)
InstallCatalog(seq, d, payload) ==
    /\ Advance(Catalog, seq, d)
    /\ sequences[Catalog] # Unknown => catalog # NoPayload
    /\ catalog' = payload
    /\ UNCHANGED application

InstallApplication(comp, seq, d, payload) ==
    /\ Advance(comp, seq, d)
    /\ application' = [component |-> comp, payload |-> payload]
    /\ UNCHANGED catalog

LoseFirstCommit ==
    /\ available
    /\ generation = 0
    /\ available' = FALSE
    /\ UNCHANGED <<generation, sequences, digest, catalog, application>>

Next ==
    \/ /\ generation' = generation + 1
       /\ \E s \in 1..MaxSequence, d \in Digests :
            \/ \E c \in Component : Accept(c, s, d)
            \/ \E p \in Payloads :
                 \/ InstallCatalog(s, d, p)
                 \/ \E c \in Apps : InstallApplication(c, s, d, p)
    \/ LoseFirstCommit

Spec == Init /\ [][Next]_ledgerVars

============================================================================
