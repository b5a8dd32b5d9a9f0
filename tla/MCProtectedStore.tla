-------------------------- MODULE MCProtectedStore --------------------------
(* ProtectedStore on small devices: the default Catalog, up to two         *)
(* applications and one component without a payload.                       *)
EXTENDS ProtectedStore, TLC

CONSTANTS cat0, appA, appB, plain0, d1, d2, p1, p2

MCNone == {}
MCApps == {appA, appB}
MCOneApp == {appA}
MCPlain == {plain0}
MCDigests == {d1, d2}
MCPayloads == {p1, p2}
MCOnePayload == {p1}

\* No legacy object, or one that lists the Catalog at sequence 1.
MCNoLegacy == {NoSequences}
MCCatalogLegacy == {NoSequences, [NoSequences EXCEPT ![cat0] = 1]}
\* A legacy object that leaves room for one application of two, and one that lists both
\* and is full.
MCFull == {[NoSequences EXCEPT ![cat0] = 2, ![plain0] = 2],
           [NoSequences EXCEPT ![cat0] = 1, ![appA] = 0, ![appB] = 0]}

\* Every slot can be read, or one of them fails to be read now and then.
MCReadable == {{}}
MCUnreadable == {{}, {0}, {1}}

\* Digests and payloads are only compared, so their names do not matter.
MCSymmetry == Permutations(MCDigests) \cup Permutations(MCPayloads)
MCDigestSymmetry == Permutations(MCDigests)
MCAppSymmetry == Permutations(MCDigests) \cup Permutations(MCApps)

============================================================================
