----------------------------- MODULE MCHostHome -----------------------------
(* A manager in two versions, of which the second asks for less, on a home *)
(* of an older release or a new one.                                       *)
EXTENDS GuestAccess

CONSTANTS manager, m1, m2, doc, note, image, baseline, template, w1, w2, i1, target

MCContent == [a \in Artifacts |->
    CASE a \in {m1, m2} -> "extension" [] a = doc -> "document"
      [] a = note -> "note" [] OTHER -> "asset"]
MCSubject == [a \in {m1, m2} |-> manager]
Manages == {"composition-write", "runtime-policy-write", "world-session-write",
            "world-session-read", "artifact-import", "asset-import",
            "user-resource-import", "user-resource-read"}
MCAsks == [a \in {m1, m2} |-> IF a = m1 THEN Manages ELSE Manages \ {"asset-import"}]

\* The manager of the host and that of one world run in the store of a target
\* provider; that of the other world has its own.
MCStore(o) == IF o[1] = w2 THEN o ELSE target
MCShared == {target}

\* A home of an older release, with the manager as a default of new worlds; or an
\* empty one.
MCInit ==
    /\ AccessInit
    /\ \/ Init
       \/ \E marked \in BOOLEAN : LegacyInit([x \in {manager} |->
            [artifact |-> m1, id |-> manager, on |-> TRUE, marked |-> marked]])
MCNext == (Next /\ Forgotten) \/ AccessNext
MCSpec == MCInit /\ [][MCNext]_allVars
=============================================================================
