--------------------------- MODULE GenerationEvidence ---------------------------
(***************************************************************************)
(* The evidence of a deployment generation and of a signing policy         *)
(* (packages/operations/src/evidence.ts).                                  *)
(*                                                                         *)
(* A payload stands for what is signed, by its digest: the root it belongs *)
(* to, the generation, its status and its content, which for a deployment  *)
(* is the manifest. Whoever holds signatures puts a document together: the *)
(* order of its times, its paths and its release are his to state, and     *)
(* left out. Documents are not withdrawn: what verified once verifies      *)
(* always.                                                                 *)
(***************************************************************************)
EXTENDS Integers, Sequences, SequencesExt, FiniteSets

CONSTANTS
    Payloads,      \* [root, generation, status, content]
    Registered,    \* the keys the verifier knows for each root
    Mistaken,      \* those that sign anything
    Reviewed       \* payloads that the others sign

Roots == {"deployment", "signing-policy"}

Statuses == {"staged", "active", "retired", "emergency-disabled"}

ASSUME EvidenceConstants ==
    /\ \A p \in Payloads : /\ p.root \in Roots /\ p.generation \in Nat
                           /\ p.status \in Statuses
    /\ DOMAIN Registered = Roots
    /\ Reviewed \subseteq Payloads

\* One keeper of each root may sign anything.
ASSUME OneIsMistaken ==
    \A root \in Roots : \A k, l \in Registered[root] \cap Mistaken : k = l

VARIABLE published    \* the reviewed payloads that are signed

EvidenceInit == published = {}

\* The keepers of the keys sign what was reviewed and promoted.
Publish(p) == p \in Reviewed \ published /\ published' = published \cup {p}

SignedBy(p) == {k \in Registered[p.root] : k \in Mistaken \/ p \in published}

\* Documents that can be put together of a payload.
Documents(root) ==
    UNION {[payload : {p}, continuity : {"successor", "tombstone"},
            signers : {<<k>> : k \in SignedBy(p)} \cup (SignedBy(p) \X SignedBy(p))] :
           p \in {q \in Payloads : q.root = root}}

\* A tombstone disables the generation it names, with its content unchanged; a
\* successor of another generation disables nothing.
ValidContinuity(d) ==
    IF d.continuity = "tombstone" THEN d.payload.status = "emergency-disabled"
    ELSE d.payload.generation = 0 \/ d.payload.status # "emergency-disabled"

RequiredCount(d) == IF d.continuity = "tombstone" THEN 1 ELSE 2

\* Fault: the signatures are counted, not the keys.
ValidSignatures_AnyKeys(d) == Len(d.signers) = RequiredCount(d)

ValidSignatures(d) ==
    /\ Len(d.signers) = RequiredCount(d)
    /\ IsInjective(d.signers)

Valid(d) == ValidContinuity(d) /\ ValidSignatures(d)

\* The two documents that verifyGenerationEvidenceRoots() takes.
VerifiedRoots(d, p) ==
    Valid(d) /\ Valid(p) /\ Range(d.signers) \cap Range(p.signers) = {}

ActiveDocuments(root) == {d \in Documents(root) : d.payload.status = "active"}

\* The deployments that actions are prepared of: those of which a caller can
\* show active evidence, and an active policy.
ActiveDeployments ==
    {d.payload : d \in
        {e \in ActiveDocuments("deployment") :
            \E p \in ActiveDocuments("signing-policy") : VerifiedRoots(e, p)}}
=============================================================================
