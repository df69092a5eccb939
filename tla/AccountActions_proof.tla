------------------------- MODULE AccountActions_proof -------------------------
(***************************************************************************)
(* Proofs about AccountActions, for every set of payloads, of which one    *)
(* keeper of each root signs any, every set of requests, every Safe and    *)
(* every length of the chain.                                              *)
(***************************************************************************)
EXTENDS AccountActions, SequenceTheorems, TLAPS

allVars == <<actionVars, safeVars, active>>

(* What is finalized is reviewed.                                          *)

\* Two keepers sign only what was published.
LEMMA TwoSignersPublish ==
    ASSUME NEW root \in Roots, NEW p \in Payloads, p.root = root,
           NEW k \in SignedBy(p), NEW l \in SignedBy(p), k # l
    PROVE  p \in published
  BY OneIsMistaken DEF SignedBy

\* Valid active evidence is signed by two.
LEMMA ActiveIsSigned ==
    ASSUME NEW d \in Documents("deployment"), Valid(d), d.payload.status = "active"
    PROVE  d.payload \in published
  <1>1. PICK p \in {q \in Payloads : q.root = "deployment"} :
            d \in [payload : {p}, continuity : {"successor", "tombstone"},
                   signers : {<<k>> : k \in SignedBy(p)} \cup (SignedBy(p) \X SignedBy(p))]
    BY DEF Documents
  <1>2. d.payload = p /\ p.root = "deployment" /\ p \in Payloads
    BY <1>1
  <1>3. d.continuity # "tombstone"
    BY DEF Valid, ValidContinuity
  <1>4. Len(d.signers) = 2 /\ IsInjective(d.signers)
    BY <1>3 DEF Valid, ValidSignatures, RequiredCount
  <1>5. d.signers \in SignedBy(p) \X SignedBy(p)
    <2>1. ASSUME NEW k \in SignedBy(p) PROVE d.signers # <<k>>
      <3>1. Len(<<k>>) = 1
        OBVIOUS
      <3> QED
        BY <1>4, <3>1
    <2> QED
      BY <1>1, <2>1
  <1>6. d.signers[1] \in SignedBy(p) /\ d.signers[2] \in SignedBy(p) /\ DOMAIN d.signers = {1, 2}
    BY <1>5
  <1>7. d.signers[1] # d.signers[2]
    BY <1>4, <1>6 DEF IsInjective
  <1> QED
    BY <1>2, <1>6, <1>7, TwoSignersPublish DEF Roots

LEMMA ActiveIsPublished == ActiveDeployments \subseteq published
  <1> SUFFICES ASSUME NEW d \in ActiveDeployments PROVE d \in published
    OBVIOUS
  <1>1. PICK e \in ActiveDocuments("deployment") :
            d = e.payload /\ \E p \in ActiveDocuments("signing-policy") : VerifiedRoots(e, p)
    BY DEF ActiveDeployments
  <1>2. e \in Documents("deployment") /\ e.payload.status = "active" /\ Valid(e)
    BY <1>1 DEF ActiveDocuments, VerifiedRoots
  <1> QED
    BY <1>1, <1>2, ActiveIsSigned

\* The artifact is made again of the evidence at hand, so that of an execution is
\* of a deployment that was published.
LEMMA FinalizedStep ==
    FinalizedIsReviewed /\ [Next]_allVars => FinalizedIsReviewed'
  <1> SUFFICES ASSUME FinalizedIsReviewed, [Next]_allVars PROVE FinalizedIsReviewed'
    OBVIOUS
  <1>1. CASE UNCHANGED <<finalized, published>>
    BY <1>1 DEF FinalizedIsReviewed
  <1>2. CASE Surroundings
    BY <1>2 DEF Surroundings, Publish, FinalizedIsReviewed
  <1>3. ASSUME NEW d \in ActiveDeployments, NEW w \in Wrappers, FinalizeExact(prepared, d, w)
        PROVE  FinalizedIsReviewed'
    <2>1. prepared.deployment = d
      BY <1>3 DEF FinalizeExact, ExactArtifact
    <2>2. ExactExecution(prepared, w).artifact = prepared
      BY DEF ExactExecution
    <2>3. finalized' = finalized \cup {ExactExecution(prepared, w)} /\ published' = published
      BY <1>3 DEF FinalizeExact
    <2> QED
      BY <2>1, <2>2, <2>3, ActiveIsPublished DEF FinalizedIsReviewed
  <1>4. ASSUME NEW d \in ActiveDeployments, FinalizeUnwind(prepared, d)
        PROVE  FinalizedIsReviewed'
    <2>1. prepared.deployment = d
      BY <1>4 DEF FinalizeUnwind, UnwindArtifact
    <2>2. UnwindExecution(prepared).artifact = prepared
      BY DEF UnwindExecution
    <2>3. finalized' = finalized \cup {UnwindExecution(prepared)} /\ published' = published
      BY <1>4 DEF FinalizeUnwind
    <2> QED
      BY <2>1, <2>2, <2>3, ActiveIsPublished DEF FinalizedIsReviewed
  <1>5. CASE UseActions
    <2>1. ASSUME NEW d \in ActiveDeployments,
                 \/ PrepareExact(d)
                 \/ \E n \in 0 .. MaxDecimals : PrepareUnwind(d, n)
                 \/ \E e \in finalized : Agreed(e, d) \/ NotAgreed(e, d)
          PROVE  UNCHANGED <<finalized, published>>
      BY <2>1 DEF PrepareExact, PrepareUnwind, Agreed, NotAgreed, Reconciles
    <2>2. ASSUME NEW e \in finalized, Sent(e) PROVE UNCHANGED <<finalized, published>>
      BY <2>2 DEF Sent
    <2>3. ASSUME NEW t \in DOMAIN sent, NEW b \in DOMAIN blocks, Observe(t, b)
          PROVE  UNCHANGED <<finalized, published>>
      BY <2>3 DEF Observe
    <2> QED
      BY <1>1, <1>2, <1>3, <1>4, <1>5, <2>1, <2>2, <2>3 DEF UseActions, ActionNext
  <1>6. CASE UseSafe
    BY <1>1, <1>6 DEF UseSafe, actionVars
  <1>7. CASE UNCHANGED allVars
    BY <1>1, <1>7 DEF allVars, actionVars
  <1> QED
    BY <1>5, <1>6, <1>7 DEF Next

\* Nothing is finalized for a deployment that its keepers did not review
\* (finalizeExactSpendAction and finalizePairedSharesUnwind, over the evidence
\* that verifyDeploymentManifest accepts).
THEOREM OnlyReviewedIsFinalized == Spec => []FinalizedIsReviewed
  <1>1. Init => FinalizedIsReviewed
    BY DEF Init, ActionInit, FinalizedIsReviewed
  <1>2. QED
    BY <1>1, FinalizedStep, PTL DEF Spec, allVars

-----------------------------------------------------------------------------
(* The wrappers of a Safe.                                                 *)

SafeTypes == safe \in Seq(Authorities) /\ Len(safe) > 0

Nonces == 0 .. CurrentNonce

IsObserved(a) == \E n \in Nonces : a.configuration = Configuration(n)

\* A wrapper is of a configuration that was read at its nonce; as long as that is
\* the nonce of the Safe, its messages are those of the present owners.
IsSound(w) ==
    /\ w.nonce \in Nonces
    /\ w.authorization.configuration = Configuration(w.nonce)
    /\ ValidConfiguration(w.authorization.configuration)
    /\ w.nonce = CurrentNonce => Verified(w.authorization.messages)
    /\ \E a \in authorizations :
        /\ a.messages = w.authorization.messages
        /\ AuthorityDigest(a.configuration) = AuthorityDigest(w.authorization.configuration)

SafeInv ==
    /\ SafeTypes
    /\ \A a \in authorizations : IsObserved(a)
    /\ \A w \in wrappers : IsSound(w)

LEMMA SameAuthority ==
    ASSUME NEW c, NEW d, NEW n, c = [f \in DOMAIN c |-> c[f]], d = [f \in DOMAIN d |-> d[f]],
           "nonce" \in DOMAIN c, "nonce" \in DOMAIN d, d.nonce = n,
           AuthorityDigest(c) = AuthorityDigest(d)
    PROVE  [c EXCEPT !.nonce = n] = d
  <1>1. DOMAIN c \ {"nonce"} = DOMAIN d \ {"nonce"}
    BY DEF AuthorityDigest
  <1>2. DOMAIN c = DOMAIN d
    BY <1>1
  <1>3. ASSUME NEW f \in DOMAIN c, f # "nonce" PROVE c[f] = d[f]
    <2>1. AuthorityDigest(c)[f] = c[f] /\ AuthorityDigest(d)[f] = d[f]
      BY <1>2, <1>3 DEF AuthorityDigest
    <2> QED
      BY <2>1
  <1> QED
    BY <1>2, <1>3

LEMMA ConfigurationShape ==
    ASSUME NEW n \in Nonces
    PROVE  LET c == Configuration(n) IN
           /\ c = [f \in DOMAIN c |-> c[f]] /\ "nonce" \in DOMAIN c /\ c.nonce = n
  BY DEF Configuration

\* What was read of the past is not changed by what the Safe does.
LEMMA ConfigurationKept ==
    ASSUME SafeTypes, NEW authority \in Authorities, SafeTransaction(authority), NEW n \in Nonces
    PROVE  /\ Configuration(n)' = Configuration(n)
           /\ n \in Nonces' /\ n # CurrentNonce'
  <1>1. /\ Len(safe') = Len(safe) + 1
        /\ \A i \in 1 .. Len(safe) : safe'[i] = safe[i]
    BY DEF SafeTypes, SafeTransaction
  <1>2. Len(safe) \in Nat
    BY DEF SafeTypes
  <1>3. n + 1 \in 1 .. Len(safe)
    BY <1>2 DEF Nonces, CurrentNonce
  <1>4. safe'[n + 1] = safe[n + 1]
    BY <1>1, <1>3
  <1>5. n \in Nonces' /\ n # CurrentNonce'
    BY <1>1, <1>2 DEF Nonces, CurrentNonce
  <1> QED
    BY <1>4, <1>5 DEF Configuration

\* A wrapper that is dead stays dead.
LEMMA TransactionStep ==
    ASSUME SafeInv, NEW authority \in Authorities, SafeTransaction(authority)
    PROVE  SafeInv'
  <1>1. authorizations' = authorizations /\ wrappers' = wrappers
    BY DEF SafeTransaction
  <1>2. SafeTypes'
    BY DEF SafeInv, SafeTypes, SafeTransaction
  <1>3. ASSUME NEW a \in authorizations PROVE IsObserved(a)'
    <2>1. PICK n \in Nonces : a.configuration = Configuration(n)
      BY DEF SafeInv, IsObserved
    <2>2. n \in Nonces' /\ a.configuration = Configuration(n)'
      BY <2>1, ConfigurationKept DEF SafeInv
    <2> QED
      BY <2>2 DEF IsObserved
  <1>4. ASSUME NEW w \in wrappers PROVE IsSound(w)'
    <2>1. IsSound(w)
      BY DEF SafeInv
    <2>2. /\ Configuration(w.nonce)' = Configuration(w.nonce)
          /\ w.nonce \in Nonces' /\ w.nonce # CurrentNonce'
      BY <2>1, ConfigurationKept DEF SafeInv, IsSound
    <2> QED
      BY <1>1, <2>1, <2>2 DEF IsSound
  <1> QED
    BY <1>1, <1>2, <1>3, <1>4 DEF SafeInv

LEMMA AuthorizeStep ==
    ASSUME SafeInv, NEW n \in Nonces, NEW signer, NEW messages,
           AuthorizeSafePermitMessages(Configuration(n), signer, messages)
    PROVE  SafeInv'
  <1> DEFINE a == [configuration |-> Configuration(n), messages |-> messages]
  <1>1. authorizations' = authorizations \cup {a} /\ safe' = safe /\ wrappers' = wrappers
    BY DEF AuthorizeSafePermitMessages
  <1>2. Nonces' = Nonces /\ CurrentNonce' = CurrentNonce /\ SafeTypes'
    BY <1>1 DEF SafeInv, SafeTypes, Nonces, CurrentNonce
  <1>3. \A m \in Nonces : Configuration(m)' = Configuration(m)
    BY <1>1 DEF Configuration
  <1>4. IsObserved(a)
    BY DEF IsObserved
  <1>5. \A b \in authorizations' : IsObserved(b)'
    BY <1>1, <1>2, <1>3, <1>4 DEF SafeInv, IsObserved
  <1>6. ASSUME NEW w \in wrappers PROVE IsSound(w)'
    <2>1. IsSound(w)
      BY DEF SafeInv
    <2>2. Verified(w.authorization.messages)' = Verified(w.authorization.messages)
      BY <1>1 DEF Verified
    <2> QED
      BY <1>1, <1>2, <1>3, <2>1, <2>2 DEF IsSound
  <1> QED
    BY <1>1, <1>2, <1>5, <1>6 DEF SafeInv

\* What BuildWrapper() adds: its messages verify now, and were authorized under the
\* authority of the configuration.
LEMMA BuildStep ==
    ASSUME SafeInv, NEW n \in Nonces, NEW authorization, NEW a \in authorizations,
           ValidConfiguration(Configuration(n)), Verified(authorization.messages),
           BuildWrapper(Configuration(n), authorization),
           a.messages = authorization.messages,
           AuthorityDigest(a.configuration) = AuthorityDigest(authorization.configuration)
    PROVE  SafeInv'
  <1> DEFINE w == [nonce |-> Configuration(n).nonce,
                   authorization |-> Rebuilt(authorization, Configuration(n))]
  <1>1. /\ wrappers' = wrappers \cup {w} /\ safe' = safe /\ authorizations' = authorizations
        /\ AuthorityDigest(authorization.configuration) = AuthorityDigest(Configuration(n))
    BY DEF BuildWrapper
  <1>2. Nonces' = Nonces /\ CurrentNonce' = CurrentNonce /\ SafeTypes'
    BY <1>1 DEF SafeInv, SafeTypes, Nonces, CurrentNonce
  <1>3. \A m \in Nonces : Configuration(m)' = Configuration(m)
    BY <1>1 DEF Configuration
  <1>4. w.nonce = n /\ w.authorization.configuration = Configuration(n)
        /\ w.authorization.messages = authorization.messages
    BY ConfigurationShape DEF Rebuilt
  <1>5. IsSound(w)
    BY <1>1, <1>4 DEF IsSound
  <1>6. ASSUME NEW v \in wrappers' PROVE IsSound(v)'
    <2>1. IsSound(v)
      BY <1>1, <1>5 DEF SafeInv
    <2>2. Verified(v.authorization.messages)' = Verified(v.authorization.messages)
      BY <1>1 DEF Verified
    <2> QED
      BY <1>1, <1>2, <1>3, <2>1, <2>2 DEF IsSound
  <1>7. \A b \in authorizations' : IsObserved(b)'
    BY <1>1, <1>2, <1>3 DEF SafeInv, IsObserved
  <1> QED
    BY <1>2, <1>6, <1>7 DEF SafeInv

LEMMA SafeStep == SafeInv /\ [Next]_allVars => SafeInv'
  <1> SUFFICES ASSUME SafeInv, [Next]_allVars PROVE SafeInv'
    OBVIOUS
  <1>1. CASE UNCHANGED safeVars
    <2>1. Nonces' = Nonces /\ CurrentNonce' = CurrentNonce /\ SafeTypes'
      BY <1>1 DEF SafeInv, SafeTypes, Nonces, CurrentNonce, safeVars
    <2>2. \A m \in Nonces : Configuration(m)' = Configuration(m)
      BY <1>1 DEF Configuration, safeVars
    <2>3. \A b \in authorizations' : IsObserved(b)'
      BY <1>1, <2>1, <2>2 DEF SafeInv, IsObserved, safeVars
    <2>4. ASSUME NEW v \in wrappers' PROVE IsSound(v)'
      <3>1. IsSound(v)
        BY <1>1 DEF SafeInv, safeVars
      <3>2. Verified(v.authorization.messages)' = Verified(v.authorization.messages)
        BY <1>1 DEF Verified, safeVars
      <3>3. authorizations' = authorizations
        BY <1>1 DEF safeVars
      <3> QED
        BY <2>1, <2>2, <3>1, <3>2, <3>3 DEF IsSound
    <2> QED
      BY <2>1, <2>3, <2>4 DEF SafeInv
  <1>2. ASSUME NEW n \in Nonces, NEW a \in authorizations,
               CreateSafeExecutionWrapper(Configuration(n), a)
        PROVE  SafeInv'
    BY <1>2, BuildStep DEF CreateSafeExecutionWrapper, PermitAuthorizationValid
  <1>3. ASSUME NEW n \in Nonces, NEW w \in wrappers,
               RebuildSafeWrapperForNonce(w, Configuration(n))
        PROVE  SafeInv'
    <2>1. PICK a \in authorizations :
            /\ a.messages = w.authorization.messages
            /\ AuthorityDigest(a.configuration) = AuthorityDigest(w.authorization.configuration)
      BY DEF SafeInv, IsSound
    <2> QED
      BY <1>3, <2>1, BuildStep DEF RebuildSafeWrapperForNonce, PermitAuthorizationValid
  <1>4. CASE UseSafe
    BY <1>2, <1>3, <1>4, TransactionStep, AuthorizeStep DEF UseSafe, SafeNext, Nonces
  <1>5. CASE UseActions
    BY <1>1, <1>5 DEF UseActions
  <1>6. CASE UNCHANGED allVars
    BY <1>1, <1>6 DEF allVars, safeVars
  <1> QED
    BY <1>4, <1>5, <1>6 DEF Next

\* A wrapper that the Safe can still execute carries messages that its owners, as
\* they are then, validate, and that were authorized under just this authority
\* (createSafeExecutionWrapper, rebuildSafeWrapperForNonce).
THEOREM WrappersAreAuthorized == Spec => []WrapperIsAuthorized
  <1>1. Init => SafeInv
    <2> SUFFICES ASSUME Init PROVE SafeInv
      OBVIOUS
    <2>1. safe \in [{1} -> Authorities] /\ authorizations = {} /\ wrappers = {}
      BY DEF Init, SafeInit
    <2>2. PICK b \in Authorities : safe = <<b>>
      <3>1. safe[1] \in Authorities /\ safe = [i \in 1 .. 1 |-> safe[1]]
        BY <2>1
      <3>2. safe = <<safe[1]>>
        BY <3>1
      <3> QED
        BY <3>1, <3>2
    <2> QED
      BY <2>1, <2>2 DEF SafeInv, SafeTypes
  <1>2. SafeInv => WrapperIsAuthorized
    <2> SUFFICES ASSUME SafeInv, NEW w \in wrappers, w.nonce = CurrentNonce
                 PROVE  /\ ValidConfiguration(Configuration(w.nonce))
                        /\ Verified(w.authorization.messages)
                        /\ \E a \in authorizations :
                            /\ a.messages = w.authorization.messages
                            /\ [a.configuration EXCEPT !.nonce = w.nonce] = Configuration(w.nonce)
      BY DEF WrapperIsAuthorized
    <2>1. IsSound(w)
      BY DEF SafeInv
    <2>2. PICK a \in authorizations :
            /\ a.messages = w.authorization.messages
            /\ AuthorityDigest(a.configuration) = AuthorityDigest(Configuration(w.nonce))
      BY <2>1 DEF IsSound
    <2>3. PICK n \in Nonces : a.configuration = Configuration(n)
      BY DEF SafeInv, IsObserved
    <2>4. [a.configuration EXCEPT !.nonce = w.nonce] = Configuration(w.nonce)
      BY <2>1, <2>2, <2>3, ConfigurationShape, SameAuthority DEF IsSound
    <2> QED
      BY <2>1, <2>2, <2>4 DEF IsSound
  <1>3. QED
    BY <1>1, <1>2, SafeStep, PTL DEF Spec, allVars

-----------------------------------------------------------------------------
(* The shares of an intent.                                                *)

IsSeq(s) == \E S : s \in Seq(S)

LEMMA AppendShape ==
    ASSUME NEW s, IsSeq(s), NEW e
    PROVE  /\ IsSeq(Append(s, e))
           /\ DOMAIN s = 1 .. Len(s) /\ Len(s) \in Nat
           /\ DOMAIN Append(s, e) = 1 .. Len(s) + 1
           /\ \A i \in DOMAIN s : Append(s, e)[i] = s[i]
           /\ Append(s, e)[Len(s) + 1] = e
  <1>1. PICK S : s \in Seq(S)
    BY DEF IsSeq
  <1>2. s \in Seq(S \cup {e})
    BY <1>1, SeqMonotonic
  <1>3. Append(s, e) \in Seq(S \cup {e})
    BY <1>2
  <1> QED
    BY <1>2, <1>3 DEF IsSeq

\* Executions are of what was asked for; those of an intent use its two nonces.
ExecutionsInv ==
    /\ prepared # Nothing => prepared.request = request
    /\ \A e \in finalized :
        /\ e.artifact.request = request
        /\ IsUnwind(request) => e.permits = AdjacentNonces(e.artifact)
    /\ IsSeq(sent)
    /\ \A t \in DOMAIN sent : sent[t] \in finalized

\* What was executed up to a block used no nonce twice.
NoncesOnce(done) ==
    /\ IsSeq(done)
    /\ \A i \in DOMAIN done : done[i].tx \in DOMAIN sent
    /\ \A i, j \in DOMAIN done :
        i # j /\ done[i].result = "success" /\ done[j].result = "success" =>
            sent[done[i].tx].permits \cap sent[done[j].tx].permits = {}

BlockInv(b) == DOMAIN b = {"number", "balance", "done"} /\ NoncesOnce(b.done)

ChainInv ==
    /\ IsSeq(blocks)
    /\ branch \in Seq(DOMAIN blocks) /\ Len(branch) > 0
    /\ \A i \in DOMAIN blocks : BlockInv(blocks[i])

OnceInv == ExecutionsInv /\ ChainInv

LEMMA ExecuteStep ==
    ASSUME NEW done, NoncesOnce(done), NEW e, e.tx \in DOMAIN sent,
           e.result = "success" => sent[e.tx].permits \cap Permits(done) = {}
    PROVE  NoncesOnce(Append(done, e))
  <1> DEFINE after == Append(done, e)
  <1>1. /\ IsSeq(after) /\ DOMAIN after = DOMAIN done \cup {Len(done) + 1}
        /\ \A i \in DOMAIN done : after[i] = done[i]
        /\ after[Len(done) + 1] = e
    <2>1. IsSeq(done)
      BY DEF NoncesOnce
    <2> QED
      BY <2>1, AppendShape
  <1>2. ASSUME NEW i \in DOMAIN done, done[i].result = "success", e.result = "success"
        PROVE  sent[done[i].tx].permits \cap sent[e.tx].permits = {}
    <2>1. sent[done[i].tx].permits \subseteq Permits(done)
      BY <1>2 DEF Permits
    <2> QED
      BY <1>2, <2>1
  <1> HIDE DEF after
  <1>3. \A i \in DOMAIN after : after[i].tx \in DOMAIN sent
    BY <1>1 DEF NoncesOnce
  <1>4. ASSUME NEW i \in DOMAIN after, NEW j \in DOMAIN after, i # j,
               after[i].result = "success", after[j].result = "success"
        PROVE  sent[after[i].tx].permits \cap sent[after[j].tx].permits = {}
    <2>1. CASE i \in DOMAIN done /\ j \in DOMAIN done
      BY <1>1, <1>4, <2>1 DEF NoncesOnce
    <2>2. CASE i \in DOMAIN done /\ j = Len(done) + 1
      BY <1>1, <1>2, <1>4, <2>2
    <2>3. CASE i = Len(done) + 1 /\ j \in DOMAIN done
      BY <1>1, <1>2, <1>4, <2>3
    <2> QED
      BY <1>1, <1>4, <2>1, <2>2, <2>3
  <1>5. NoncesOnce(after)
    BY <1>1, <1>3, <1>4 DEF NoncesOnce
  <1> QED
    BY <1>5 DEF after

LEMMA GrowStep ==
    ASSUME ChainInv, NEW n \in DOMAIN branch, NEW block, BlockInv(block), Grow(n, block)
    PROVE  ChainInv'
  <1>1. blocks' = Append(blocks, block) /\ sent' = sent
        /\ branch' = Append(SubSeq(branch, 1, n), Len(blocks) + 1)
    BY DEF Grow
  <1>2. /\ IsSeq(blocks') /\ DOMAIN blocks' = DOMAIN blocks \cup {Len(blocks) + 1}
        /\ \A i \in DOMAIN blocks : blocks'[i] = blocks[i]
        /\ blocks'[Len(blocks) + 1] = block
    BY <1>1, AppendShape DEF ChainInv
  <1>3. branch' \in Seq(DOMAIN blocks') /\ Len(branch') > 0
    <2>1. branch \in Seq(DOMAIN blocks')
      BY <1>2, SeqMonotonic DEF ChainInv
    <2>2. SubSeq(branch, 1, n) \in Seq(DOMAIN blocks')
      BY <2>1
    <2> QED
      BY <1>1, <1>2, <2>2
  <1>4. ASSUME NEW b, BlockInv(b) PROVE BlockInv(b)'
    BY <1>1, <1>4 DEF BlockInv, NoncesOnce
  <1>5. \A i \in DOMAIN blocks' : BlockInv(blocks'[i])
    BY <1>2 DEF ChainInv
  <1>6. \A i \in DOMAIN blocks' : BlockInv(blocks[i])'
    BY <1>1, <1>5 DEF BlockInv, NoncesOnce
  <1> QED
    BY <1>2, <1>3, <1>6 DEF ChainInv

LEMMA ChainStep ==
    ASSUME ChainInv, ChainNext
    PROVE  ChainInv'
  <1>1. CASE UNCHANGED <<blocks, branch, sent>>
    BY <1>1 DEF ChainInv, BlockInv, NoncesOnce
  <1>2. ASSUME NEW n \in DOMAIN branch, Others(n) PROVE ChainInv'
    <2>1. PICK b \in 0 .. MaxBalance :
            Grow(n, [blocks[branch[n]] EXCEPT !.number = n + 1, !.balance = b])
      BY <1>2 DEF Others
    <2>2. BlockInv(blocks[branch[n]])
      BY DEF ChainInv
    <2>3. BlockInv([blocks[branch[n]] EXCEPT !.number = n + 1, !.balance = b])
      BY <2>2 DEF BlockInv
    <2> QED
      BY <2>1, <2>3, GrowStep
  <1>3. ASSUME NEW n \in DOMAIN branch, NEW t \in DOMAIN sent, Execute(n, t) PROVE ChainInv'
    <2> DEFINE parent == blocks[branch[n]]
    <2>1. PICK result \in {"success", "revert"}, effects \in BOOLEAN, cost \in Costs :
            /\ MustRevert(sent[t], parent.done, cost) => result = "revert"
            /\ LET end == parent.balance + Left(sent[t], result, cost) IN
               Grow(n, [parent EXCEPT !.number = n + 1, !.balance = end,
                    !.done = Append(@, [tx |-> t, number |-> n + 1, result |-> result,
                        effects |-> effects, start |-> parent.balance, end |-> end])])
      BY <1>3 DEF Execute
    <2> DEFINE end == parent.balance + Left(sent[t], result, cost)
               e == [tx |-> t, number |-> n + 1, result |-> result,
                     effects |-> effects, start |-> parent.balance, end |-> end]
               block == [parent EXCEPT !.number = n + 1, !.balance = end, !.done = Append(@, e)]
    <2>2. BlockInv(parent)
      BY DEF ChainInv
    <2>3. e.result = "success" => sent[e.tx].permits \cap Permits(parent.done) = {}
      BY <2>1 DEF MustRevert
    <2>4. NoncesOnce(Append(parent.done, e))
      BY <2>2, <2>3, ExecuteStep DEF BlockInv
    <2>5. Grow(n, block)
      BY <2>1
    <2> HIDE DEF end, e
    <2>6. DOMAIN block = DOMAIN parent /\ block.done = Append(parent.done, e)
      BY <2>2 DEF BlockInv
    <2> QED
      BY <2>2, <2>4, <2>5, <2>6, GrowStep DEF BlockInv
  <1> QED
    BY <1>1, <1>2, <1>3 DEF ChainNext, Tick, BecomeFinal

\* What was sent stays what it is.
LEMMA SentStep ==
    ASSUME OnceInv, NEW e \in finalized, Sent(e)
    PROVE  OnceInv'
  <1>1. /\ sent' = Append(sent, e)
        /\ UNCHANGED <<blocks, branch, request, prepared, finalized>>
    BY DEF Sent, Send
  <1>2. /\ IsSeq(sent') /\ DOMAIN sent' = DOMAIN sent \cup {Len(sent) + 1}
        /\ \A t \in DOMAIN sent : sent'[t] = sent[t]
        /\ sent'[Len(sent) + 1] = e
    BY <1>1, AppendShape DEF OnceInv, ExecutionsInv
  <1>3. ExecutionsInv'
    BY <1>1, <1>2 DEF OnceInv, ExecutionsInv, IsUnwind
  <1>4. ASSUME NEW b, BlockInv(b) PROVE BlockInv(b)'
    BY <1>2, <1>4 DEF BlockInv, NoncesOnce
  <1>5. ChainInv'
    BY <1>1, <1>4 DEF OnceInv, ChainInv
  <1> QED
    BY <1>3, <1>5 DEF OnceInv

LEMMA FinalizeStep ==
    ASSUME OnceInv, NEW e,
           finalized' = finalized \cup {e}, prepared' = Nothing, UNCHANGED <<request, chainVars>>,
           e.artifact.request = request,
           IsUnwind(request) => e.permits = AdjacentNonces(e.artifact)
    PROVE  OnceInv'
  <1>1. UNCHANGED <<blocks, branch, sent>>
    BY DEF chainVars
  <1>2. ExecutionsInv'
    BY <1>1 DEF OnceInv, ExecutionsInv, IsUnwind
  <1>3. ChainInv'
    BY <1>1 DEF OnceInv, ChainInv, BlockInv, NoncesOnce
  <1> QED
    BY <1>2, <1>3 DEF OnceInv

LEMMA OnceKept ==
    ASSUME OnceInv, UNCHANGED <<request, finalized, blocks, branch, sent>>,
           prepared' = prepared \/ prepared' = Nothing \/ prepared'.request = request
    PROVE  OnceInv'
  <1>1. ExecutionsInv'
    BY DEF OnceInv, ExecutionsInv, IsUnwind
  <1>2. ChainInv'
    BY DEF OnceInv, ChainInv, BlockInv, NoncesOnce
  <1> QED
    BY <1>1, <1>2 DEF OnceInv

LEMMA OnceStep == OnceInv /\ [Next]_allVars => OnceInv'
  <1> SUFFICES ASSUME OnceInv, [Next]_allVars PROVE OnceInv'
    OBVIOUS
  <1>1. CASE Surroundings
    <2>1. UNCHANGED <<request, finalized, prepared>>
      BY <1>1 DEF Surroundings
    <2>2. CASE UNCHANGED chainVars
      BY <2>1, <2>2, OnceKept DEF chainVars
    <2>3. CASE ChainNext
      <3>1. ChainInv'
        BY <2>3, ChainStep DEF OnceInv
      <3>2. sent' = sent
        <4>1. ASSUME NEW n, Others(n) PROVE sent' = sent
          BY <4>1 DEF Others, Grow
        <4>2. ASSUME NEW n, NEW t, Execute(n, t) PROVE sent' = sent
          BY <4>2 DEF Execute, Grow
        <4> QED
          BY <2>3, <4>1, <4>2 DEF ChainNext, Tick, BecomeFinal
      <3>3. ExecutionsInv'
        BY <2>1, <3>2 DEF OnceInv, ExecutionsInv, IsUnwind
      <3> QED
        BY <3>1, <3>3 DEF OnceInv
    <2> QED
      BY <1>1, <2>2, <2>3 DEF Surroundings
  <1>2. ASSUME NEW d, NEW n, PrepareExact(d) \/ PrepareUnwind(d, n) PROVE OnceInv'
    <2>1. prepared'.request = request
      BY <1>2 DEF PrepareExact, PrepareUnwind, ExactArtifact, UnwindArtifact
    <2>2. UNCHANGED <<request, finalized, chainVars>>
      BY <1>2 DEF PrepareExact, PrepareUnwind
    <2> QED
      BY <2>1, <2>2, OnceKept DEF chainVars
  <1>3. ASSUME NEW d, NEW w, prepared # Nothing, FinalizeExact(prepared, d, w) PROVE OnceInv'
    <2>1. ExactExecution(prepared, w).artifact.request = request
      BY <1>3 DEF ExactExecution, OnceInv, ExecutionsInv
    <2>2. /\ finalized' = finalized \cup {ExactExecution(prepared, w)} /\ prepared' = Nothing
          /\ UNCHANGED <<request, chainVars>> /\ ~IsUnwind(request)
      BY <1>3 DEF FinalizeExact
    <2> QED
      BY <2>1, <2>2, FinalizeStep
  <1>4. ASSUME NEW d, prepared # Nothing, FinalizeUnwind(prepared, d) PROVE OnceInv'
    <2>1. /\ UnwindExecution(prepared).artifact.request = request
          /\ UnwindExecution(prepared).permits = AdjacentNonces(UnwindExecution(prepared).artifact)
      BY <1>4 DEF UnwindExecution, OnceInv, ExecutionsInv
    <2>2. /\ finalized' = finalized \cup {UnwindExecution(prepared)} /\ prepared' = Nothing
          /\ UNCHANGED <<request, chainVars>>
      BY <1>4 DEF FinalizeUnwind
    <2> QED
      BY <2>1, <2>2, FinalizeStep
  <1>5. ASSUME NEW e, NEW d, Agreed(e, d) \/ NotAgreed(e, d) PROVE OnceInv'
    <2>1. UNCHANGED <<request, finalized, prepared, chainVars>>
      BY <1>5 DEF Agreed, NotAgreed, Reconciles
    <2> QED
      BY <2>1, OnceKept DEF chainVars
  <1>6. ASSUME NEW t, NEW b, Observe(t, b) PROVE OnceInv'
    <2>1. UNCHANGED <<request, finalized, prepared, chainVars>>
      BY <1>6 DEF Observe
    <2> QED
      BY <2>1, OnceKept DEF chainVars
  <1>7. CASE UseActions
    BY <1>1, <1>2, <1>3, <1>4, <1>5, <1>6, <1>7, SentStep DEF UseActions, ActionNext
  <1>8. CASE UseSafe \/ UNCHANGED allVars
    <2>1. UNCHANGED actionVars
      BY <1>8 DEF UseSafe, allVars
    <2>2. UNCHANGED <<request, finalized, prepared, chainVars>>
      BY <2>1 DEF actionVars
    <2> QED
      BY <2>2, OnceKept DEF chainVars
  <1> QED
    BY <1>7, <1>8 DEF Next

LEMMA InitOnce == Init => OnceInv
  <1> SUFFICES ASSUME Init PROVE OnceInv
    OBVIOUS
  <1>1. ExecutionsInv
    <2>1. sent = <<>> /\ finalized = {} /\ prepared = Nothing
      BY DEF Init, ActionInit, ChainInit
    <2>2. IsSeq(<<>>) /\ DOMAIN <<>> = {}
      BY DEF IsSeq
    <2> QED
      BY <2>1, <2>2 DEF ExecutionsInv
  <1>2. ChainInv
    <2> DEFINE b == [number |-> 1, balance |-> 0, done |-> <<>>]
    <2>1. blocks = <<b>> /\ branch = <<1>>
      BY DEF Init, ActionInit, ChainInit
    <2>2. IsSeq(<<b>>) /\ DOMAIN <<b>> = {1} /\ <<b>>[1] = b
      <3> HIDE DEF b
      <3>1. <<b>> \in Seq({b}) /\ <<b>>[1] = b
        OBVIOUS
      <3>2. DOMAIN <<b>> = 1 .. 1 /\ 1 .. 1 = {1}
        OBVIOUS
      <3>3. IsSeq(<<b>>)
        BY <3>1 DEF IsSeq
      <3> QED
        BY <3>1, <3>2, <3>3
    <2>3. IsSeq(<<>>) /\ DOMAIN <<>> = {}
      BY DEF IsSeq
    <2>4. BlockInv(b)
      <3>1. DOMAIN b = {"number", "balance", "done"} /\ b.done = <<>>
        OBVIOUS
      <3>2. NoncesOnce(<<>>)
        BY <2>3 DEF NoncesOnce
      <3> QED
        BY <3>1, <3>2 DEF BlockInv
    <2>5. <<1>> \in Seq({1}) /\ Len(<<1>>) > 0
      OBVIOUS
    <2> HIDE DEF b
    <2> QED
      BY <2>1, <2>2, <2>4, <2>5 DEF ChainInv
  <1> QED
    BY <1>1, <1>2 DEF OnceInv

\* However often an intent is prepared, finalized and sent, its shares are consumed
\* once: its nonces are made of what identifies it alone (adjacentNonces).
THEOREM IntentConsumesOnce == Spec => []SharesConsumedOnce
  <1>1. Init => OnceInv
    BY InitOnce
  <1>2. OnceInv => SharesConsumedOnce
    <2> SUFFICES ASSUME OnceInv, NEW i \in DOMAIN Latest.done, NEW j \in DOMAIN Latest.done,
                        Latest.done[i].result = "success", Latest.done[j].result = "success",
                        IsUnwind(sent[Latest.done[i].tx].artifact.request),
                        i # j
                 PROVE  FALSE
      BY DEF SharesConsumedOnce
    <2> DEFINE e == sent[Latest.done[i].tx]
               f == sent[Latest.done[j].tx]
    <2>1. branch[Len(branch)] \in DOMAIN blocks
      BY DEF OnceInv, ChainInv
    <2>2. NoncesOnce(Latest.done)
      BY <2>1 DEF OnceInv, ChainInv, BlockInv, Latest
    <2>3. e \in finalized /\ f \in finalized
      BY <2>2 DEF NoncesOnce, OnceInv, ExecutionsInv
    <2>4. e.permits \cap f.permits = {}
      BY <2>2 DEF NoncesOnce
    <2> HIDE DEF e, f
    <2>5. e.artifact.request = request /\ f.artifact.request = request /\ IsUnwind(request)
      BY <2>3 DEF OnceInv, ExecutionsInv, e
    <2>6. e.permits = AdjacentNonces(e.artifact) /\ f.permits = AdjacentNonces(f.artifact)
      BY <2>3, <2>5 DEF OnceInv, ExecutionsInv
    <2>7. <<OperationId(request), "cpt">> \in e.permits \cap f.permits
      BY <2>5, <2>6 DEF AdjacentNonces
    <2> QED
      BY <2>4, <2>7
  <1>3. QED
    BY <1>1, <1>2, OnceStep, PTL DEF Spec, allVars

-----------------------------------------------------------------------------
(* What a reconciliation says is true.                                     *)

Done(n) == blocks[branch[n]].done

\* What was executed before goes on, and what is new is of a higher block.
Continues(done, parent, n) ==
    /\ \A i \in DOMAIN parent : i \in DOMAIN done /\ done[i] = parent[i]
    /\ \A i \in DOMAIN done : done[i].number <= n => i \in DOMAIN parent

IsEntry(d) == d.number \in Nat /\ d.result \in {"success", "revert"}

HistoryInv ==
    /\ final \in 1 .. Len(branch)
    /\ \A b \in DOMAIN blocks : \A i \in DOMAIN blocks[b].done :
            IsEntry(blocks[b].done[i])
    /\ \A n, m \in 1 .. Len(branch) : n <= m => Continues(Done(m), Done(n), n)

\* Blocks and transactions stay what they are, what is replaced stays so, and what
\* is final goes on.
Steady ==
    /\ \A b \in DOMAIN blocks : b \in DOMAIN blocks' /\ blocks'[b] = blocks[b]
    /\ \A b \in DOMAIN blocks : b \notin Range(branch) => b \notin Range(branch')
    /\ \A t \in DOMAIN sent : t \in DOMAIN sent' /\ sent'[t] = sent[t]
    /\ \A i \in DOMAIN Done(final) :
            i \in DOMAIN Done(final)' /\ Done(final)'[i] = Done(final)[i]

LEMMA BranchShape ==
    ASSUME OnceInv
    PROVE  /\ Len(branch) \in Nat /\ DOMAIN branch = 1 .. Len(branch)
           /\ \A n \in 1 .. Len(branch) : branch[n] \in DOMAIN blocks
           /\ Len(blocks) \in Nat /\ DOMAIN blocks = 1 .. Len(blocks)
  <1>1. branch \in Seq(DOMAIN blocks)
    BY DEF OnceInv, ChainInv
  <1>2. PICK S : blocks \in Seq(S)
    BY DEF OnceInv, ChainInv, IsSeq
  <1> QED
    BY <1>1, <1>2, LenProperties, ElementOfSeq

LEMMA GrowKeepsHistory ==
    ASSUME OnceInv, HistoryInv, NEW n \in DOMAIN branch, NEW block, Grow(n, block),
           Continues(block.done, Done(n), n),
           \A i \in DOMAIN block.done : IsEntry(block.done[i])
    PROVE  HistoryInv' /\ Steady
  <1> DEFINE k == Len(blocks) + 1
  <1>1. /\ Len(blocks) \in Nat /\ DOMAIN blocks = 1 .. Len(blocks)
        /\ Len(branch) \in Nat /\ DOMAIN branch = 1 .. Len(branch)
        /\ \A i \in 1 .. Len(branch) : branch[i] \in DOMAIN blocks
    BY BranchShape
  <1>2. /\ DOMAIN blocks' = 1 .. k /\ blocks'[k] = block
        /\ \A b \in DOMAIN blocks : blocks'[b] = blocks[b]
    <2>1. blocks' = Append(blocks, block) /\ IsSeq(blocks)
      BY DEF Grow, OnceInv, ChainInv
    <2> QED
      BY <1>1, <2>1, AppendShape
  <1>3. /\ final \in 1 .. n /\ n \in 1 .. Len(branch)
        /\ final' = final /\ sent' = sent
    BY <1>1 DEF HistoryInv, Grow
  <1>4. /\ DOMAIN branch' = 1 .. n + 1 /\ Len(branch') = n + 1 /\ branch'[n + 1] = k
        /\ \A i \in 1 .. n : branch'[i] = branch[i]
    <2>1. branch' = Append(SubSeq(branch, 1, n), k)
      BY DEF Grow
    <2>2. branch \in Seq(Nat)
      <3>1. branch \in Seq(DOMAIN blocks) /\ DOMAIN blocks \subseteq Nat
        BY <1>1 DEF OnceInv, ChainInv
      <3> QED
        BY <3>1, SeqMonotonic
    <2>3. /\ SubSeq(branch, 1, n) \in Seq(Nat) /\ Len(SubSeq(branch, 1, n)) = n
          /\ \A i \in 1 .. n : SubSeq(branch, 1, n)[i] = branch[i]
      BY <1>1, <1>3, <2>2
    <2>4. k \in Nat
      BY <1>1
    <2> HIDE DEF k
    <2> QED
      BY <1>3, <2>1, <2>3, <2>4, AppendProperties
  <1>5. \A i \in 1 .. n : Done(i)' = Done(i)
    BY <1>1, <1>2, <1>3, <1>4 DEF Done
  <1>6. Done(n + 1)' = block.done
    BY <1>2, <1>4 DEF Done
  <1>7. ASSUME NEW i \in 1 .. n + 1, NEW m \in 1 .. n + 1, i <= m
        PROVE  Continues(Done(m)', Done(i)', i)
    <2>1. CASE m <= n
      <3>1. Continues(Done(m), Done(i), i)
        BY <1>1, <1>3, <1>7, <2>1 DEF HistoryInv
      <3>2. Done(m)' = Done(m) /\ Done(i)' = Done(i)
        BY <1>3, <1>5, <1>7, <2>1
      <3> QED
        BY <3>1, <3>2
    <2>2. CASE m = n + 1 /\ i <= n
      <3>1. Continues(Done(n), Done(i), i)
        BY <1>1, <1>3, <1>7, <2>2 DEF HistoryInv
      <3>2. Done(m)' = block.done /\ Done(i)' = Done(i)
        BY <1>3, <1>5, <1>6, <1>7, <2>2
      <3>3. ASSUME NEW j \in DOMAIN block.done, block.done[j].number <= i
            PROVE  j \in DOMAIN Done(n)
        <4>1. block.done[j].number \in Nat
          BY DEF IsEntry
        <4>2. block.done[j].number <= n
          BY <1>3, <2>2, <3>3, <4>1
        <4> QED
          BY <4>2 DEF Continues
      <3>4. Continues(block.done, Done(i), i)
        BY <3>1, <3>3 DEF Continues
      <3> QED
        BY <3>2, <3>4
    <2>3. CASE m = n + 1 /\ i = n + 1
      BY <1>6, <2>3 DEF Continues
    <2> QED
      BY <1>3, <2>1, <2>2, <2>3
  <1>8. HistoryInv'
    <2>1. \A b \in DOMAIN blocks' : \A i \in DOMAIN blocks'[b].done : IsEntry(blocks'[b].done[i])
      <3>1. \A b \in DOMAIN blocks' : b = k \/ b \in DOMAIN blocks
        BY <1>1, <1>2
      <3> QED
        BY <1>2, <3>1 DEF HistoryInv
    <2>2. final' \in 1 .. Len(branch')
      BY <1>3, <1>4
    <2>3. \A i, m \in 1 .. Len(branch') : i <= m => Continues(Done(m)', Done(i)', i)
      BY <1>4, <1>7
    <2> QED
      BY <2>1, <2>2, <2>3 DEF HistoryInv
  <1>9. ASSUME NEW b \in DOMAIN blocks, b \notin Range(branch) PROVE b \notin Range(branch')
    <2>1. ASSUME NEW i \in 1 .. n PROVE branch'[i] # b
      <3>1. i \in DOMAIN branch /\ branch'[i] = branch[i]
        BY <1>1, <1>3, <1>4
      <3> QED
        BY <1>9, <3>1 DEF Range
    <2>2. b # k
      BY <1>1
    <2> QED
      BY <1>4, <2>1, <2>2 DEF Range
  <1>10. Done(final)' = Done(final)
    BY <1>3, <1>5
  <1> QED
    BY <1>1, <1>2, <1>3, <1>8, <1>9, <1>10 DEF Steady

LEMMA ChainKeepsHistory ==
    ASSUME OnceInv, HistoryInv, ChainNext
    PROVE  HistoryInv' /\ Steady
  <1>1. CASE Tick
    BY <1>1 DEF Tick, HistoryInv, Steady, Done
  <1>2. CASE BecomeFinal
    <2>1. UNCHANGED <<blocks, branch, sent>> /\ final' = final + 1
          /\ final \in 1 .. Len(branch) /\ final' \in 1 .. Len(branch)
      BY <1>2, BranchShape DEF BecomeFinal, HistoryInv
    <2>2. HistoryInv'
      BY <2>1 DEF HistoryInv, Done
    <2>3. Continues(Done(final'), Done(final), final)
      BY <2>1 DEF HistoryInv
    <2>4. Done(final)' = Done(final')
      BY <2>1 DEF Done
    <2> QED
      BY <2>1, <2>2, <2>3, <2>4 DEF Steady, Continues
  <1>3. ASSUME NEW n \in DOMAIN branch, Others(n) PROVE HistoryInv' /\ Steady
    <2> DEFINE parent == blocks[branch[n]]
    <2>1. PICK b \in 0 .. MaxBalance : Grow(n, [parent EXCEPT !.number = n + 1, !.balance = b])
      BY <1>3 DEF Others
    <2> DEFINE block == [parent EXCEPT !.number = n + 1, !.balance = b]
    <2>2. branch[n] \in DOMAIN blocks /\ parent.done = Done(n)
      BY BranchShape DEF Done
    <2>3. "done" \in DOMAIN parent
      BY <2>2 DEF OnceInv, ChainInv, BlockInv
    <2>4. block.done = Done(n)
      BY <2>2, <2>3
    <2>5. \A i \in DOMAIN Done(n) : IsEntry(Done(n)[i])
      BY <2>2 DEF HistoryInv
    <2>6. Grow(n, block)
      BY <2>1
    <2> HIDE DEF block
    <2> QED
      BY <2>4, <2>5, <2>6, GrowKeepsHistory DEF Continues
  <1>4. ASSUME NEW n \in DOMAIN branch, NEW t \in DOMAIN sent, Execute(n, t)
        PROVE  HistoryInv' /\ Steady
    <2> DEFINE parent == blocks[branch[n]]
    <2>1. PICK result \in {"success", "revert"}, effects \in BOOLEAN, cost \in Costs :
            LET end == parent.balance + Left(sent[t], result, cost) IN
            Grow(n, [parent EXCEPT !.number = n + 1, !.balance = end,
                !.done = Append(@, [tx |-> t, number |-> n + 1, result |-> result,
                    effects |-> effects, start |-> parent.balance, end |-> end])])
      BY <1>4 DEF Execute
    <2> DEFINE end == parent.balance + Left(sent[t], result, cost)
               e == [tx |-> t, number |-> n + 1, result |-> result,
                     effects |-> effects, start |-> parent.balance, end |-> end]
               block == [parent EXCEPT !.number = n + 1, !.balance = end, !.done = Append(@, e)]
    <2>2. branch[n] \in DOMAIN blocks /\ parent.done = Done(n) /\ n \in Nat
      BY BranchShape DEF Done
    <2>3. DOMAIN parent = {"number", "balance", "done"} /\ IsSeq(parent.done)
      BY <2>2 DEF OnceInv, ChainInv, BlockInv, NoncesOnce
    <2>4. IsEntry(e) /\ ~(e.number <= n)
      BY <2>2 DEF IsEntry
    <2>5. Grow(n, block)
      BY <2>1
    <2> HIDE DEF end, e
    <2>6. block.done = Append(Done(n), e)
      BY <2>2, <2>3
    <2> HIDE DEF block
    <2>7. /\ DOMAIN block.done = DOMAIN Done(n) \cup {Len(Done(n)) + 1}
          /\ \A i \in DOMAIN Done(n) : block.done[i] = Done(n)[i]
          /\ block.done[Len(Done(n)) + 1] = e
      BY <2>2, <2>3, <2>6, AppendShape
    <2>8. \A i \in DOMAIN Done(n) : IsEntry(Done(n)[i])
      BY <2>2 DEF HistoryInv
    <2>9. Continues(block.done, Done(n), n)
      BY <2>4, <2>7 DEF Continues
    <2>10. \A i \in DOMAIN block.done : IsEntry(block.done[i])
      BY <2>4, <2>7, <2>8
    <2> QED
      BY <2>5, <2>9, <2>10, GrowKeepsHistory
  <1> QED
    BY <1>1, <1>2, <1>3, <1>4 DEF ChainNext

LEMMA SendKeepsHistory ==
    ASSUME OnceInv, HistoryInv, NEW e, Send(e)
    PROVE  HistoryInv' /\ Steady
  <1>1. \A t \in DOMAIN sent : t \in DOMAIN sent' /\ sent'[t] = sent[t]
    <2>1. IsSeq(sent) /\ sent' = Append(sent, e)
      BY DEF Send, OnceInv, ExecutionsInv
    <2> QED
      BY <2>1, AppendShape
  <1>2. UNCHANGED <<blocks, branch, final>>
    BY DEF Send
  <1> QED
    BY <1>1, <1>2 DEF HistoryInv, Steady, Done

\* What was claimed is so, for good.
IsTrue(c, b) ==
    /\ b \in DOMAIN blocks /\ c.tx \in DOMAIN sent /\ c.execution = sent[c.tx]
    /\ ~c.canonical => b \notin Range(branch)
    /\ c.canonical /\ c.status = "not-found" =>
            \A i \in DOMAIN blocks[b].done : blocks[b].done[i].tx # c.tx
    /\ c.canonical /\ c.status # "not-found" /\ c.finalized =>
            \E i \in DOMAIN Done(final) :
                /\ Done(final)[i].tx = c.tx /\ Done(final)[i].result = c.status
                /\ Done(final)[i].effects = c.effects
                /\ Done(final)[i].start = c.start /\ Done(final)[i].end = c.end

ClaimInv == evidence # Nothing => IsTrue(evidence.claim, evidence.block)

VerdictInv ==
    /\ verdict # Nothing => verdict.tx \in DOMAIN sent /\ verdict.block \in DOMAIN blocks
    /\ VerdictIsTrue

LEMMA ClaimIsTrue ==
    ASSUME OnceInv, HistoryInv, NEW t \in DOMAIN sent, NEW b \in DOMAIN blocks
    PROVE  IsTrue(Claim(t, b), b)
  <1> DEFINE done == blocks[b].done
             found == {i \in DOMAIN done : done[i].tx = t}
             nothing == [execution |-> sent[t], tx |-> t, status |-> "not-found",
                         canonical |-> b \in Range(branch), finalized |-> FALSE,
                         effects |-> FALSE,
                         start |-> blocks[b].balance, end |-> blocks[b].balance]
             of(d) == [nothing EXCEPT !.status = d.result, !.finalized = d.number <= final,
                         !.effects = d.effects, !.start = d.start, !.end = d.end]
  <1>1. CASE found = {} \/ b \notin Range(branch)
    <2>1. Claim(t, b) = nothing
      BY <1>1 DEF Claim
    <2>2. /\ nothing.execution = sent[t] /\ nothing.tx = t /\ nothing.status = "not-found"
          /\ nothing.canonical = (b \in Range(branch))
      OBVIOUS
    <2>3. b \in Range(branch) => \A i \in DOMAIN done : done[i].tx # t
      BY <1>1
    <2> HIDE DEF nothing, found, done
    <2> QED
      BY <2>1, <2>2, <2>3 DEF IsTrue, done
  <1>2. CASE found # {} /\ b \in Range(branch)
    <2> DEFINE i == CHOOSE j \in found : TRUE
               d == done[i]
    <2>1. i \in DOMAIN done /\ d.tx = t
      BY <1>2
    <2>2. Claim(t, b) = of(done[i])
      BY <1>2 DEF Claim
    <2>3. PICK m \in 1 .. Len(branch) : branch[m] = b
      BY <1>2, BranchShape DEF Range
    <2>4. done = Done(m)
      BY <2>3 DEF Done
    <2> HIDE DEF i, found, done
    <2>5. IsEntry(d)
      BY <2>1 DEF HistoryInv, done
    <2>6. /\ of(d).execution = sent[t] /\ of(d).tx = t /\ of(d).status = d.result
          /\ of(d).canonical = (b \in Range(branch)) /\ of(d).finalized = (d.number <= final)
          /\ of(d).effects = d.effects /\ of(d).start = d.start /\ of(d).end = d.end
      <3> HIDE DEF d
      <3> QED
        OBVIOUS
    <2>7. ASSUME d.number <= final
          PROVE  i \in DOMAIN Done(final) /\ Done(final)[i] = d
      <3>1. m <= final \/ final <= m
        BY BranchShape DEF HistoryInv
      <3>2. CASE m <= final
        <4>1. Continues(Done(final), Done(m), m)
          BY <3>2 DEF HistoryInv
        <4> QED
          BY <2>1, <2>4, <4>1 DEF Continues
      <3>3. CASE final <= m
        <4>1. Continues(Done(m), Done(final), final)
          BY <3>3 DEF HistoryInv
        <4> QED
          BY <2>1, <2>4, <2>7, <4>1 DEF Continues
      <3> QED
        BY <3>1, <3>2, <3>3
    <2>8. Claim(t, b) = of(d)
      BY <2>2
    <2> HIDE DEF d, of
    <2> QED
      BY <1>2, <2>1, <2>5, <2>6, <2>7, <2>8 DEF IsTrue, IsEntry
  <1> QED
    BY <1>1, <1>2

\* Of two that agree, one is honest.
LEMMA QuorumIsHonest ==
    ASSUME NEW execution, NEW pair \in Quorums(execution)
    PROVE  pair[1].value = evidence.claim
  <1> DEFINE left == pair[1]  right == pair[2]
  <1>1. left \in Observations(execution) /\ right \in Observations(execution)
    BY DEF Quorums
  <1>2. /\ Administration[left.provider] # Administration[right.provider]
        /\ left.value = right.value
    BY DEF Quorums, QuorumCode, Independent
  <1> HIDE DEF left, right
  <1>3. ASSUME NEW o \in Observations(execution)
        PROVE  o.provider \in {"liar", "accomplice"} \/ o.value = evidence.claim
    <2>1. CASE o \in Lies(execution)
      BY <2>1 DEF Lies, Observed
    <2>2. CASE \E p \in {"honest", "liar", "accomplice"} :
                o = Observed(p, evidence.claim.tx, evidence.block, evidence.claim)
      BY <2>2 DEF Observed
    <2> QED
      BY <2>1, <2>2 DEF Observations
  <1>4. left.value = evidence.claim
    BY <1>1, <1>2, <1>3, DishonestAreOne
  <1> QED
    BY <1>4 DEF left

LEMMA SteadyClaim ==
    ASSUME OnceInv, HistoryInv, Steady, NEW c, NEW b, IsTrue(c, b)
    PROVE  IsTrue(c, b)'
  BY DEF Steady, IsTrue

LEMMA SteadyVerdict ==
    ASSUME OnceInv, HistoryInv, Steady, VerdictInv, verdict' = verdict
    PROVE  VerdictInv'
  <1>1. CASE verdict = Nothing
    <2>1. verdict.status = "none"
      BY <1>1 DEF Nothing
    <2> QED
      BY <1>1, <2>1 DEF VerdictInv, VerdictIsTrue
  <1>2. CASE verdict # Nothing
    <2>1. verdict.tx \in DOMAIN sent /\ verdict.block \in DOMAIN blocks
      BY <1>2 DEF VerdictInv
    <2> QED
      BY <2>1 DEF VerdictInv, VerdictIsTrue, Steady, Done
  <1> QED
    BY <1>1, <1>2

\* What two agree on, one of them honest, is so.
LEMMA AgreedStep ==
    ASSUME OnceInv, HistoryInv, ClaimInv, NEW e, NEW d, Agreed(e, d)
    PROVE  ClaimInv' /\ VerdictInv'
  <1>1. PICK pair \in Quorums(e) : Reconciles(e, d, ReconciledStatus(e, pair[1].value))
    BY DEF Agreed
  <1> DEFINE c == evidence.claim
             b == evidence.block
             status == ReconciledStatus(e, c)
  <1>2. /\ verdict' = [status |-> status, execution |-> e, tx |-> c.tx, block |-> b]
        /\ evidence' = Nothing /\ UNCHANGED chainVars
    BY <1>1, QuorumIsHonest DEF Reconciles
  <1>3. IsTrue(c, b)
    BY DEF Agreed, ClaimInv
  <1>4. UNCHANGED <<blocks, branch, final, sent>>
    BY <1>2 DEF chainVars
  <1>5. /\ verdict'.status = status /\ verdict'.execution = e
        /\ verdict'.tx = c.tx /\ verdict'.block = b
    BY <1>2
  <1>6. verdict' # Nothing => verdict'.tx \in DOMAIN sent' /\ verdict'.block \in DOMAIN blocks'
    BY <1>3, <1>4, <1>5 DEF IsTrue
  <1>7. status = "reorged" => b \notin Range(branch)
    BY <1>3 DEF IsTrue, ReconciledStatus, ExecutedStatus
  <1>8. status = "not-found" => \A i \in DOMAIN blocks[b].done : blocks[b].done[i].tx # c.tx
    BY <1>3 DEF IsTrue, ReconciledStatus, ExecutedStatus
  <1>9. ASSUME status \in {"executed-success", "executed-revert"}
        PROVE  /\ c.execution = e /\ c.canonical /\ c.status # "not-found" /\ c.finalized
               /\ c.start = e.artifact.start /\ c.end = c.start
               /\ status = "executed-revert" => c.status = "revert"
               /\ status = "executed-success" => c.effects
    BY <1>9 DEF ReconciledStatus, ExecutedStatus, Unsettled, ResidualsPreserved
  <1>10. ClaimInv'
    BY <1>2 DEF ClaimInv
  <1>11. ASSUME status \in {"executed-success", "executed-revert"}
         PROVE  \E i \in DOMAIN Done(final) :
                    /\ Done(final)[i].tx = c.tx /\ sent[c.tx] = e
                    /\ Done(final)[i].result =
                            IF status = "executed-revert" THEN "revert" ELSE "success"
                    /\ Done(final)[i].start = e.artifact.start
                    /\ Done(final)[i].end = Done(final)[i].start
                    /\ status = "executed-success" => Done(final)[i].effects
    <2>1. PICK i \in DOMAIN Done(final) :
            /\ Done(final)[i].tx = c.tx /\ Done(final)[i].result = c.status
            /\ Done(final)[i].effects = c.effects
            /\ Done(final)[i].start = c.start /\ Done(final)[i].end = c.end
      BY <1>3, <1>9, <1>11 DEF IsTrue
    <2>2. IsEntry(Done(final)[i])
      BY BranchShape DEF HistoryInv, Done
    <2>3. c.status = "revert" <=> status = "executed-revert"
      BY <1>9, <1>11 DEF ReconciledStatus, ExecutedStatus
    <2>4. sent[c.tx] = e
      BY <1>3, <1>9, <1>11 DEF IsTrue
    <2> HIDE DEF c, status
    <2> QED
      BY <1>9, <1>11, <2>1, <2>2, <2>3, <2>4 DEF IsEntry
  <1> HIDE DEF c, b, status
  <1>12. VerdictIsTrue'
    BY <1>4, <1>5, <1>7, <1>8, <1>11 DEF VerdictIsTrue, Done
  <1> QED
    BY <1>6, <1>10, <1>12 DEF VerdictInv

LEMMA NotAgreedStep ==
    ASSUME ClaimInv, NEW e, NEW d, NotAgreed(e, d)
    PROVE  ClaimInv' /\ VerdictInv'
  <1>1. /\ verdict' = [status |-> "conflict", execution |-> e,
                       tx |-> evidence.claim.tx, block |-> evidence.block]
        /\ evidence' = Nothing /\ UNCHANGED chainVars
    BY DEF NotAgreed, Reconciles
  <1>2. /\ verdict'.status = "conflict"
        /\ verdict'.tx = evidence.claim.tx /\ verdict'.block = evidence.block
    BY <1>1
  <1>3. IsTrue(evidence.claim, evidence.block)
    BY DEF NotAgreed, ClaimInv
  <1>4. VerdictIsTrue'
    BY <1>2 DEF VerdictIsTrue
  <1>5. verdict'.tx \in DOMAIN sent' /\ verdict'.block \in DOMAIN blocks'
    BY <1>1, <1>2, <1>3 DEF IsTrue, chainVars
  <1> QED
    BY <1>1, <1>4, <1>5 DEF VerdictInv, ClaimInv

LEMMA ObserveStep ==
    ASSUME OnceInv, HistoryInv, NEW t \in DOMAIN sent, NEW b \in DOMAIN blocks, Observe(t, b)
    PROVE  ClaimInv' /\ VerdictInv'
  <1>1. /\ evidence' = [status |-> "observed", block |-> b, claim |-> Claim(t, b)]
        /\ verdict' = Nothing /\ UNCHANGED chainVars
    BY DEF Observe
  <1>2. evidence'.block = b /\ evidence'.claim = Claim(t, b)
    BY <1>1
  <1>3. verdict'.status = "none"
    BY <1>1 DEF Nothing
  <1>4. VerdictInv'
    BY <1>1, <1>3 DEF VerdictInv, VerdictIsTrue
  <1>5. IsTrue(Claim(t, b), b)
    BY ClaimIsTrue
  <1>6. UNCHANGED <<blocks, branch, final, sent>>
    BY <1>1 DEF chainVars
  <1>7. ClaimInv'
    BY <1>2, <1>5, <1>6 DEF ClaimInv, IsTrue, Done
  <1> QED
    BY <1>4, <1>7

TruthInv == HistoryInv /\ ClaimInv /\ VerdictInv

LEMMA SteadyStep ==
    ASSUME OnceInv, TruthInv, Steady, HistoryInv', UNCHANGED <<evidence, verdict>>
    PROVE  TruthInv'
  <1>1. ClaimInv'
    BY SteadyClaim DEF TruthInv, ClaimInv
  <1>2. VerdictInv'
    BY SteadyVerdict DEF TruthInv
  <1> QED
    BY <1>1, <1>2 DEF TruthInv

LEMMA TruthStep == OnceInv /\ TruthInv /\ [Next]_allVars => TruthInv'
  <1> SUFFICES ASSUME OnceInv, TruthInv, [Next]_allVars PROVE TruthInv'
    OBVIOUS
  <1>1. ASSUME UNCHANGED chainVars PROVE HistoryInv' /\ Steady
    <2>1. UNCHANGED <<blocks, branch, final, sent>>
      BY <1>1 DEF chainVars
    <2> QED
      BY <2>1 DEF TruthInv, HistoryInv, Steady, Done
  <1>2. ASSUME UNCHANGED chainVars, UNCHANGED <<evidence, verdict>> PROVE TruthInv'
    BY <1>1, <1>2, SteadyStep
  <1>3. CASE Surroundings
    BY <1>2, <1>3, ChainKeepsHistory, SteadyStep DEF Surroundings, TruthInv
  <1>4. ASSUME NEW d,
               \/ PrepareExact(d)
               \/ \E n \in 0 .. MaxDecimals : PrepareUnwind(d, n)
               \/ FinalizeUnwind(prepared, d)
               \/ \E w \in Wrappers : FinalizeExact(prepared, d, w)
        PROVE  TruthInv'
    BY <1>2, <1>4 DEF PrepareExact, PrepareUnwind, FinalizeUnwind, FinalizeExact
  <1>5. ASSUME NEW d, NEW e, Agreed(e, d) \/ NotAgreed(e, d) PROVE TruthInv'
    <2>1. UNCHANGED chainVars
      BY <1>5 DEF Agreed, NotAgreed, Reconciles
    <2> QED
      BY <1>1, <1>5, <2>1, AgreedStep, NotAgreedStep DEF TruthInv
  <1>6. ASSUME NEW e \in finalized, Sent(e) PROVE TruthInv'
    BY <1>6, SendKeepsHistory, SteadyStep DEF Sent, TruthInv
  <1>7. ASSUME NEW t \in DOMAIN sent, NEW b \in DOMAIN blocks, Observe(t, b) PROVE TruthInv'
    <2>1. UNCHANGED chainVars
      BY <1>7 DEF Observe
    <2> QED
      BY <1>1, <1>7, <2>1, ObserveStep DEF TruthInv
  <1>8. CASE UseActions
    BY <1>3, <1>4, <1>5, <1>6, <1>7, <1>8 DEF UseActions, ActionNext
  <1>9. CASE UseSafe \/ UNCHANGED allVars
    <2>1. UNCHANGED actionVars
      BY <1>9 DEF UseSafe, allVars
    <2> QED
      BY <1>2, <2>1 DEF actionVars
  <1> QED
    BY <1>8, <1>9 DEF Next

\* Of two administrations, one honest, that agree: what is reconciled is so, and
\* remains so (reconcileExactSpendAction, over the quorum of
\* authoritativeReconciliationEvidence).
THEOREM ReconciledIsTrue == Spec => []VerdictIsTrue
  <1>1. Init => OnceInv
    BY InitOnce
  <1>2. Init => TruthInv
    <2> SUFFICES ASSUME Init PROVE TruthInv
      OBVIOUS
    <2> DEFINE b == [number |-> 1, balance |-> 0, done |-> <<>>]
    <2>1. blocks = <<b>> /\ branch = <<1>> /\ final = 1
          /\ evidence = Nothing /\ verdict = Nothing
      BY DEF Init, ActionInit, ChainInit
    <2>2. Len(<<1>>) = 1 /\ 1 .. Len(branch) = {1}
      BY <2>1
    <2>3. DOMAIN blocks = {1} /\ blocks[1] = b
      <3> HIDE DEF b
      <3> QED
        BY <2>1
    <2>4. b.done = <<>> /\ DOMAIN <<>> = {}
      OBVIOUS
    <2> HIDE DEF b
    <2>5. Done(1) = <<>>
      BY <2>1, <2>3, <2>4 DEF Done
    <2>6. HistoryInv
      BY <2>1, <2>2, <2>3, <2>4, <2>5 DEF HistoryInv, Continues
    <2>7. verdict.status = "none"
      BY <2>1 DEF Nothing
    <2> QED
      BY <2>1, <2>6, <2>7 DEF TruthInv, ClaimInv, VerdictInv, VerdictIsTrue
  <1>3. TruthInv => VerdictIsTrue
    BY DEF TruthInv, VerdictInv
  <1>4. QED
    BY <1>1, <1>2, <1>3, OnceStep, TruthStep, PTL DEF Spec, allVars
=============================================================================
