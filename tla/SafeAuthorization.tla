--------------------------- MODULE SafeAuthorization ---------------------------
(***************************************************************************)
(* The authorization of an action by a Safe                                *)
(* (packages/operations/src/safe.ts): the messages its owners sign for the *)
(* two permits, and the transaction of the Safe that carries them, made    *)
(* again when others of its transactions come first. The client keeps all  *)
(* it was given; each function is pure and may be called at any time.      *)
(*                                                                         *)
(* A configuration is what the client read of the Safe, perhaps long ago;  *)
(* the verifier it injects answers for the Safe as it is. Which data the   *)
(* transaction carries is not bound to the messages, and left out.         *)
(***************************************************************************)
EXTENDS Integers, Sequences, FiniteSets

CONSTANTS
    Authorities,    \* [approved, guard, modules, threshold, owners] that a Safe may have
    Signers,        \* sets of people who sign a message
    MaxNonce, MaxArtifactsHeld    \* bounds of the model

ASSUME SafeConstants ==
    /\ \A a \in Authorities : "nonce" \notin DOMAIN a
    /\ MaxNonce \in Nat

VARIABLES
    safe,             \* its authority at each nonce so far
    authorizations,   \* [configuration, messages] that were authorized
    wrappers          \* transactions for the owners to confirm
safeVars == <<safe, authorizations, wrappers>>

Roles == {"permit-cpt", "permit-cst"}

\* A configuration, read when the Safe had a nonce.
Configuration(nonce) ==
    [f \in {"nonce"} \cup DOMAIN safe[nonce + 1] |->
        IF f = "nonce" THEN nonce ELSE safe[nonce + 1][f]]

CurrentNonce == Len(safe) - 1

\* Fault: the owners are not part of it.
AuthorityDigest_Code(c) == [f \in DOMAIN c \ {"nonce", "owners"} |-> c[f]]

AuthorityDigest(c) == [f \in DOMAIN c \ {"nonce"} |-> c[f]]

\* Singleton, version and handler are those approved.
ValidConfiguration(c) ==
    /\ c.approved /\ c.guard = "none" /\ c.modules = {}
    /\ c.threshold = 2 /\ Cardinality(c.owners) = 3

\* What the Safe answers to a message that some people signed.
Validates(authority, signers) ==
    signers \subseteq authority.owners /\ Cardinality(signers) >= authority.threshold

Verified(messages) == \A r \in Roles : Validates(safe[Len(safe)], messages[r])

SafeInit ==
    /\ safe \in [{1} -> Authorities]
    /\ authorizations = {} /\ wrappers = {}

\* Another transaction of the Safe, which may change its authority.
SafeTransaction(authority) ==
    /\ CurrentNonce < MaxNonce
    /\ safe' = Append(safe, authority)
    /\ UNCHANGED <<authorizations, wrappers>>

\* Two different permits of this Safe, by role, and their messages.
AuthorizeSafePermitMessages(c, signer, messages) ==
    /\ ValidConfiguration(c)
    /\ signer = "own"
    /\ Verified(messages)
    /\ authorizations' = authorizations \cup {[configuration |-> c, messages |-> messages]}
    /\ UNCHANGED <<safe, wrappers>>

\* An authorization is valid for the configuration it was made for, while its
\* messages verify.
PermitAuthorizationValid(a, c) == a.configuration = c /\ Verified(a.messages)

Rebuilt(a, c) == [configuration |-> c, messages |-> a.messages]

BuildWrapper(c, a) ==
    /\ AuthorityDigest(a.configuration) = AuthorityDigest(c)
    /\ wrappers' = wrappers \cup {[nonce |-> c.nonce, authorization |-> Rebuilt(a, c)]}
    /\ UNCHANGED <<safe, authorizations>>

CreateSafeExecutionWrapper(c, a) ==
    /\ ValidConfiguration(c)
    /\ PermitAuthorizationValid(a, c)
    /\ BuildWrapper(c, a)

RebuildSafeWrapperForNonce(previous, c) ==
    /\ ValidConfiguration(c)
    /\ AuthorityDigest(previous.authorization.configuration) = AuthorityDigest(c)
    /\ PermitAuthorizationValid(previous.authorization, previous.authorization.configuration)
    /\ BuildWrapper(c, previous.authorization)

Held == Cardinality(authorizations) + Cardinality(wrappers) < MaxArtifactsHeld

SafeNext ==
    \/ \E authority \in Authorities : SafeTransaction(authority)
    \/ /\ Held
       /\ \E n \in 0 .. CurrentNonce :
            LET c == Configuration(n) IN
            \/ \E signer \in {"own", "other"}, messages \in [Roles -> Signers] :
                    AuthorizeSafePermitMessages(c, signer, messages)
            \/ \E a \in authorizations : CreateSafeExecutionWrapper(c, a)
            \/ \E w \in wrappers : RebuildSafeWrapperForNonce(w, c)

SafeSpec == SafeInit /\ [][SafeNext]_safeVars

-----------------------------------------------------------------------------

\* A wrapper that the Safe can still execute carries messages that the Safe, as
\* it is then, validates and that were authorized under just this authority, an
\* approved one: however often it was rebuilt, and the owners changed and
\* changed back, in the meantime.
WrapperIsAuthorized ==
    \A w \in wrappers :
        w.nonce = CurrentNonce =>
            /\ ValidConfiguration(Configuration(w.nonce))
            /\ Verified(w.authorization.messages)
            /\ \E a \in authorizations :
                /\ a.messages = w.authorization.messages
                /\ [a.configuration EXCEPT !.nonce = w.nonce] = Configuration(w.nonce)
=============================================================================
