---------------------------- MODULE MCSubmission ----------------------------
(***************************************************************************)
(* Instances of Submission for TLC.                                        *)
(***************************************************************************)
EXTENDS Submission, TLC

CONSTANTS o1, o2, c1, c2, c3

\* Two instances; the first serves c1 and c2, the second the others.
MCOwnerOf == [c \in Calls |-> IF c \in {c1, c2} THEN o1 ELSE o2]

NoSkew == [o \in Owners |-> 0]

\* The clock of o2 is ahead: it sees leases expire before they do.
SkewedClock == [o \in Owners |-> IF o = o2 THEN 1 ELSE 0]

\* Two calls of one instance differ in nothing but what they do.
Interchangeable == Permutations(Digests) \cup Permutations(Results)
                      \cup Permutations({c1, c2})

\* No property and no step looks at what else a call held when it ended.
LiveData ==
    <<rec, now,
      [c \in Calls |->
          IF pc[c] \notin {"done", "thrown", "crashed"}
          THEN <<pc[c], req[c], seen[c], readAt[c], answer[c], reply[c], sent[c]>>
          ELSE <<pc[c], req[c].op, req[c].digest, reply[c], sent[c],
                 seen[c] = rec, ProvedAbsence(c),
                 answer[c].identifier = "empty" \/ ~answer[c].evidence>>]>>
=============================================================================
