---------------------------- MODULE MCActionLifecycle ----------------------------
(***************************************************************************)
(* An instance of AccountActions for TLC.                                  *)
(***************************************************************************)
EXTENDS AccountActions

Pool(unpaused) ==
    [ownManager |-> TRUE, unpaused |-> unpaused, adapterWhitelisted |-> TRUE,
     expiry |-> Expiry, decimals |-> 1]

Payload(root, generation, status, content) ==
    [root |-> root, generation |-> generation, status |-> status, content |-> content]

MCReviewed ==
    {Payload("deployment", 1, "active", Pool(TRUE)),
     Payload("signing-policy", 1, "active", "policy")}

MCPayloads ==
    MCReviewed \cup {Payload("deployment", 2, "active", Pool(TRUE)),
                    Payload("deployment", 1, "emergency-disabled", Pool(TRUE))}

MCRegistered == [root \in Roots |-> IF root = "deployment" THEN {"d1", "d2"} ELSE {"p1", "p2"}]

MCAdministration == [p \in {"honest", "liar", "accomplice"} |-> IF p = "honest" THEN "a" ELSE "b"]

Request(profile, in, deadline) ==
    [profile |-> profile, in |-> in, account |-> "externally-owned-account",
     receiver |-> "owner", deadline |-> deadline, permits |-> {}]

MCExactRequests ==
    {Request("mint-collateral-in", [fee |-> 0, minShares |-> 1, assets |-> 1], 2),
     Request("mint-paired-shares-out", [shares |-> 1, preview |-> 2, most |-> 2, fee |-> 0], 2),
     Request("mint-paired-shares-out", [shares |-> 1, preview |-> 2, most |-> 1, fee |-> 0], 2),
     Request("repurchase-collateral-in-for-swap",
        [assets |-> 1, rate |-> 1, fee |-> 1, available |-> 1, required |-> 2], 2),
     [Request("unwind-collateral-out", [assets |-> 1, preview |-> 2, most |-> 2, quantum |-> 1], 2)
        EXCEPT !.account = "safe"],
     Request("redeem-principal-token-in", [shares |-> 1, minReference |-> 1, minCollateral |-> 0], 3)}

MCIntents ==
    {[client |-> "r", account |-> kind, receiver |-> "owner", shares |-> 3, minAssets |-> 1,
      deadline |-> 2] : kind \in {"externally-owned-account", "safe"}}

MCMaxArtifacts ==
    [r \in MCExactRequests \cup MCIntents |->
        IF r \in MCIntents THEN 2 ELSE IF r.profile = "redeem-principal-token-in" THEN 2 ELSE 1]

MCWrappers ==
    {[kind |-> "externally-owned-account"], [kind |-> "safe", address |-> "own"],
     [kind |-> "safe", address |-> "other"]}

MCMinWindow == [kind \in {"externally-owned-account", "safe"} |-> IF kind = "safe" THEN 2 ELSE 1]
MCMaxWindow == [kind \in {"externally-owned-account", "safe"} |-> IF kind = "safe" THEN 3 ELSE 2]

\* Two of three owners stay when a third is replaced; a guard is refused.
Authority(owners, guard) ==
    [approved |-> TRUE, guard |-> guard, modules |-> {}, threshold |-> 2, owners |-> owners]

MCAuthorities ==
    {Authority({"ann", "bob", "cor"}, "none"), Authority({"ann", "bob", "dan"}, "none"),
     Authority({"ann", "bob", "cor"}, "delay")}

MCSigners == {{"ann", "bob"}, {"bob", "cor"}, {"ann", "dan"}}

\* Of the part that moves. Of replaced blocks: that they are, and what was not
\* found in them.
LiveActions ==
    <<published, clock, [n \in DOMAIN branch |-> blocks[branch[n]]], Len(blocks), final, sent,
      request, prepared, finalized,
      IF evidence = Nothing THEN <<>>
      ELSE <<evidence.claim, [n \in DOMAIN branch |-> branch[n] = evidence.block],
             blocks[evidence.block].done>>,
      IF verdict = Nothing THEN <<>>
      ELSE <<verdict.status, verdict.execution, verdict.tx,
             [n \in DOMAIN branch |-> branch[n] = verdict.block], blocks[verdict.block].done>> >>

LiveData == IF active = "actions" THEN LiveActions ELSE safeVars
=============================================================================
