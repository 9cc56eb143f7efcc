-------------------------- MODULE MCAlertPipeline --------------------------
(* Small instances of AlertPipeline for TLC. *)
EXTENDS AlertPipeline

CONSTANTS c1, c2, f1, f2, t1, t2, t3

(* Every failure but a channel that redirects. *)
NoRedirect == FaultKinds \ {<<"send", "redirect">>}
(* Every failure but those that leave a claim behind, and those that hide  *)
(* what a channel took.                                                    *)
ReleasableFaults ==
  FaultKinds \ (OrphanFaults \cup {<<"send", "reply">>, <<"send", "raise">>})
(* Redis has reached maxmemory. *)
MemoryLimit == {"store", "claim", "publish", "release"} \X {"reject"}
LostClaimReply == {<<"claim", "reply">>}
=============================================================================
