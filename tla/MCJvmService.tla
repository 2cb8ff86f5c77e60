----------------------------- MODULE MCJvmService -----------------------------
(***************************************************************************)
(* Instances of JvmService for TLC.                                       *)
(***************************************************************************)
EXTENDS JvmService, TLC

CONSTANTS n1, n2, w1, w2, h1

OneId == {n1}
TwoIds == {n1, n2}
OneWorker == {w1}
TwoWorkers == {w1, w2}
OneHook == {h1}
NoHooks == {}
TwoWorkersOneHook == {w1, w2, h1}

Body(channels, recipients) == [channels |-> channels, recipients |-> recipients]

\* One channel, one recipient.
EmailOnly == n1 :> Body(<<"email">>, <<"alice">>)

\* Two channels with an adapter, one of them named in mixed case, and two
\* recipients.
MixedCase == n1 :> Body(<<"Email", "sms">>, <<"alice", "bob">>)

\* A channel without an adapter; and a second notification on the topic, whose
\* body has no recipients.
FaxAndNobody == n1 :> Body(<<"fax", "email">>, <<"alice">>)
                @@ n2 :> Body(<<"email">>, <<>>)
SecondId == {n2}
================================================================================
