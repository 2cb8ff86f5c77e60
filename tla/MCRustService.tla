----------------------------- MODULE MCRustService -----------------------------
(***************************************************************************)
(* Instances of RustService for TLC.                                       *)
(***************************************************************************)
EXTENDS RustService, TLC

CONSTANTS n1, n2, w1, w2, h1

OneId == {n1}
TwoIds == {n1, n2}
OneWorker == {w1}
TwoWorkers == {w1, w2}
OneHook == {h1}
NoHooks == {}
WorkerSymmetry == Permutations(TwoWorkers)
TwoWorkersOneHook == {w1, w2, h1}

Body(channels, recipients) == [channels |-> channels, recipients |-> recipients]

\* One channel, one recipient.
EmailOnly == n1 :> Body(<<"email">>, <<"alice">>)

\* The smallest request with two channels the service delivers; and a second
\* notification on the topic.
EmailAndSms == n1 :> Body(<<"email", "sms">>, <<"alice">>)
               @@ n2 :> Body(<<"email">>, <<"alice">>)
SmsOfFirst == {<<n1, "sms">>}
================================================================================
