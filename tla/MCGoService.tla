------------------------------ MODULE MCGoService ------------------------------
(***************************************************************************)
(* Instances of GoService for TLC.                                         *)
(***************************************************************************)
EXTENDS GoService, TLC

CONSTANTS n1, n2, w1, w2, h1

OneId == {n1}
TwoIds == {n1, n2}
OneWorker == {w1}
TwoWorkers == {w1, w2}
OneHook == {h1}
NoHooks == {}
WorkerSymmetry == Permutations(TwoWorkers)
TwoWorkersOneHook == {w1, w2, h1}

Body(channels, recipients) == [channels |-> channels, recipients |-> recipients]

\* The smallest request with two channels the service delivers.
EmailAndSms == n1 :> Body(<<"email", "sms">>, <<"alice">>)

\* A channel named twice around one without an adapter; and a request without
\* recipients.
TwiceAndNobody == n1 :> Body(<<"email", "fax", "email">>, <<"alice">>)
                  @@ n2 :> Body(<<"email">>, <<>>)
================================================================================
