----------------------------- MODULE MCEventLoop -----------------------------
(***************************************************************************)
(* Values for the constants of EventLoop.                                  *)
(***************************************************************************)
EXTENDS EventLoop

SendSync(t)       == [api |-> "send", sync |-> TRUE, timeout |-> t, arg |-> 0]
SendAsync(t)      == [api |-> "send", sync |-> FALSE, timeout |-> t, arg |-> 0]
PromptSync(t, n)  == [api |-> "prompt", sync |-> TRUE, timeout |-> t, arg |-> n]
PromptAsync(t, n) == [api |-> "prompt", sync |-> FALSE, timeout |-> t, arg |-> n]
Register          == [api |-> "register", sync |-> TRUE, timeout |-> 0, arg |-> 0]
Unregister(id)    == [api |-> "unregister", sync |-> TRUE, timeout |-> 0, arg |-> id]

\* Every API, from threads that compete.
MixedRequests == {SendSync(1), SendAsync(1), PromptSync(1, 1), Register, Unregister(1)}

\* One thread that fills send_queue; two deadlines around the wrap of the tick.
QueuedRequests == {SendAsync(2), PromptAsync(4, 1)}

MsgAndCommand == {Register, PromptAsync(0, 1), SendSync(1)}

OneSendTimed == {SendSync(1)}
OnePromptNoData == {PromptSync(0, 0)}

OneLineAnswers == {<<>>, <<"ok">>, <<"text", "error">>}
OkAnswer == {<<"ok">>}
MaybeOk == {<<>>, <<"ok">>}
OnePromptAnswers == {<<>>, <<"prompt", "data">>}
PromptOnly == {<<"prompt">>}
===============================================================================
