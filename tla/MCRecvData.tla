------------------------------ MODULE MCRecvData ------------------------------
(***************************************************************************)
(* Values for the constants of RecvData: four bytes are enough for plain,  *)
(* final and unsolicited lines that differ in their beginning only.        *)
(***************************************************************************)
EXTENDS RecvData, TLC

Markers == <<"k">> :> "ATC_SUCCESS" @@ <<"x", "x">> :> "ATC_ERROR"
Urcs == {<<"x", "k">>}

LineTask == [prompt |-> <<>>, need |-> 0]
PromptTask(prompt, need) == [prompt |-> prompt, need |-> need]

\* Lines; prompts with overlap and data, without data, with more data than the
\* buffer holds, deeper than the stack, with a NUL byte.
AllTasks == {LineTask, PromptTask(<<"x", "x">>, 2), PromptTask(<<"k">>, 0), PromptTask(<<"k">>, ResponseMax + 1),
             PromptTask(<<"x", "k", "k">>, 1), PromptTask(<<"x", NUL>>, 1)}
LineTasks == {LineTask}
===============================================================================
