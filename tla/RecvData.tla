------------------------------- MODULE RecvData -------------------------------
(***************************************************************************)
(* The receive machine (recv_data_handle.c) byte by byte: the line buffer, *)
(* the response buffer, the stack of the last bytes (stack.c) that is      *)
(* compared with the prompt, and the end of a command. It runs on the loop *)
(* thread; EventLoop has its scheduling, the ring and the clock.           *)
(***************************************************************************)
EXTENDS Integers, SequencesExt, FiniteSetsExt

CONSTANTS
  Bytes, NL, NUL,       \* what is received; the end of a line (2 bytes in the code) and '\0'
  LineEnd,              \* the length of an end of line: a line of no more is empty
  LineMax,              \* ATC_RX_LINE_MAX_SIZE
  ResponseMax,          \* ATC_RX_RESPONSE_MAX
  StackDepth,           \* ATC_PROMPT_STACK_MAX_DEPTH
  command_end_markers,  \* the results the final lines stand for, by their beginning
  UrcPrefixes,             \* the prefixes of the registered URC handlers
  Tasks,                \* the commands: [prompt, need]; a line command has no prompt
  NoTask,               \* NULL
  MaxBytes              \* bound: bytes a command sees, with those of the line begun before it

ASSUME ByteAssumption ==
  /\ NL \in Bytes /\ NUL \in Bytes /\ LineEnd \in Nat
  /\ LineMax \in Nat \ {0} /\ ResponseMax \in Nat \ {0} /\ StackDepth \in Nat \ {0}
  /\ \A t \in Tasks : t.prompt \in Seq(Bytes) /\ t.need \in Nat
  /\ \A m \in DOMAIN command_end_markers : command_end_markers[m] \in {"ATC_SUCCESS", "ATC_ERROR"}
  /\ NoTask \notin Tasks

VARIABLES
  task, status,               \* current_send_task and its status
  line_buffer,                \* the bytes below line_buffer_index
  response, response_length,  \* the buffer up to its first unused byte; the length reported
  byte_stack,                 \* from bottom to top
  report,                     \* what the response handler has just been called with
  carry, stream               \* history: line_buffer at dispatch; the bytes since then

buffers == <<line_buffer, response, response_length, byte_stack>>
vars == <<task, status, buffers, report, carry, stream>>

Results == {"ATC_SUCCESS", "ATC_ERROR", "ATC_TIMEOUT"}
NoReport == [result |-> "none", text |-> <<>>, length |-> 0, task |-> NoTask]

Init ==
  /\ task = NoTask /\ status = "LINE_RECV"
  /\ line_buffer = <<>> /\ response = <<>> /\ response_length = 0 /\ byte_stack = <<>>
  /\ report = NoReport /\ carry = <<>> /\ stream = <<>>

-----------------------------------------------------------------------------
\* strncmp over the prefix's length: a NUL ends the line, but no prefix has one.
Begins(line, prefix) == IsPrefix(prefix, line)

\* urc_line_handle: some handler is called.
urc_line_handle(line) == \E p \in UrcPrefixes : Begins(line, p)

IsFinal(line) == \E m \in DOMAIN command_end_markers : Begins(line, m)
Meaning(line) == command_end_markers[CHOOSE m \in DOMAIN command_end_markers : Begins(line, m)]

\* The string a line begins with, up to its first NUL: all that strncat copies.
StrLen(line) == Cardinality({i \in DOMAIN line : \A k \in 1 .. i : line[k] # NUL})
CString(line) == SubSeq(line, 1, StrLen(line))

\* push_to_response_buffer: a line that does not fit is dropped as a whole.
Fits_WithoutNul(line) == response_length + Len(line) <= ResponseMax   \* mutant: no room for the terminator
Fits(line) == response_length + Len(line) < ResponseMax
Text(line) == IF Fits(line) THEN response \o CString(line) ELSE response
Length_OfText(line) == Len(Text(line))   \* mutant: the bytes after a NUL are not counted
Length(line) == IF Fits(line) THEN response_length + Len(line) ELSE response_length

\* stack_push_overwrite: a full stack loses its oldest byte.
Push(byte) == Append(IF Len(byte_stack) < StackDepth THEN byte_stack ELSE Tail(byte_stack), byte)

\* stack_peek_at; a NUL byte is a NULL item, like an item that is not there.
PeekAt(stack, i) == IF i < Len(stack) THEN stack[Len(stack) - i] ELSE NUL

\* The loop of byte_prompt_handle: the newest bytes are the prompt.
Matches(stack) ==
  \A i \in 0 .. Len(task.prompt) - 1 :
    PeekAt(stack, i) # NUL /\ PeekAt(stack, i) = task.prompt[Len(task.prompt) - i]

-----------------------------------------------------------------------------
clear_response_buffer == response' = <<>> /\ response_length' = 0
stack_clear == byte_stack' = <<>>

\* send_msg_handle makes a task current and clears the response buffer.
Dispatch(t) ==
  /\ task = NoTask
  /\ task' = t
  /\ status' = IF t.prompt = <<>> THEN "LINE_RECV" ELSE "PROMPT"
  /\ clear_response_buffer
  /\ carry' = line_buffer /\ stream' = <<>>
  /\ report' = NoReport
  /\ UNCHANGED <<line_buffer, byte_stack>>

\* Mutant: the stack keeps the bytes of the command that has ended.
CommandEnd_KeepStack(result, text, length) ==
  /\ report' = IF task = NoTask THEN NoReport ELSE [result |-> result, text |-> text, length |-> length, task |-> task]
  /\ task' = NoTask /\ status' = "LINE_RECV"
  /\ clear_response_buffer
  /\ UNCHANGED byte_stack

\* command_end_handle.
CommandEnd(result, text, length) ==
  /\ report' = IF task = NoTask THEN NoReport ELSE [result |-> result, text |-> text, length |-> length, task |-> task]
  /\ task' = NoTask /\ status' = "LINE_RECV"
  /\ clear_response_buffer /\ stack_clear

GoOn == report' = NoReport /\ UNCHANGED <<task, status>>

\* check_send_timeout.
TimeOut ==
  /\ task # NoTask
  /\ CommandEnd("ATC_TIMEOUT", response, response_length)
  /\ UNCHANGED <<line_buffer, carry, stream>>

\* recv_data_handle takes the next byte in the current mode.
Recv(mode, byte) ==
  /\ status = mode
  /\ IF task = NoTask THEN carry' = <<>> /\ stream' = <<>>
     ELSE /\ Len(carry) + Len(stream) < MaxBytes
          /\ stream' = Append(stream, byte)
          /\ UNCHANGED carry

HasRoom == Len(line_buffer) < LineMax - 1

\* byte_line_handle: the buffer is full, even an end of line is discarded.
LineDiscard(byte) ==
  /\ Recv("LINE_RECV", byte) /\ ~HasRoom
  /\ GoOn
  /\ UNCHANGED buffers

LineByte(byte) ==
  /\ Recv("LINE_RECV", byte) /\ HasRoom /\ byte # NL
  /\ line_buffer' = Append(line_buffer, byte)
  /\ GoOn
  /\ UNCHANGED <<response, response_length, byte_stack>>

\* line_handle: empty lines are ignored, URCs go to their handlers only.
LineAside ==
  LET line == Append(line_buffer, NL)
  IN  /\ Recv("LINE_RECV", NL) /\ HasRoom
      /\ Len(line) <= LineEnd \/ urc_line_handle(line)
      /\ line_buffer' = <<>>
      /\ GoOn
      /\ UNCHANGED <<response, response_length, byte_stack>>

\* normal_line_handle: the line joins the response, a final one ends the
\* command, if there is one.
LineNormal ==
  LET line == Append(line_buffer, NL)
  IN  /\ Recv("LINE_RECV", NL) /\ HasRoom
      /\ Len(line) > LineEnd /\ ~urc_line_handle(line)
      /\ line_buffer' = <<>>
      /\ \/ /\ IsFinal(line)
            /\ CommandEnd(Meaning(line), Text(line), Length(line))
         \/ /\ ~IsFinal(line)
            /\ response' = Text(line) /\ response_length' = Length(line)
            /\ GoOn
            /\ UNCHANGED byte_stack

\* byte_prompt_handle.
PromptByte(byte) ==
  /\ Recv("PROMPT", byte)
  /\ ~Matches(Push(byte))
  /\ byte_stack' = Push(byte)
  /\ GoOn
  /\ UNCHANGED <<line_buffer, response, response_length>>

PromptMatch(byte) ==
  /\ Recv("PROMPT", byte)
  /\ Matches(Push(byte))
  /\ \/ /\ task.need # 0
        /\ status' = "BINARY"
        /\ clear_response_buffer /\ stack_clear
        /\ report' = NoReport
        /\ UNCHANGED task
     \/ /\ task.need = 0
        /\ CommandEnd("ATC_SUCCESS", response, response_length)
  /\ UNCHANGED line_buffer

\* byte_binary_handle.
Enough_More(length) == length > task.need   \* mutant: one byte too many
Enough(length) == length >= task.need

BinaryByte(byte) ==
  /\ Recv("BINARY", byte)
  /\ response_length < ResponseMax
  /\ \/ /\ Enough(response_length + 1)
        /\ CommandEnd("ATC_SUCCESS", Append(response, byte), response_length + 1)
     \/ /\ ~Enough(response_length + 1)
        /\ response' = Append(response, byte) /\ response_length' = response_length + 1
        /\ GoOn
        /\ UNCHANGED byte_stack
  /\ UNCHANGED line_buffer

BinaryDiscard(byte) ==
  /\ Recv("BINARY", byte)
  /\ response_length = ResponseMax
  /\ GoOn
  /\ UNCHANGED buffers

Next ==
  \/ \E t \in Tasks : Dispatch(t)
  \/ TimeOut \/ LineAside \/ LineNormal
  \/ \E byte \in Bytes :
       \/ LineDiscard(byte) \/ LineByte(byte)
       \/ PromptByte(byte) \/ PromptMatch(byte)
       \/ BinaryByte(byte) \/ BinaryDiscard(byte)

Spec == Init /\ [][Next]_vars

-----------------------------------------------------------------------------
\* No buffer is overrun: the line buffer and, outside binary data, the
\* response keep a byte for the terminator, the text never exceeds its length.
TypeOK ==
  /\ task \in Tasks \cup {NoTask} /\ status \in {"LINE_RECV", "PROMPT", "BINARY"}
  /\ line_buffer \in Seq(Bytes) /\ Len(line_buffer) <= LineMax - 1
  /\ response \in Seq(Bytes) /\ response_length \in Nat /\ Len(response) <= response_length
  /\ response_length <= IF status = "BINARY" THEN ResponseMax ELSE ResponseMax - 1
  /\ byte_stack \in Seq(Bytes) /\ Len(byte_stack) <= StackDepth
  /\ report.result \in Results \cup {"none"}

(* What a command's answer is, by all the bytes it has seen instead of byte *)
(* by byte.                                                                 *)

Ends(s) == {e \in DOMAIN s : s[e] = NL}
LineTo(s, e) == SubSeq(s, 1 + Max({0} \cup {i \in Ends(s) : i < e}), e)

\* The first line too long for line_buffer and everything after it is lost.
Heard(s, e) == \A i \in Ends(s) : i <= e => Len(LineTo(s, i)) < LineMax

\* The ends of the lines that belong to the answer, and of its final lines.
AnswerEnds(s) ==
  {e \in Ends(s) : Heard(s, e) /\ Len(LineTo(s, e)) > LineEnd /\ ~\E p \in UrcPrefixes : Begins(LineTo(s, e), p)}
FinalEnds(s) == {e \in AnswerEnds(s) : IsFinal(LineTo(s, e))}

\* The lines in order, each kept if there is room for it, up to its NUL.
WithLine(s, e, a) ==
  IF e \in AnswerEnds(s) /\ a.length + Len(LineTo(s, e)) < ResponseMax
  THEN [text |-> a.text \o CString(LineTo(s, e)), length |-> a.length + Len(LineTo(s, e))]
  ELSE a
Answer(s) ==
  LET upTo[e \in 0 .. Len(s)] == IF e = 0 THEN [text |-> <<>>, length |-> 0] ELSE WithLine(s, e, upTo[e - 1])
  IN  upTo[Len(s)]

\* A line command collects the lines since the one under way at its dispatch
\* and ends with the first final one, wherever lines were ignored, given to
\* URC handlers, dropped for lack of room or lost after an overlong one. The
\* final line is the last of its answer: normal_line_handle collects a line
\* before it looks whether it is final, whatever ATCortex.h says of the response
\* (LinesBeforeFinal).
LineAnswer ==
  LET s == carry \o stream
  IN  /\ task # NoTask /\ task.prompt = <<>> =>
           FinalEnds(s) = {} /\ Answer(s) = [text |-> response, length |-> response_length]
      /\ report.task # NoTask /\ report.task.prompt = <<>> /\ report.result # "ATC_TIMEOUT" =>
           /\ FinalEnds(s) = {Len(s)}
           /\ report.result = Meaning(LineTo(s, Len(s)))
           /\ Answer(s) = [text |-> report.text, length |-> report.length]

\* Where the prompt of t ends in s. A prompt deeper than the stack or with a
\* NUL byte is never seen.
Visible(prompt) == Len(prompt) <= StackDepth /\ \A i \in DOMAIN prompt : prompt[i] # NUL
PromptEnds(t, s) ==
  {e \in DOMAIN s : /\ Visible(t.prompt) /\ Len(t.prompt) <= e
                    /\ \A i \in DOMAIN t.prompt : s[e - Len(t.prompt) + i] = t.prompt[i]}

DataAfter(t, s) == SubSeq(s, Min(PromptEnds(t, s)) + 1, Len(s))

\* A prompt command waits for the first occurrence of its prompt after the
\* dispatch, whatever lines are among the bytes, and ends with exactly as many
\* bytes behind it as it needs, which it never does if they exceed the buffer;
\* a line that had begun before it is left as it was.
PromptAnswer ==
  /\ task # NoTask /\ task.prompt # <<>> =>
       /\ line_buffer = carry
       /\ status = "PROMPT" <=> PromptEnds(task, stream) = {}
       /\ status = "BINARY" =>
            LET data == DataAfter(task, stream)
            IN  /\ Len(data) < task.need \/ task.need > ResponseMax
                /\ response = SubSeq(data, 1, response_length) /\ response_length = Min({Len(data), ResponseMax})
  /\ report.task # NoTask /\ report.task.prompt # <<>> /\ report.result # "ATC_TIMEOUT" =>
       /\ report.result = "ATC_SUCCESS" /\ PromptEnds(report.task, stream) # {}
       /\ report.text = DataAfter(report.task, stream)
       /\ Len(report.text) = report.task.need /\ report.length = report.task.need

\* response_buf returns the lines before "OK" (ATCortex.h): what the handler of
\* a successful line command is given has no part of the final line.
LinesBeforeFinal ==
  report.task # NoTask /\ report.task.prompt = <<>> /\ report.result = "ATC_SUCCESS" =>
    LET s == carry \o stream
    IN  report.text = Answer(SubSeq(s, 1, Len(s) - Len(LineTo(s, Len(s))))).text

\* send_result tells whether "OK" was received (ATCortex.h): once a complete
\* line that begins like a final one has arrived, a line command has ended.
ReceivedFinalEnds ==
  task # NoTask /\ task.prompt = <<>> =>
    \A e \in Ends(stream) :
      LET line == LineTo(stream, e)
      IN  Len(line) = e \/ Len(line) \notin LineEnd + 1 .. LineMax - 1 \/ ~IsFinal(line) \/ urc_line_handle(line)
===============================================================================
