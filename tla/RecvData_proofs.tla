---------------------------- MODULE RecvData_proofs ----------------------------
(***************************************************************************)
(* Theorems about RecvData: no buffer is overrun, and what a line command  *)
(* and a prompt command are told, for every size of the buffers, every     *)
(* prompt and every stream of bytes.                                       *)
(***************************************************************************)
EXTENDS RecvData, FiniteSetTheorems, SequenceTheorems, WellFoundedInduction, TLAPS

USE ByteAssumption

-----------------------------------------------------------------------------
(* What goes into the buffers.                                              *)

\* strncat copies no more than the length that is added to response_length.
LEMMA CStringLength ==
  ASSUME NEW line \in Seq(Bytes)
  PROVE  CString(line) \in Seq(Bytes) /\ Len(CString(line)) <= Len(line)
<1> DEFINE kept == {i \in DOMAIN line : \A k \in 1 .. i : line[k] # NUL}
<1>0. Len(line) \in Nat
  OBVIOUS
<1>1. IsFiniteSet(1 .. Len(line)) /\ Cardinality(1 .. Len(line)) = Len(line)
  <2> DEFINE n == Len(line)
  <2> HIDE DEF n
  <2>1. n \in Nat => IsFiniteSet(1 .. n) /\ Cardinality(1 .. n) = n
    BY FS_Interval
  <2> QED
    BY <1>0, <2>1 DEF n
<1>2. kept \subseteq 1 .. Len(line)
  OBVIOUS
<1>3. Cardinality(kept) <= Len(line) /\ IsFiniteSet(kept)
  BY <1>1, <1>2, FS_Subset
<1>4. StrLen(line) \in Nat /\ StrLen(line) <= Len(line)
  BY <1>3, FS_CardinalityType DEF StrLen
<1> QED
  BY <1>4 DEF CString

\* A line that joins the response leaves room for the terminator.
LEMMA TextLength ==
  ASSUME TypeOK, status # "BINARY", NEW line \in Seq(Bytes)
  PROVE  /\ Text(line) \in Seq(Bytes) /\ Length(line) \in Nat
         /\ Len(Text(line)) <= Length(line) /\ Length(line) <= ResponseMax - 1
<1>1. /\ response \in Seq(Bytes) /\ response_length \in Nat /\ Len(response) <= response_length
      /\ response_length <= ResponseMax - 1
  BY DEF TypeOK
<1>2. CString(line) \in Seq(Bytes) /\ Len(CString(line)) <= Len(line) /\ Len(line) \in Nat
  BY CStringLength
<1>3. /\ response \o CString(line) \in Seq(Bytes)
      /\ Len(response \o CString(line)) = Len(response) + Len(CString(line))
  BY <1>1, <1>2
<1> QED
  BY <1>1, <1>2, <1>3 DEF Text, Length, Fits

\* The stack keeps its depth.
LEMMA PushType ==
  ASSUME TypeOK, NEW byte \in Bytes
  PROVE  Push(byte) \in Seq(Bytes) /\ Len(Push(byte)) <= StackDepth
BY DEF TypeOK, Push

\* The end of a command leaves every buffer but line_buffer empty.
LEMMA EndType ==
  ASSUME TypeOK, NEW result \in Results, NEW text, NEW length, CommandEnd(result, text, length),
         line_buffer' \in Seq(Bytes), Len(line_buffer') <= LineMax - 1
  PROVE  TypeOK'
BY DEF TypeOK, CommandEnd, clear_response_buffer, stack_clear, NoReport

\* The empty buffers and every step keep the ranges.
LEMMA TypeStep ==
  ASSUME TypeOK, [Next]_vars
  PROVE  TypeOK'
<1> USE DEF clear_response_buffer, stack_clear, NoReport
<1>1. ASSUME NEW t \in Tasks, Dispatch(t) PROVE TypeOK'
  BY <1>1 DEF TypeOK, Dispatch
<1>2. CASE TimeOut
  <2>1. CommandEnd("ATC_TIMEOUT", response, response_length) /\ UNCHANGED line_buffer
    BY <1>2 DEF TimeOut
  <2> QED
    BY <2>1, EndType DEF Results, TypeOK
<1>3. CASE LineAside
  BY <1>3 DEF LineAside, Recv, GoOn, TypeOK
<1>4. CASE LineNormal
  <2> DEFINE line == Append(line_buffer, NL)
  <2>1. line \in Seq(Bytes) /\ status = "LINE_RECV" /\ line_buffer' = <<>>
    BY <1>4 DEF LineNormal, Recv, TypeOK
  <2>2. CASE CommandEnd(Meaning(line), Text(line), Length(line)) /\ IsFinal(line)
    <3>1. Meaning(line) \in Results
      BY <2>2 DEF Meaning, IsFinal, Results
    <3> HIDE DEF line
    <3> QED
      BY <2>1, <2>2, <3>1, EndType
  <2>3. CASE GoOn /\ response' = Text(line) /\ response_length' = Length(line) /\ UNCHANGED byte_stack
    <3> HIDE DEF line
    <3> QED
      BY <2>1, <2>3, TextLength DEF TypeOK, GoOn
  <2> QED
    BY <1>4, <2>2, <2>3 DEF LineNormal
<1>5. ASSUME NEW byte \in Bytes, LineDiscard(byte) \/ LineByte(byte) \/ BinaryDiscard(byte) PROVE TypeOK'
  <2>1. CASE LineDiscard(byte) \/ BinaryDiscard(byte)
    <3>1. report'.result = "none" /\ UNCHANGED <<task, status, buffers>>
      BY <2>1 DEF LineDiscard, BinaryDiscard, GoOn
    <3> QED
      BY <3>1 DEF TypeOK, buffers
  <2>2. CASE LineByte(byte)
    <3>1. /\ line_buffer' = Append(line_buffer, byte) /\ Len(line_buffer) < LineMax - 1
          /\ report'.result = "none" /\ UNCHANGED <<task, status, response, response_length, byte_stack>>
      BY <2>2 DEF LineByte, GoOn, HasRoom
    <3>2. Len(line_buffer') <= LineMax - 1 /\ line_buffer' \in Seq(Bytes)
      BY <3>1 DEF TypeOK
    <3> QED
      BY <3>1, <3>2 DEF TypeOK
  <2> QED
    BY <1>5, <2>1, <2>2
<1>6. ASSUME NEW byte \in Bytes, PromptByte(byte) PROVE TypeOK'
  BY <1>6, PushType DEF PromptByte, Recv, GoOn, TypeOK
<1>7. ASSUME NEW byte \in Bytes, PromptMatch(byte) PROVE TypeOK'
  <2>1. CASE CommandEnd("ATC_SUCCESS", response, response_length)
    BY <1>7, <2>1, EndType DEF PromptMatch, Results, TypeOK
  <2>2. CASE status' = "BINARY" /\ clear_response_buffer /\ stack_clear /\ report' = NoReport /\ UNCHANGED task
    BY <1>7, <2>2 DEF PromptMatch, TypeOK
  <2> QED
    BY <1>7, <2>1, <2>2 DEF PromptMatch
<1>8. ASSUME NEW byte \in Bytes, BinaryByte(byte) PROVE TypeOK'
  <2>1. CASE CommandEnd("ATC_SUCCESS", Append(response, byte), response_length + 1)
    BY <1>8, <2>1, EndType DEF BinaryByte, Results, TypeOK
  <2>2. CASE /\ response' = Append(response, byte) /\ response_length' = response_length + 1
             /\ GoOn /\ UNCHANGED byte_stack
    BY <1>8, <2>2 DEF BinaryByte, Recv, GoOn, TypeOK
  <2> QED
    BY <1>8, <2>1, <2>2 DEF BinaryByte
<1>9. CASE UNCHANGED vars
  BY <1>9 DEF vars, buffers, TypeOK
<1> QED
  BY <1>1, <1>2, <1>3, <1>4, <1>5, <1>6, <1>7, <1>8, <1>9 DEF Next

\* No buffer is overrun, by whatever bytes, and the response keeps room for
\* its terminator outside binary data.
THEOREM BuffersKept == Spec => []TypeOK
<1>1. Init => TypeOK
  BY DEF Init, TypeOK, NoReport
<1>2. TypeOK /\ [Next]_vars => TypeOK'
  BY TypeStep
<1> QED
  BY <1>1, <1>2, PTL DEF Spec

-----------------------------------------------------------------------------
(* Where a prompt ends.                                                     *)

\* The first of the places where the prompt of t ends in s.
IsFirstEnd(m, t, s) == m \in PromptEnds(t, s) /\ \A e \in PromptEnds(t, s) : m <= e

\* The minimum is determined by what it is.
LEMMA MinIs ==
  ASSUME NEW S \in SUBSET Int, NEW m \in S, \A x \in S : m <= x
  PROVE  Min(S) = m
<1>1. \E x \in S : \A y \in S : x <= y
  OBVIOUS
<1>2. Min(S) \in S /\ \A y \in S : Min(S) <= y
  BY <1>1, Zenon DEF Min
<1>3. Min(S) <= m /\ m <= Min(S) /\ Min(S) \in Int
  BY <1>2
<1> HIDE DEF Min
<1> QED
  BY <1>3

\* The smaller of two numbers.
LEMMA MinOfTwo ==
  ASSUME NEW a \in Nat, NEW b \in Nat
  PROVE  Min({a, b}) = IF a <= b THEN a ELSE b
<1> DEFINE S == {a, b}
           m == IF a <= b THEN a ELSE b
<1>1. S \in SUBSET Int /\ m \in S /\ \A x \in S : m <= x
  OBVIOUS
<1>2. Min(S) = m
  <2> HIDE DEF S, m
  <2> QED
    BY <1>1, MinIs
<1> QED
  BY <1>2

\* The data begins after the first end.
LEMMA DataFrom ==
  ASSUME NEW t \in Tasks, NEW s \in Seq(Bytes), NEW m, IsFirstEnd(m, t, s)
  PROVE  /\ m \in 1 .. Len(s) /\ DataAfter(t, s) = SubSeq(s, m + 1, Len(s))
         /\ DataAfter(t, s) \in Seq(Bytes) /\ Len(DataAfter(t, s)) = Len(s) - m
<1>1. PromptEnds(t, s) \subseteq 1 .. Len(s)
  BY DEF PromptEnds
<1>2. m \in PromptEnds(t, s) /\ \A e \in PromptEnds(t, s) : m <= e
  BY DEF IsFirstEnd
<1>3. Min(PromptEnds(t, s)) = m
  BY <1>1, <1>2, MinIs
<1> QED
  BY <1>1, <1>2, <1>3 DEF DataAfter

\* An appended byte is the last one.
LEMMA AppendAt ==
  ASSUME NEW s \in Seq(Bytes), NEW b \in Bytes
  PROVE  /\ Append(s, b) \in Seq(Bytes) /\ Len(Append(s, b)) = Len(s) + 1
         /\ \A k \in 1 .. Len(s) + 1 : Append(s, b)[k] = IF k <= Len(s) THEN s[k] ELSE b
<1>1. Append(s, b) \in Seq(Bytes) /\ Len(Append(s, b)) = Len(s) + 1 /\ Len(s) \in Nat
  OBVIOUS
<1>2. ASSUME NEW k \in 1 .. Len(s) + 1 PROVE Append(s, b)[k] = IF k <= Len(s) THEN s[k] ELSE b
  BY <1>1
<1> QED
  BY <1>1, <1>2

\* The part of s from behind a up to e.
LEMMA PartIs ==
  ASSUME NEW s \in Seq(Bytes), NEW e \in 0 .. Len(s), NEW a \in 0 .. e
  PROVE  /\ SubSeq(s, 1 + a, e) \in Seq(Bytes) /\ Len(SubSeq(s, 1 + a, e)) = e - a
         /\ \A i \in 1 .. e - a : SubSeq(s, 1 + a, e)[i] = s[a + i]
<1> DEFINE part == SubSeq(s, 1 + a, e)
           n == Len(s)
<1>1. n \in Nat /\ \A i \in 1 .. n : s[i] \in Bytes
  BY LenProperties, ElementOfSeq
<1> HIDE DEF n
<1>2. e \in 0 .. n
  BY DEF n
<1>3. \A i \in 1 + a .. e : s[i] \in Bytes
  BY <1>1, <1>2
<1>4. /\ part \in Seq(Bytes) /\ Len(part) = IF 1 + a <= e THEN e - (1 + a) + 1 ELSE 0
      /\ \A i \in 1 .. e - (1 + a) + 1 : part[i] = s[(1 + a) + i - 1]
  <2>1. 1 + a \in Int /\ e \in Int
    BY <1>1, <1>2
  <2> QED
    BY <1>3, <2>1, SubSeqProperties
<1> HIDE DEF part
<1>5. Len(part) = e - a
  BY <1>1, <1>2, <1>4
<1>6. ASSUME NEW i \in 1 .. e - a PROVE part[i] = s[a + i]
  <2>1. i \in 1 .. e - (1 + a) + 1 /\ (1 + a) + i - 1 = a + i
    BY <1>1, <1>2
  <2>2. part[i] = s[(1 + a) + i - 1]
    BY <1>4, <2>1
  <2> QED
    BY <2>1, <2>2
<1> QED
  BY <1>4, <1>5, <1>6 DEF part

\* A suffix grows with the sequence.
LEMMA SuffixGrows ==
  ASSUME NEW s \in Seq(Bytes), NEW b \in Bytes, NEW m \in 0 .. Len(s)
  PROVE  SubSeq(Append(s, b), 1 + m, Len(s) + 1) = Append(SubSeq(s, 1 + m, Len(s)), b)
<1> DEFINE s2 == Append(s, b)
           n == Len(s)
           data == SubSeq(s, 1 + m, n)
           grown == SubSeq(s2, 1 + m, n + 1)
<1>1. /\ s2 \in Seq(Bytes) /\ Len(s2) = n + 1 /\ n \in Nat
      /\ \A k \in 1 .. n + 1 : s2[k] = IF k <= n THEN s[k] ELSE b
  BY AppendAt, LenProperties
<1>2. data \in Seq(Bytes) /\ Len(data) = n - m /\ \A i \in 1 .. n - m : data[i] = s[m + i]
  <2>1. n \in 0 .. Len(s) /\ m \in 0 .. n
    BY <1>1
  <2> QED
    BY <2>1, PartIs
<1> HIDE DEF s2, n, data
<1>3. m \in 0 .. n /\ n \in Nat
  BY <1>1 DEF n
<1>4. grown \in Seq(Bytes) /\ Len(grown) = n + 1 - m /\ \A i \in 1 .. n + 1 - m : grown[i] = s2[m + i]
  <2>1. n + 1 \in 0 .. Len(s2) /\ m \in 0 .. n + 1
    BY <1>1, <1>3
  <2> QED
    BY <1>1, <2>1, PartIs
<1>5. /\ Append(data, b) \in Seq(Bytes) /\ Len(Append(data, b)) = Len(data) + 1
      /\ \A i \in 1 .. Len(data) + 1 : Append(data, b)[i] = IF i <= Len(data) THEN data[i] ELSE b
  BY <1>2, AppendAt
<1> HIDE DEF grown
<1>6. Len(grown) = Len(Append(data, b)) /\ Len(Append(data, b)) = n - m + 1
  BY <1>1, <1>2, <1>3, <1>4, <1>5
<1>7. ASSUME NEW i \in 1 .. n - m + 1 PROVE grown[i] = Append(data, b)[i]
  <2>1. grown[i] = s2[m + i] /\ m + i \in 1 .. n + 1
    <3>1. i \in 1 .. n + 1 - m /\ m + i \in 1 .. n + 1
      BY <1>1, <1>3
    <3> QED
      BY <1>4, <3>1
  <2>2. CASE i <= n - m
    <3>1. s2[m + i] = s[m + i] /\ data[i] = s[m + i]
      BY <1>1, <1>2, <1>3, <2>1, <2>2
    <3>2. Append(data, b)[i] = data[i]
      BY <1>1, <1>2, <1>3, <1>5, <2>2
    <3> QED
      BY <2>1, <3>1, <3>2
  <2>3. CASE i = n - m + 1
    <3>1. s2[m + i] = b
      BY <1>1, <1>3, <2>1, <2>3
    <3>2. Append(data, b)[i] = b
      BY <1>1, <1>2, <1>3, <1>5, <2>3
    <3> QED
      BY <2>1, <3>1, <3>2
  <2>4. i <= n - m \/ i = n - m + 1
    BY <1>3
  <2> QED
    BY <2>2, <2>3, <2>4
<1>8. grown = Append(data, b)
  <2>1. \A i \in 1 .. Len(grown) : grown[i] = Append(data, b)[i]
    BY <1>6, <1>7
  <2> QED
    BY <1>4, <1>5, <1>6, <2>1, SeqEqual
<1> QED
  BY <1>8 DEF grown, data, s2, n

\* One more byte changes nothing about the ends before it.
LEMMA EndsAppend ==
  ASSUME NEW t \in Tasks, NEW s \in Seq(Bytes), NEW b \in Bytes, NEW e \in DOMAIN s
  PROVE  e \in PromptEnds(t, Append(s, b)) <=> e \in PromptEnds(t, s)
<1>1. e \in DOMAIN Append(s, b) /\ Len(t.prompt) \in Nat /\ DOMAIN t.prompt = 1 .. Len(t.prompt)
  OBVIOUS
<1>2. Len(t.prompt) <= e =>
        \A i \in DOMAIN t.prompt : Append(s, b)[e - Len(t.prompt) + i] = s[e - Len(t.prompt) + i]
  BY <1>1
<1> QED
  BY <1>1, <1>2 DEF PromptEnds

\* The data grows by that byte.
LEMMA DataGrows ==
  ASSUME NEW t \in Tasks, NEW s \in Seq(Bytes), NEW b \in Bytes, NEW m, IsFirstEnd(m, t, s)
  PROVE  IsFirstEnd(m, t, Append(s, b)) /\ DataAfter(t, Append(s, b)) = Append(DataAfter(t, s), b)
<1>1. m \in 1 .. Len(s) /\ DataAfter(t, s) = SubSeq(s, m + 1, Len(s))
  BY DataFrom
<1>2. Append(s, b) \in Seq(Bytes) /\ Len(Append(s, b)) = Len(s) + 1
  OBVIOUS
<1>3. IsFirstEnd(m, t, Append(s, b))
  <2>1. m \in PromptEnds(t, Append(s, b))
    BY <1>1, EndsAppend DEF IsFirstEnd
  <2>2. ASSUME NEW e \in PromptEnds(t, Append(s, b)) PROVE m <= e
    <3>1. e \in 1 .. Len(s) + 1
      BY <1>2, <2>2 DEF PromptEnds
    <3>2. CASE e \in DOMAIN s
      BY <2>2, <3>2, EndsAppend DEF IsFirstEnd
    <3> QED
      BY <1>1, <3>1, <3>2
  <2> QED
    BY <2>1, <2>2 DEF IsFirstEnd
<1>4. DataAfter(t, Append(s, b)) = SubSeq(Append(s, b), m + 1, Len(s) + 1)
  BY <1>2, <1>3, DataFrom
<1>5. SubSeq(Append(s, b), m + 1, Len(s) + 1) = Append(SubSeq(s, m + 1, Len(s)), b)
  <2>1. m \in 0 .. Len(s) /\ 1 + m = m + 1
    BY <1>1
  <2>2. SubSeq(Append(s, b), 1 + m, Len(s) + 1) = Append(SubSeq(s, 1 + m, Len(s)), b)
    BY <2>1, SuffixGrows
  <2> QED
    BY <2>1, <2>2
<1> QED
  BY <1>1, <1>3, <1>4, <1>5

-----------------------------------------------------------------------------
(* The prompt.                                                              *)

\* The stack holds the newest bytes of the stream, up to its depth.
Window(stack, s) ==
  /\ Len(stack) = IF Len(s) < StackDepth THEN Len(s) ELSE StackDepth
  /\ \A i \in 0 .. Len(stack) - 1 : stack[Len(stack) - i] = s[Len(s) - i]

\* It still does when a byte is pushed.
LEMMA WindowGrows ==
  ASSUME byte_stack \in Seq(Bytes), NEW s \in Seq(Bytes), NEW b \in Bytes, Window(byte_stack, s)
  PROVE  Window(Push(b), Append(s, b)) /\ Push(b) \in Seq(Bytes)
<1> DEFINE kept == IF Len(byte_stack) < StackDepth THEN byte_stack ELSE Tail(byte_stack)
<1>1. Len(s) \in Nat /\ Len(byte_stack) \in Nat /\ StackDepth \in Nat \ {0}
  OBVIOUS
<1>2. /\ kept \in Seq(Bytes) /\ Len(kept) = IF Len(s) < StackDepth THEN Len(s) ELSE StackDepth - 1
      /\ \A i \in 0 .. Len(kept) - 1 : kept[Len(kept) - i] = s[Len(s) - i]
  <2>1. CASE Len(byte_stack) < StackDepth
    BY <1>1, <2>1 DEF Window
  <2>2. CASE ~(Len(byte_stack) < StackDepth)
    <3>1. Len(byte_stack) = StackDepth /\ byte_stack # <<>>
      BY <1>1, <2>2 DEF Window
    <3>2. /\ Tail(byte_stack) \in Seq(Bytes) /\ Len(Tail(byte_stack)) = Len(byte_stack) - 1
          /\ \A i \in 1 .. Len(Tail(byte_stack)) : Tail(byte_stack)[i] = byte_stack[i + 1]
      BY <3>1, HeadTailProperties
    <3>3. kept = Tail(byte_stack) /\ Len(kept) = StackDepth - 1 /\ kept \in Seq(Bytes)
      BY <2>2, <3>1, <3>2
    <3>4. ASSUME NEW i \in 0 .. StackDepth - 2 PROVE kept[Len(kept) - i] = s[Len(s) - i]
      <4>1. StackDepth - 1 - i \in 1 .. StackDepth - 1 /\ StackDepth - 1 - i + 1 = StackDepth - i
        BY <1>1
      <4>2. Tail(byte_stack)[StackDepth - 1 - i] = byte_stack[StackDepth - i]
        BY <3>1, <3>2, <4>1
      <4>3. byte_stack[StackDepth - i] = s[Len(s) - i]
        BY <1>1, <3>1 DEF Window
      <4> QED
        BY <3>3, <4>2, <4>3
    <3>5. ~(Len(s) < StackDepth)
      BY <1>1, <3>1 DEF Window
    <3> HIDE DEF kept
    <3> QED
      BY <1>1, <3>3, <3>4, <3>5
  <2> QED
    BY <2>1, <2>2
<1>3. Push(b) = Append(kept, b)
  BY DEF Push
<1> HIDE DEF kept
<1>4. /\ Append(kept, b) \in Seq(Bytes) /\ Len(Append(kept, b)) = Len(kept) + 1
      /\ \A k \in 1 .. Len(kept) + 1 : Append(kept, b)[k] = IF k <= Len(kept) THEN kept[k] ELSE b
  BY <1>2, AppendAt
<1>5. /\ Len(Append(s, b)) = Len(s) + 1
      /\ \A k \in 1 .. Len(s) + 1 : Append(s, b)[k] = IF k <= Len(s) THEN s[k] ELSE b
  BY AppendAt
<1>6. Len(kept) \in Nat /\ Len(kept) <= Len(s)
  BY <1>1, <1>2
<1>7. ASSUME NEW i \in 0 .. Len(kept) PROVE Append(kept, b)[Len(kept) + 1 - i] = Append(s, b)[Len(s) + 1 - i]
  <2>1. CASE i = 0
    BY <1>1, <1>4, <1>5, <1>6, <2>1
  <2>2. CASE i # 0
    <3>1. i - 1 \in 0 .. Len(kept) - 1 /\ Len(kept) - (i - 1) = Len(kept) + 1 - i /\ Len(s) - (i - 1) = Len(s) + 1 - i
      BY <1>1, <1>6, <2>2
    <3>2. kept[Len(kept) + 1 - i] = s[Len(s) + 1 - i]
      BY <1>2, <3>1
    <3> QED
      BY <1>1, <1>4, <1>5, <1>6, <2>2, <3>2
  <2> QED
    BY <2>1, <2>2
<1> QED
  BY <1>1, <1>2, <1>3, <1>4, <1>5, <1>6, <1>7 DEF Window

\* A stack that holds the newest bytes of s matches where the prompt ends in s.
LEMMA MatchIsEnd ==
  ASSUME task \in Tasks, NEW s \in Seq(Bytes), s # <<>>, NEW stack \in Seq(Bytes), Window(stack, s)
  PROVE  Matches(stack) <=> Len(s) \in PromptEnds(task, s)
<1> DEFINE prompt == task.prompt
           n == Len(prompt)
<1>1. prompt \in Seq(Bytes) /\ n \in Nat /\ DOMAIN prompt = 1 .. n /\ Len(s) \in Nat \ {0} /\ Len(stack) \in Nat
  BY EmptySeq
<1>2. Matches(stack) <=> \A i \in 0 .. n - 1 : PeekAt(stack, i) # NUL /\ PeekAt(stack, i) = prompt[n - i]
  BY DEF Matches
<1>3. Len(s) \in PromptEnds(task, s) <=>
        /\ n <= StackDepth /\ \A i \in 1 .. n : prompt[i] # NUL
        /\ n <= Len(s) /\ \A i \in 1 .. n : s[Len(s) - n + i] = prompt[i]
  <2>1. Len(s) \in DOMAIN s
    BY <1>1
  <2>2. Len(s) \in PromptEnds(task, s) <=>
          /\ Visible(prompt) /\ n <= Len(s)
          /\ \A i \in DOMAIN prompt : s[Len(s) - n + i] = prompt[i]
    BY <2>1 DEF PromptEnds
  <2>3. Visible(prompt) <=> n <= StackDepth /\ \A i \in DOMAIN prompt : prompt[i] # NUL
    BY DEF Visible
  <2> HIDE DEF prompt, n
  <2> QED
    BY <1>1, <2>2, <2>3
<1>4. \A i \in Nat : PeekAt(stack, i) = IF i < Len(stack) THEN s[Len(s) - i] ELSE NUL
  BY <1>1 DEF PeekAt, Window
<1>5. n <= Len(stack) <=> n <= StackDepth /\ n <= Len(s)
  BY <1>1 DEF Window
<1> HIDE DEF prompt, n
<1>6. ASSUME Matches(stack) PROVE Len(s) \in PromptEnds(task, s)
  <2>1. n <= Len(stack)
    <3>1. ~(Len(stack) \in 0 .. n - 1)
      BY <1>1, <1>2, <1>4, <1>6
    <3> QED
      BY <1>1, <3>1
  <2>2. ASSUME NEW i \in 1 .. n PROVE prompt[i] # NUL /\ s[Len(s) - n + i] = prompt[i]
    <3>1. n - i \in 0 .. n - 1 /\ n - i \in Nat /\ n - (n - i) = i /\ n - i < Len(stack) /\ Len(s) - (n - i) = Len(s) - n + i
      BY <1>1, <2>1
    <3>2. PeekAt(stack, n - i) # NUL /\ PeekAt(stack, n - i) = prompt[i]
      BY <1>2, <1>6, <3>1
    <3> QED
      BY <1>4, <3>1, <3>2
  <2> QED
    BY <1>3, <1>5, <2>1, <2>2
<1>7. ASSUME Len(s) \in PromptEnds(task, s) PROVE Matches(stack)
  <2>1. n <= Len(stack)
    BY <1>3, <1>5, <1>7
  <2>2. ASSUME NEW i \in 0 .. n - 1 PROVE PeekAt(stack, i) # NUL /\ PeekAt(stack, i) = prompt[n - i]
    <3>1. i \in Nat /\ n - i \in 1 .. n /\ i < Len(stack) /\ Len(s) - n + (n - i) = Len(s) - i
      BY <1>1, <2>1
    <3>2. prompt[n - i] # NUL /\ s[Len(s) - i] = prompt[n - i]
      BY <1>3, <1>7, <3>1
    <3> QED
      BY <1>4, <3>1, <3>2
  <2> QED
    BY <1>2, <2>2
<1> QED
  BY <1>6, <1>7

-----------------------------------------------------------------------------
(* The inductive invariant behind PromptAnswer.                             *)

\* Before the prompt there is no response yet and no end of the prompt.
Waiting ==
  /\ Window(byte_stack, stream) /\ PromptEnds(task, stream) = {}
  /\ response = <<>> /\ response_length = 0

\* After it the response is the data, up to the size of the buffer.
Collecting ==
  /\ task.need # 0
  /\ \E m \in DOMAIN stream : IsFirstEnd(m, task, stream)
  /\ Len(DataAfter(task, stream)) < task.need \/ task.need > ResponseMax
  /\ response = SubSeq(DataAfter(task, stream), 1, response_length)
  /\ response_length = Min({Len(DataAfter(task, stream)), ResponseMax})

\* A prompt command that ended without a timeout has all its data.
Reported ==
  report.task # NoTask /\ report.task.prompt # <<>> /\ report.result # "ATC_TIMEOUT" =>
    /\ report.result = "ATC_SUCCESS" /\ PromptEnds(report.task, stream) # {}
    /\ report.text = DataAfter(report.task, stream)
    /\ Len(report.text) = report.task.need /\ report.length = report.task.need

PromptInv ==
  /\ stream \in Seq(Bytes)
  /\ status = "LINE_RECV" <=> (task = NoTask \/ task.prompt = <<>>)
  /\ status # "PROMPT" => byte_stack = <<>>
  /\ status # "LINE_RECV" => line_buffer = carry
  /\ status = "PROMPT" => Waiting
  /\ status = "BINARY" => Collecting
  /\ Reported

\* It says what PromptAnswer does.
LEMMA PromptInvImplies == TypeOK /\ PromptInv => PromptAnswer
<1> SUFFICES ASSUME TypeOK, PromptInv PROVE PromptAnswer
  OBVIOUS
<1>1. ASSUME task # NoTask, task.prompt # <<>>
      PROVE  /\ line_buffer = carry
             /\ status = "PROMPT" <=> PromptEnds(task, stream) = {}
             /\ status = "BINARY" => Collecting
  BY <1>1 DEF TypeOK, PromptInv, Waiting, Collecting, IsFirstEnd
<1> QED
  BY <1>1 DEF PromptInv, Reported, Collecting, PromptAnswer

\* A prompt command runs in a prompt mode, and a byte joins its stream.
LEMMA InPromptMode ==
  ASSUME TypeOK, PromptInv, NEW mode \in {"PROMPT", "BINARY"}, NEW byte \in Bytes, Recv(mode, byte)
  PROVE  task \in Tasks /\ task.prompt # <<>> /\ stream' = Append(stream, byte) /\ carry' = carry /\ status = mode
BY DEF TypeOK, PromptInv, Recv

\* The end of a command: only what it reports matters.
LEMMA EndInv ==
  ASSUME NEW result, NEW text, NEW length, CommandEnd(result, text, length), stream' \in Seq(Bytes), Reported'
  PROVE  PromptInv'
BY DEF CommandEnd, stack_clear, PromptInv

\* A command starts with an empty stack and an empty stream.
LEMMA DispatchInv ==
  ASSUME TypeOK, PromptInv, NEW t \in Tasks, Dispatch(t)
  PROVE  PromptInv'
<1>1. byte_stack = <<>> /\ status = "LINE_RECV"
  BY DEF PromptInv, Dispatch
<1>2. /\ task' = t /\ t # NoTask /\ stream' = <<>> /\ byte_stack' = <<>> /\ response' = <<>> /\ response_length' = 0
      /\ line_buffer' = carry' /\ report'.task = NoTask
      /\ status' = IF t.prompt = <<>> THEN "LINE_RECV" ELSE "PROMPT"
  BY <1>1 DEF Dispatch, clear_response_buffer, NoReport
<1>3. PromptEnds(t, <<>>) = {} /\ Window(<<>>, <<>>) /\ <<>> \in Seq(Bytes)
  BY DEF PromptEnds, Window
<1>4. Waiting' /\ Reported'
  BY <1>2, <1>3 DEF Waiting, Reported
<1> QED
  BY <1>2, <1>3, <1>4 DEF PromptInv

\* A step of the line mode that ends no command.
LEMMA LineModeInv ==
  ASSUME PromptInv, status = "LINE_RECV", GoOn, UNCHANGED byte_stack, stream' \in Seq(Bytes)
  PROVE  PromptInv'
BY DEF PromptInv, GoOn, NoReport, Reported

\* The stream after a byte of the line mode.
LEMMA LineStream ==
  ASSUME PromptInv, NEW byte \in Bytes, Recv("LINE_RECV", byte)
  PROVE  stream' \in Seq(Bytes) /\ status = "LINE_RECV"
<1>1. stream \in Seq(Bytes) /\ <<>> \in Seq(Bytes) /\ Append(stream, byte) \in Seq(Bytes)
  BY DEF PromptInv
<1>2. status = "LINE_RECV" /\ (stream' = <<>> \/ stream' = Append(stream, byte))
  BY DEF Recv
<1> QED
  BY <1>1, <1>2

\* A line that ends a command ends a line command.
LEMMA LineEndInv ==
  ASSUME PromptInv, LineNormal, NEW result, NEW text, NEW length, CommandEnd(result, text, length)
  PROVE  PromptInv'
<1>1. stream' \in Seq(Bytes) /\ status = "LINE_RECV"
  BY LineStream DEF LineNormal
<1>2. report'.task = NoTask \/ report'.task.prompt = <<>>
  BY <1>1 DEF PromptInv, CommandEnd, NoReport
<1> QED
  BY <1>1, <1>2, EndInv DEF Reported

\* Without a match the new byte ends no prompt.
LEMMA PromptByteInv ==
  ASSUME TypeOK, PromptInv, NEW byte \in Bytes, PromptByte(byte)
  PROVE  PromptInv'
<1>1. task \in Tasks /\ task.prompt # <<>> /\ stream' = Append(stream, byte) /\ carry' = carry /\ status = "PROMPT"
  BY InPromptMode DEF PromptByte
<1>2. stream \in Seq(Bytes) /\ Waiting /\ byte_stack \in Seq(Bytes) /\ line_buffer = carry /\ task # NoTask
  BY <1>1 DEF PromptInv, TypeOK
<1>3. /\ byte_stack' = Push(byte) /\ ~Matches(Push(byte)) /\ UNCHANGED <<task, status>> /\ report'.task = NoTask
      /\ UNCHANGED <<line_buffer, response, response_length>>
  BY DEF PromptByte, GoOn, NoReport
<1>4. Window(Push(byte), stream') /\ Push(byte) \in Seq(Bytes)
  BY <1>1, <1>2, WindowGrows DEF Waiting
<1>5. stream' \in Seq(Bytes) /\ stream' # <<>> /\ Len(stream') = Len(stream) + 1
  BY <1>1, <1>2
<1>6. Len(stream') \notin PromptEnds(task, stream')
  BY <1>1, <1>3, <1>4, <1>5, MatchIsEnd
<1>7. PromptEnds(task, stream') = {}
  <2>1. ASSUME NEW e \in PromptEnds(task, stream') PROVE FALSE
    <3>1. e \in 1 .. Len(stream) + 1
      BY <1>5, <2>1 DEF PromptEnds
    <3>2. e \in DOMAIN stream
      BY <1>2, <1>5, <1>6, <2>1, <3>1
    <3> QED
      BY <1>1, <1>2, <2>1, <3>2, EndsAppend DEF Waiting
  <2> QED
    BY <2>1
<1>8. Waiting' /\ Reported'
  BY <1>2, <1>3, <1>4, <1>7 DEF Waiting, Reported
<1> QED
  BY <1>1, <1>2, <1>3, <1>5, <1>8 DEF PromptInv

\* At the first match the data begins; without data the command ends.
LEMMA PromptMatchInv ==
  ASSUME TypeOK, PromptInv, NEW byte \in Bytes, PromptMatch(byte)
  PROVE  PromptInv'
<1>1. task \in Tasks /\ task.prompt # <<>> /\ stream' = Append(stream, byte) /\ carry' = carry /\ status = "PROMPT"
  BY InPromptMode DEF PromptMatch
<1>2. /\ stream \in Seq(Bytes) /\ Waiting /\ byte_stack \in Seq(Bytes) /\ line_buffer = carry /\ task # NoTask
      /\ task.need \in Nat
  BY <1>1 DEF PromptInv, TypeOK
<1>3. stream' \in Seq(Bytes) /\ stream' # <<>> /\ Len(stream') = Len(stream) + 1 /\ Len(stream) \in Nat
  BY <1>1, <1>2
<1>4. Len(stream') \in PromptEnds(task, stream')
  <2>1. Window(Push(byte), stream') /\ Push(byte) \in Seq(Bytes)
    BY <1>1, <1>2, WindowGrows DEF Waiting
  <2> QED
    BY <1>1, <1>3, <2>1, MatchIsEnd DEF PromptMatch
<1>5. IsFirstEnd(Len(stream'), task, stream')
  <2>1. ASSUME NEW e \in PromptEnds(task, stream') PROVE Len(stream') <= e
    <3>1. e \in 1 .. Len(stream) + 1
      BY <1>3, <2>1 DEF PromptEnds
    <3>2. e \notin DOMAIN stream
      BY <1>1, <1>2, <2>1, EndsAppend DEF Waiting
    <3> QED
      BY <1>2, <1>3, <3>1, <3>2
  <2> QED
    BY <1>4, <2>1 DEF IsFirstEnd
<1>6. DataAfter(task, stream') = <<>>
  <2>1. DataAfter(task, stream') \in Seq(Bytes) /\ Len(DataAfter(task, stream')) = Len(stream') - Len(stream')
    BY <1>1, <1>3, <1>5, DataFrom
  <2> QED
    BY <1>3, <2>1, EmptySeq
<1>7. CASE task.need # 0 /\ status' = "BINARY" /\ clear_response_buffer /\ stack_clear /\ report' = NoReport /\ UNCHANGED task
  <2>1. /\ response' = <<>> /\ response_length' = 0 /\ byte_stack' = <<>> /\ report'.task = NoTask /\ task' = task
        /\ line_buffer' = carry'
    BY <1>1, <1>2, <1>7 DEF PromptMatch, clear_response_buffer, stack_clear, NoReport
  <2>2. Min({0, ResponseMax}) = 0 /\ Len(<<>>) = 0 /\ SubSeq(<<>>, 1, 0) = <<>> /\ Len(stream') \in DOMAIN stream'
    BY <1>3, MinOfTwo
  <2>3. Collecting' /\ Reported'
    BY <1>2, <1>5, <1>6, <1>7, <2>1, <2>2 DEF Collecting, Reported
  <2> QED
    BY <1>1, <1>2, <1>3, <1>7, <2>1, <2>3 DEF PromptInv
<1>8. CASE task.need = 0 /\ CommandEnd("ATC_SUCCESS", response, response_length)
  <2>1. report' = [result |-> "ATC_SUCCESS", text |-> <<>>, length |-> 0, task |-> task]
    BY <1>2, <1>8 DEF CommandEnd, Waiting
  <2>2. Len(<<>>) = 0 /\ PromptEnds(task, stream') # {}
    BY <1>4
  <2>3. Reported'
    BY <1>6, <1>8, <2>1, <2>2 DEF Reported
  <2> QED
    BY <1>3, <1>8, <2>3, EndInv
<1> QED
  BY <1>7, <1>8 DEF PromptMatch

\* What is known while data arrives, and how a byte extends it.
LEMMA BinaryData ==
  ASSUME TypeOK, PromptInv, NEW byte \in Bytes, Recv("BINARY", byte)
  PROVE  /\ task \in Tasks /\ task # NoTask /\ task.prompt # <<>> /\ task.need \in Nat \ {0} /\ status = "BINARY"
         /\ stream' \in Seq(Bytes) /\ line_buffer = carry' /\ byte_stack = <<>>
         /\ DataAfter(task, stream) \in Seq(Bytes) /\ Collecting
         /\ DataAfter(task, stream') = Append(DataAfter(task, stream), byte)
         /\ \E m \in DOMAIN stream' : IsFirstEnd(m, task, stream')
         /\ PromptEnds(task, stream') # {}
<1>1. task \in Tasks /\ task.prompt # <<>> /\ stream' = Append(stream, byte) /\ carry' = carry /\ status = "BINARY"
  BY InPromptMode
<1>2. stream \in Seq(Bytes) /\ Collecting /\ byte_stack = <<>> /\ line_buffer = carry /\ task # NoTask
  BY <1>1 DEF PromptInv
<1>3. PICK m \in DOMAIN stream : IsFirstEnd(m, task, stream)
  BY <1>2 DEF Collecting
<1>4. DataAfter(task, stream) \in Seq(Bytes)
  BY <1>1, <1>2, <1>3, DataFrom
<1>5. IsFirstEnd(m, task, stream') /\ DataAfter(task, stream') = Append(DataAfter(task, stream), byte)
  BY <1>1, <1>2, <1>3, DataGrows
<1>6. m \in DOMAIN stream' /\ stream' \in Seq(Bytes)
  BY <1>1, <1>2, <1>3
<1> QED
  BY <1>1, <1>2, <1>4, <1>5, <1>6 DEF Collecting, IsFirstEnd

\* A prefix of a sequence does not see what is appended.
LEMMA PrefixOfAppend ==
  ASSUME NEW s \in Seq(Bytes), NEW b \in Bytes, NEW n \in 0 .. Len(s)
  PROVE  SubSeq(Append(s, b), 1, n) = SubSeq(s, 1, n)
<1>1. \A i \in 1 .. n : Append(s, b)[i] = s[i] /\ s[i] \in Bytes
  <2>1. \A k \in 1 .. Len(s) + 1 : Append(s, b)[k] = IF k <= Len(s) THEN s[k] ELSE b
    BY AppendAt
  <2> QED
    BY <2>1
<1> DEFINE longer == Append(s, b)
<1> HIDE DEF longer
<1>2. n \in Int /\ 1 \in Int /\ \A i \in 1 .. n : longer[i] = s[i] /\ longer[i] \in Bytes /\ s[i] \in Bytes
  BY <1>1 DEF longer
<1>3. /\ SubSeq(longer, 1, n) \in Seq(Bytes) /\ Len(SubSeq(longer, 1, n)) = IF 1 <= n THEN n - 1 + 1 ELSE 0
      /\ \A i \in 1 .. n - 1 + 1 : SubSeq(longer, 1, n)[i] = longer[1 + i - 1]
  BY <1>2, SubSeqProperties
<1>4. /\ SubSeq(s, 1, n) \in Seq(Bytes) /\ Len(SubSeq(s, 1, n)) = IF 1 <= n THEN n - 1 + 1 ELSE 0
      /\ \A i \in 1 .. n - 1 + 1 : SubSeq(s, 1, n)[i] = s[1 + i - 1]
  BY <1>2, SubSeqProperties
<1>5. SubSeq(longer, 1, n) = SubSeq(s, 1, n)
  <2>1. /\ Len(SubSeq(longer, 1, n)) = Len(SubSeq(s, 1, n)) /\ Len(SubSeq(s, 1, n)) = n
        /\ \A i \in 1 .. n : SubSeq(longer, 1, n)[i] = longer[i] /\ SubSeq(s, 1, n)[i] = s[i]
    BY <1>2, <1>3, <1>4
  <2>2. \A i \in 1 .. Len(SubSeq(longer, 1, n)) : SubSeq(longer, 1, n)[i] = SubSeq(s, 1, n)[i]
    BY <1>2, <2>1
  <2> QED
    BY <1>3, <1>4, <2>1, <2>2, SeqEqual
<1> QED
  BY <1>5 DEF longer

\* With room the byte is kept; the last one needed ends the command.
LEMMA BinaryByteInv ==
  ASSUME TypeOK, PromptInv, NEW byte \in Bytes, BinaryByte(byte)
  PROVE  PromptInv'
<1> DEFINE data == DataAfter(task, stream)
<1>1. /\ task \in Tasks /\ task # NoTask /\ task.prompt # <<>> /\ task.need \in Nat \ {0} /\ status = "BINARY"
      /\ stream' \in Seq(Bytes) /\ line_buffer = carry' /\ byte_stack = <<>> /\ data \in Seq(Bytes) /\ Collecting
      /\ DataAfter(task, stream') = Append(data, byte)
      /\ \E m \in DOMAIN stream' : IsFirstEnd(m, task, stream')
      /\ PromptEnds(task, stream') # {}
  BY BinaryData DEF BinaryByte
<1>2. response_length < ResponseMax /\ response_length \in Nat /\ line_buffer' = line_buffer
  BY DEF BinaryByte, TypeOK
<1>3. /\ Len(data) < task.need \/ task.need > ResponseMax
      /\ response = SubSeq(data, 1, response_length) /\ response_length = Min({Len(data), ResponseMax})
  BY <1>1 DEF Collecting
<1> HIDE DEF data
<1>4. response_length = Len(data) /\ Len(data) \in Nat
  <2>1. Len(data) \in Nat /\ Min({Len(data), ResponseMax}) = IF Len(data) <= ResponseMax THEN Len(data) ELSE ResponseMax
    BY <1>1, MinOfTwo
  <2> QED
    BY <1>2, <1>3, <2>1
<1>5. response = data
  BY <1>1, <1>3, <1>4, SubSeqFull
<1>6. Append(data, byte) \in Seq(Bytes) /\ Len(Append(data, byte)) = Len(data) + 1
  BY <1>1
<1>7. CASE Enough(response_length + 1) /\ CommandEnd("ATC_SUCCESS", Append(response, byte), response_length + 1)
  <2>1. Len(data) + 1 = task.need
    BY <1>1, <1>2, <1>3, <1>4, <1>7 DEF Enough
  <2>2. report' = [result |-> "ATC_SUCCESS", text |-> Append(data, byte), length |-> Len(data) + 1, task |-> task]
    BY <1>1, <1>4, <1>5, <1>7 DEF CommandEnd
  <2>3. Reported'
    BY <1>1, <1>6, <2>1, <2>2 DEF Reported
  <2> QED
    BY <1>1, <1>7, <2>3, EndInv
<1>8. CASE /\ ~Enough(response_length + 1) /\ GoOn /\ UNCHANGED byte_stack
           /\ response' = Append(response, byte) /\ response_length' = response_length + 1
  <2>1. task' = task /\ status' = "BINARY" /\ byte_stack' = <<>> /\ report'.task = NoTask
    BY <1>1, <1>8 DEF GoOn, NoReport
  <2>2. Len(data) + 1 < task.need \/ task.need > ResponseMax
    BY <1>1, <1>2, <1>4, <1>8 DEF Enough
  <2>3. response' = Append(data, byte) /\ response_length' = Len(data) + 1
    BY <1>4, <1>5, <1>8
  <2>4. SubSeq(Append(data, byte), 1, Len(data) + 1) = Append(data, byte)
    BY <1>6, SubSeqFull
  <2>5. Min({Len(data) + 1, ResponseMax}) = Len(data) + 1
    BY <1>2, <1>4, MinOfTwo
  <2>6. Collecting'
    BY <1>1, <1>6, <2>1, <2>2, <2>3, <2>4, <2>5 DEF Collecting
  <2> QED
    BY <1>1, <1>2, <2>1, <2>6 DEF PromptInv, Reported
<1> QED
  BY <1>7, <1>8 DEF BinaryByte

\* Without room the byte is lost, and the command can only time out.
LEMMA BinaryDiscardInv ==
  ASSUME TypeOK, PromptInv, NEW byte \in Bytes, BinaryDiscard(byte)
  PROVE  PromptInv'
<1> DEFINE data == DataAfter(task, stream)
<1>1. /\ task \in Tasks /\ task # NoTask /\ task.prompt # <<>> /\ task.need \in Nat \ {0} /\ status = "BINARY"
      /\ stream' \in Seq(Bytes) /\ line_buffer = carry' /\ byte_stack = <<>> /\ data \in Seq(Bytes) /\ Collecting
      /\ DataAfter(task, stream') = Append(data, byte)
      /\ \E m \in DOMAIN stream' : IsFirstEnd(m, task, stream')
  BY BinaryData DEF BinaryDiscard
<1>2. response_length = ResponseMax /\ UNCHANGED <<line_buffer, response, response_length, byte_stack, task, status>>
      /\ report'.task = NoTask
  BY DEF BinaryDiscard, GoOn, buffers, NoReport
<1>3. /\ Len(data) < task.need \/ task.need > ResponseMax
      /\ response = SubSeq(data, 1, response_length) /\ response_length = Min({Len(data), ResponseMax})
  BY <1>1 DEF Collecting
<1> HIDE DEF data
<1>4. ResponseMax <= Len(data) /\ Len(data) \in Nat /\ ResponseMax \in Nat
  <2>1. Len(data) \in Nat /\ ResponseMax \in Nat
    BY <1>1
  <2>2. Min({Len(data), ResponseMax}) = IF Len(data) <= ResponseMax THEN Len(data) ELSE ResponseMax
    BY <2>1, MinOfTwo
  <2> QED
    BY <1>2, <1>3, <2>1, <2>2
<1>5. Len(Append(data, byte)) = Len(data) + 1 /\ Min({Len(data) + 1, ResponseMax}) = ResponseMax
  BY <1>1, <1>4, MinOfTwo
<1>6. SubSeq(Append(data, byte), 1, ResponseMax) = SubSeq(data, 1, ResponseMax)
  BY <1>1, <1>4, PrefixOfAppend
<1>7. task.need > ResponseMax
  BY <1>1, <1>3, <1>4
<1>8. Collecting'
  BY <1>1, <1>2, <1>3, <1>5, <1>6, <1>7 DEF Collecting
<1> QED
  BY <1>1, <1>2, <1>8 DEF PromptInv, Reported

\* The invariant is inductive.
LEMMA PromptInvStep ==
  ASSUME TypeOK, PromptInv, [Next]_vars
  PROVE  PromptInv'
<1>1. ASSUME NEW t \in Tasks, Dispatch(t) PROVE PromptInv'
  BY <1>1, DispatchInv
<1>2. CASE TimeOut
  <2>1. CommandEnd("ATC_TIMEOUT", response, response_length) /\ stream' \in Seq(Bytes)
    BY <1>2 DEF TimeOut, PromptInv
  <2>2. Reported'
    BY <2>1 DEF CommandEnd, NoReport, Reported
  <2> QED
    BY <2>1, <2>2, EndInv
<1>3. CASE LineAside
  BY <1>3, LineStream, LineModeInv DEF LineAside
<1>4. CASE LineNormal
  <2> DEFINE line == Append(line_buffer, NL)
  <2>1. CASE CommandEnd(Meaning(line), Text(line), Length(line))
    BY <1>4, <2>1, LineEndInv
  <2>2. CASE GoOn /\ UNCHANGED byte_stack
    BY <1>4, <2>2, LineStream, LineModeInv DEF LineNormal
  <2> QED
    BY <1>4, <2>1, <2>2 DEF LineNormal
<1>5. ASSUME NEW byte \in Bytes, LineDiscard(byte) \/ LineByte(byte) PROVE PromptInv'
  BY <1>5, LineStream, LineModeInv DEF LineDiscard, LineByte, buffers
<1>6. ASSUME NEW byte \in Bytes, PromptByte(byte) \/ PromptMatch(byte) PROVE PromptInv'
  BY <1>6, PromptByteInv, PromptMatchInv
<1>7. ASSUME NEW byte \in Bytes, BinaryByte(byte) \/ BinaryDiscard(byte) PROVE PromptInv'
  BY <1>7, BinaryByteInv, BinaryDiscardInv
<1>8. CASE UNCHANGED vars
  BY <1>8 DEF vars, buffers, PromptInv, Waiting, Collecting, Reported
<1> QED
  BY <1>1, <1>2, <1>3, <1>4, <1>5, <1>6, <1>7, <1>8 DEF Next

\* A prompt command waits for the first occurrence of its prompt, however the
\* prompt overlaps itself, and ends with exactly the bytes it needs.
THEOREM PromptAnswered == Spec => []PromptAnswer
<1>1. Init => TypeOK /\ PromptInv
  BY DEF Init, TypeOK, NoReport, PromptInv, Reported
<1>2. TypeOK /\ PromptInv /\ [Next]_vars => TypeOK' /\ PromptInv'
  BY TypeStep, PromptInvStep
<1>3. TypeOK /\ PromptInv => PromptAnswer
  BY PromptInvImplies
<1> QED
  BY <1>1, <1>2, <1>3, PTL DEF Spec

-----------------------------------------------------------------------------
(* The lines of a stream.                                                   *)

\* Induction over the natural numbers, for a set of numbers.
LEMMA NatSetInduction ==
  ASSUME NEW S, 0 \in S, \A n \in Nat : n \in S => n + 1 \in S
  PROVE  Nat \subseteq S
<1> DEFINE R == {ss \in Nat \X Nat : ss[1] < ss[2]}
<1>1. IsWellFoundedOn(R, Nat)
  BY NatLessThanWellFounded, Zenon DEF OpToRel
<1>2. \A x, y \in Nat : <<y, x>> \in R <=> y < x
  OBVIOUS
<1> HIDE DEF R
<1> SUFFICES ASSUME Nat \ S # {} PROVE FALSE
  OBVIOUS
<1>3. \E x \in Nat \ S : \A y \in Nat \ S : ~(<<y, x>> \in R)
  BY <1>1, WFMin
<1>4. PICK x \in Nat \ S : \A y \in Nat \ S : ~(y < x)
  BY <1>2, <1>3
<1>5. x # 0 /\ x - 1 \in Nat
  BY <1>4
<1>6. x - 1 \in S
  BY <1>4, <1>5
<1> QED
  BY <1>4, <1>5, <1>6

\* A set of numbers up to n has a maximum.
LEMMA MaxExists ==
  ASSUME NEW n \in Nat, NEW S \in SUBSET (0 .. n), S # {}
  PROVE  Max(S) \in S /\ \A y \in S : y <= Max(S)
<1> DEFINE Good == {k \in Nat : \A T \in SUBSET (0 .. k) : T # {} => \E x \in T : \A y \in T : x >= y}
<1>1. 0 \in Good
  <2> SUFFICES ASSUME NEW T \in SUBSET (0 .. 0), T # {} PROVE \E x \in T : \A y \in T : x >= y
    OBVIOUS
  <2>1. PICK x \in T : x \in 0 .. 0
    BY Zenon
  <2>2. \A y \in T : y \in 0 .. 0
    BY Zenon
  <2>3. x \in Int /\ \A y \in 0 .. 0 : x >= y
    BY <2>1
  <2> QED
    BY <2>1, <2>2, <2>3
<1>2. ASSUME NEW k \in Nat, k \in Good PROVE k + 1 \in Good
  <2> SUFFICES ASSUME NEW T \in SUBSET (0 .. k + 1), T # {} PROVE \E x \in T : \A y \in T : x >= y
    OBVIOUS
  <2>1. CASE k + 1 \in T
    BY <2>1
  <2>2. CASE k + 1 \notin T
    <3>1. T \in SUBSET (0 .. k)
      BY <2>2
    <3> QED
      BY <1>2, <3>1
  <2> QED
    BY <2>1, <2>2
<1> HIDE DEF Good
<1>3. n \in Good
  BY <1>1, <1>2, NatSetInduction
<1>4. \E x \in S : \A y \in S : x >= y
  BY <1>3 DEF Good
<1>5. Max(S) \in S /\ \A y \in S : Max(S) >= y
  BY <1>4, Zenon DEF Max
<1> HIDE DEF Max
<1>6. \A y \in S : y \in Int
  OBVIOUS
<1> QED
  BY <1>5, <1>6

\* Where the last line of s ends, and what has come since.
LastEnd(s) == Max({0} \cup Ends(s))
Rest(s) == SubSeq(s, 1 + LastEnd(s), Len(s))

LEMMA LastEndIs ==
  ASSUME NEW s \in Seq(Bytes)
  PROVE  /\ Len(s) \in Nat /\ DOMAIN s = 1 .. Len(s) /\ Ends(s) \subseteq 1 .. Len(s)
         /\ LastEnd(s) \in {0} \cup Ends(s) /\ LastEnd(s) \in 0 .. Len(s)
         /\ \A i \in Ends(s) : i <= LastEnd(s)
         /\ Rest(s) \in Seq(Bytes) /\ Len(Rest(s)) = Len(s) - LastEnd(s)
         /\ \A i \in 1 .. Len(s) - LastEnd(s) : Rest(s)[i] = s[LastEnd(s) + i]
<1>1. Len(s) \in Nat /\ DOMAIN s = 1 .. Len(s) /\ Ends(s) \subseteq 1 .. Len(s)
  BY LenProperties DEF Ends
<1>2. {0} \cup Ends(s) \in SUBSET (0 .. Len(s)) /\ {0} \cup Ends(s) # {}
  BY <1>1
<1>3. LastEnd(s) \in {0} \cup Ends(s) /\ \A y \in {0} \cup Ends(s) : y <= LastEnd(s)
  BY <1>1, <1>2, MaxExists DEF LastEnd
<1> DEFINE m == LastEnd(s)
<1>4. m \in 0 .. Len(s)
  BY <1>1, <1>3
<1> HIDE DEF m
<1>5. Len(s) \in 0 .. Len(s)
  BY <1>1
<1>6. /\ SubSeq(s, 1 + m, Len(s)) \in Seq(Bytes) /\ Len(SubSeq(s, 1 + m, Len(s))) = Len(s) - m
      /\ \A i \in 1 .. Len(s) - m : SubSeq(s, 1 + m, Len(s))[i] = s[m + i]
  BY <1>4, <1>5, PartIs
<1>8. Rest(s) = SubSeq(s, 1 + m, Len(s)) /\ LastEnd(s) = m
  BY Zenon DEF m, Rest
<1>9. /\ Rest(s) \in Seq(Bytes) /\ Len(Rest(s)) = Len(s) - m
      /\ \A i \in 1 .. Len(s) - m : Rest(s)[i] = s[m + i]
  BY <1>6, <1>8
<1> QED
  BY <1>1, <1>3, <1>4, <1>8, <1>9

\* The line that ends at e is a part of s and not empty.
LEMMA LineToIs ==
  ASSUME NEW s \in Seq(Bytes), NEW e \in DOMAIN s
  PROVE  /\ LineTo(s, e) \in Seq(Bytes) /\ Len(LineTo(s, e)) \in 1 .. e
         /\ \E b \in 0 .. e - 1 : b = Max({0} \cup {i \in Ends(s) : i < e}) /\ LineTo(s, e) = SubSeq(s, 1 + b, e)
<1>1. Len(s) \in Nat /\ e \in 1 .. Len(s) /\ Ends(s) \subseteq 1 .. Len(s)
  BY LastEndIs
<1> DEFINE S == {0} \cup {i \in Ends(s) : i < e}
           b == Max(S)
<1>2. S \in SUBSET (0 .. e - 1) /\ S # {} /\ e - 1 \in Nat
  BY <1>1
<1> HIDE DEF S
<1>3. b \in S
  BY <1>2, MaxExists
<1>4. b \in 0 .. e - 1
  BY <1>2, <1>3
<1>5. LineTo(s, e) = SubSeq(s, 1 + b, e)
  BY DEF LineTo, S
<1> HIDE DEF b
<1>6. e \in 0 .. Len(s) /\ b \in 0 .. e
  BY <1>1, <1>4
<1>7. SubSeq(s, 1 + b, e) \in Seq(Bytes) /\ Len(SubSeq(s, 1 + b, e)) = e - b
  BY <1>6, PartIs
<1>8. Len(SubSeq(s, 1 + b, e)) \in 1 .. e
  BY <1>1, <1>4, <1>7
<1>9. b = Max({0} \cup {i \in Ends(s) : i < e})
  BY Zenon DEF b, S
<1> QED
  BY <1>4, <1>5, <1>7, <1>8, <1>9

\* One byte more leaves the lines before it as they are.
LEMMA LinesKept ==
  ASSUME NEW s \in Seq(Bytes), NEW b \in Bytes
  PROVE  /\ Ends(Append(s, b)) = Ends(s) \cup (IF b = NL THEN {Len(s) + 1} ELSE {})
         /\ \A e \in 1 .. Len(s) : LineTo(Append(s, b), e) = LineTo(s, e)
<1> DEFINE s2 == Append(s, b)
           n == Len(s)
<1>1. /\ s2 \in Seq(Bytes) /\ Len(s2) = n + 1 /\ n \in Nat /\ DOMAIN s = 1 .. n /\ DOMAIN s2 = 1 .. n + 1
      /\ \A k \in 1 .. n + 1 : s2[k] = IF k <= n THEN s[k] ELSE b
  BY AppendAt, LenProperties
<1> HIDE DEF s2, n
<1>2. \A i \in 1 .. n + 1 : i \in 1 .. n \/ i = n + 1
  BY <1>1
<1>3. Ends(s2) = Ends(s) \cup (IF b = NL THEN {n + 1} ELSE {})
  <2>1. \A i \in Ends(s2) : i \in Ends(s) \cup (IF b = NL THEN {n + 1} ELSE {})
    BY <1>1, <1>2 DEF Ends
  <2>2. \A i \in Ends(s) : i \in Ends(s2)
    BY <1>1 DEF Ends
  <2>3. b = NL => n + 1 \in Ends(s2)
    BY <1>1 DEF Ends
  <2> QED
    BY <2>1, <2>2, <2>3
<1>4. ASSUME NEW e \in 1 .. n PROVE LineTo(s2, e) = LineTo(s, e)
  <2>1. {i \in Ends(s2) : i < e} = {i \in Ends(s) : i < e}
    BY <1>1, <1>3
  <2>2. PICK m \in 0 .. e - 1 : m = Max({0} \cup {i \in Ends(s) : i < e}) /\ LineTo(s, e) = SubSeq(s, 1 + m, e)
    BY <1>1, LineToIs
  <2>3. LineTo(s2, e) = SubSeq(s2, 1 + m, e)
    BY <2>1, <2>2 DEF LineTo
  <2> DEFINE old == SubSeq(s, 1 + m, e)
             new == SubSeq(s2, 1 + m, e)
  <2>4. e \in 0 .. Len(s) /\ e \in 0 .. Len(s2) /\ m \in 0 .. e /\ s2 \in Seq(Bytes)
    BY <1>1, <2>2 DEF n
  <2>5. /\ old \in Seq(Bytes) /\ new \in Seq(Bytes) /\ Len(old) = e - m /\ Len(new) = e - m
        /\ \A i \in 1 .. e - m : old[i] = s[m + i] /\ new[i] = s2[m + i]
    <3>1. old \in Seq(Bytes) /\ Len(old) = e - m /\ \A i \in 1 .. e - m : old[i] = s[m + i]
      BY <2>4, PartIs
    <3>2. new \in Seq(Bytes) /\ Len(new) = e - m /\ \A i \in 1 .. e - m : new[i] = s2[m + i]
      BY <2>4, PartIs
    <3> QED
      BY <3>1, <3>2, Zenon
  <2> HIDE DEF old, new
  <2>6. ASSUME NEW i \in 1 .. e - m PROVE old[i] = new[i]
    <3>1. m + i \in 1 .. n + 1 /\ m + i <= n
      BY <1>1, <2>2
    <3>2. s2[m + i] = s[m + i]
      BY <1>1, <3>1
    <3>3. old[i] = s[m + i] /\ new[i] = s2[m + i]
      BY <2>5
    <3> QED
      BY <3>2, <3>3
  <2>7. old = new
    <3>1. \A i \in 1 .. Len(old) : old[i] = new[i]
      BY <2>5, <2>6
    <3> QED
      BY <2>5, <3>1, SeqEqual
  <2> QED
    BY <2>2, <2>3, <2>7 DEF old, new
<1> QED
  BY <1>3, <1>4 DEF s2, n

\* An end of line ends the rest of the stream, any other byte joins it.
LEMMA RestGrows ==
  ASSUME NEW s \in Seq(Bytes), NEW b \in Bytes
  PROVE  /\ b = NL => LineTo(Append(s, b), Len(s) + 1) = Append(Rest(s), NL) /\ Rest(Append(s, b)) = <<>>
         /\ b # NL => Rest(Append(s, b)) = Append(Rest(s), b)
<1> DEFINE s2 == Append(s, b)
           n == Len(s)
           m == LastEnd(s)
           r == Rest(s)
<1>1. /\ s2 \in Seq(Bytes) /\ Len(s2) = n + 1 /\ n \in Nat
      /\ \A k \in 1 .. n + 1 : s2[k] = IF k <= n THEN s[k] ELSE b
  BY AppendAt, LenProperties
<1>2. /\ Ends(s) \subseteq 1 .. n /\ m \in {0} \cup Ends(s) /\ m \in 0 .. n /\ \A i \in Ends(s) : i <= m
      /\ r \in Seq(Bytes) /\ Len(r) = n - m /\ \A i \in 1 .. n - m : r[i] = s[m + i]
  BY LastEndIs
<1>3. Ends(s2) = Ends(s) \cup (IF b = NL THEN {n + 1} ELSE {})
  BY LinesKept
<1>4. m = Max({0} \cup Ends(s))
  BY DEF LastEnd
<1> HIDE DEF s2, n, m, r
\* The rest of s with the byte behind it.
<1>5. SubSeq(s2, 1 + m, n + 1) = Append(r, b)
  BY <1>2, SuffixGrows DEF s2, n, m, r, Rest
<1>6. CASE b = NL
  <2>1. {i \in Ends(s2) : i < n + 1} = Ends(s)
    BY <1>1, <1>2, <1>3, <1>6
  <2>2. LineTo(s2, n + 1) = SubSeq(s2, 1 + m, n + 1)
    BY <1>4, <2>1 DEF LineTo
  <2>3. LastEnd(s2) = n + 1
    <3>1. n + 1 \in Ends(s2) /\ LastEnd(s2) \in 0 .. n + 1 /\ \A i \in Ends(s2) : i <= LastEnd(s2)
      BY <1>1, <1>3, <1>6, LastEndIs
    <3> QED
      BY <1>1, <3>1
  <2>4. Rest(s2) \in Seq(Bytes) /\ Len(Rest(s2)) = 0
    BY <1>1, <2>3, LastEndIs
  <2>5. Rest(s2) = <<>>
    BY <2>4, EmptySeq
  <2> QED
    BY <1>5, <1>6, <2>2, <2>5 DEF s2, n, r
<1>7. CASE b # NL
  <2>1. Ends(s2) = Ends(s)
    BY <1>3, <1>7
  <2>2. LastEnd(s2) = m
    BY <1>4, <2>1 DEF LastEnd
  <2>3. Rest(s2) = SubSeq(s2, 1 + m, n + 1)
    BY <1>1, <2>2 DEF Rest
  <2> QED
    BY <1>5, <1>7, <2>3 DEF s2, r
<1> QED
  BY <1>6, <1>7

-----------------------------------------------------------------------------
(* What the lines make of the answer.                                       *)

\* Every line so far has fitted into line_buffer.
AllHeard(s) == \A i \in Ends(s) : Len(LineTo(s, i)) < LineMax

\* One byte more leaves the places in the answer before it as they are.
LEMMA AnswerEndsKept ==
  ASSUME NEW s \in Seq(Bytes), NEW b \in Bytes, NEW e \in 1 .. Len(s)
  PROVE  /\ e \in AnswerEnds(Append(s, b)) <=> e \in AnswerEnds(s)
         /\ e \in FinalEnds(Append(s, b)) <=> e \in FinalEnds(s)
<1> DEFINE s2 == Append(s, b)
           n == Len(s)
<1>1. /\ Ends(s2) = Ends(s) \cup (IF b = NL THEN {n + 1} ELSE {}) /\ Ends(s) \subseteq 1 .. n /\ n \in Nat
      /\ \A i \in 1 .. n : LineTo(s2, i) = LineTo(s, i)
  BY LinesKept, LastEndIs
<1> HIDE DEF s2, n
<1>2. e \in 1 .. n
  BY DEF n
<1>3. \A i : i \in Ends(s2) /\ i <= e <=> i \in Ends(s) /\ i <= e
  BY <1>1, <1>2
<1>4. Heard(s2, e) <=> Heard(s, e)
  BY <1>1, <1>3 DEF Heard
<1>5. (e \in Ends(s2) <=> e \in Ends(s)) /\ LineTo(s2, e) = LineTo(s, e)
  BY <1>1, <1>2
<1>6. e \in AnswerEnds(s2) <=> e \in AnswerEnds(s)
  BY <1>4, <1>5 DEF AnswerEnds
<1>7. e \in FinalEnds(s2) <=> e \in FinalEnds(s)
  BY <1>5, <1>6 DEF FinalEnds
<1> QED
  BY <1>6, <1>7 DEF s2

\* Whether the lines still fit after one byte more.
LEMMA AllHeardGrows ==
  ASSUME NEW s \in Seq(Bytes), NEW b \in Bytes
  PROVE  AllHeard(Append(s, b)) <=> AllHeard(s) /\ (b = NL => Len(Append(Rest(s), NL)) < LineMax)
<1> DEFINE s2 == Append(s, b)
           n == Len(s)
           line == Append(Rest(s), NL)
<1>1. /\ Ends(s2) = Ends(s) \cup (IF b = NL THEN {n + 1} ELSE {}) /\ Ends(s) \subseteq 1 .. n
      /\ \A i \in 1 .. n : LineTo(s2, i) = LineTo(s, i)
      /\ b = NL => LineTo(s2, n + 1) = line
  BY LinesKept, LastEndIs, RestGrows
<1> HIDE DEF s2, n, line
<1>2. AllHeard(s2) <=> AllHeard(s) /\ (b = NL => Len(line) < LineMax)
  <2>1. CASE b = NL
    BY <1>1, <2>1 DEF AllHeard
  <2>2. CASE b # NL
    BY <1>1, <2>2 DEF AllHeard
  <2> QED
    BY <2>1, <2>2
<1> QED
  BY <1>2 DEF s2, line

\* The new byte ends a line of the answer.
LEMMA NewAnswerEnd ==
  ASSUME NEW s \in Seq(Bytes), NEW b \in Bytes
  PROVE  /\ AnswerEnds(Append(s, b)) \subseteq 1 .. Len(s) + 1
         /\ Len(s) + 1 \in AnswerEnds(Append(s, b)) <=>
              /\ b = NL /\ AllHeard(Append(s, b))
              /\ Len(Append(Rest(s), NL)) > LineEnd /\ ~urc_line_handle(Append(Rest(s), NL))
<1> DEFINE s2 == Append(s, b)
           n == Len(s)
           line == Append(Rest(s), NL)
<1>1. /\ Ends(s2) = Ends(s) \cup (IF b = NL THEN {n + 1} ELSE {}) /\ Ends(s) \subseteq 1 .. n /\ n \in Nat
      /\ b = NL => LineTo(s2, n + 1) = line
  BY LinesKept, LastEndIs, RestGrows
<1> HIDE DEF s2, n, line
<1>2. Ends(s2) \subseteq 1 .. n + 1 /\ (n + 1 \in Ends(s2) <=> b = NL)
  <2>1. 1 .. n \subseteq 1 .. n + 1 /\ n + 1 \notin 1 .. n /\ n + 1 \in 1 .. n + 1
    BY <1>1
  <2> QED
    BY <1>1, <2>1, Zenon
<1>3. Heard(s2, n + 1) <=> AllHeard(s2)
  BY <1>1, <1>2 DEF Heard, AllHeard
<1>4. AnswerEnds(s2) \subseteq 1 .. n + 1
  BY <1>2 DEF AnswerEnds
<1>5. n + 1 \in AnswerEnds(s2) <=> b = NL /\ AllHeard(s2) /\ Len(line) > LineEnd /\ ~urc_line_handle(line)
  BY <1>1, <1>2, <1>3 DEF AnswerEnds, urc_line_handle
<1> QED
  BY <1>4, <1>5 DEF s2, n, line

\* The answer before any line.
NoLines == [text |-> <<>>, length |-> 0]

\* The recursive definition of the answer defines it.
LEMMA AnswerIs ==
  ASSUME NEW s \in Seq(Bytes)
  PROVE  \E f : /\ f = [e \in 0 .. Len(s) |-> IF e = 0 THEN NoLines ELSE WithLine(s, e, f[e - 1])]
                /\ Answer(s) = f[Len(s)]
<1> DEFINE Good(f, n) == f = [e \in 0 .. n |-> IF e = 0 THEN NoLines ELSE WithLine(s, e, f[e - 1])]
           S == {n \in Nat : \E f : Good(f, n)}
<1>1. 0 \in S
  <2>1. Good([e \in 0 .. 0 |-> NoLines], 0)
    OBVIOUS
  <2> QED
    BY <2>1
<1>2. ASSUME NEW n \in Nat, n \in S PROVE n + 1 \in S
  <2>1. PICK f : Good(f, n)
    BY <1>2
  <2> DEFINE g == [e \in 0 .. n + 1 |-> IF e <= n THEN f[e] ELSE WithLine(s, n + 1, f[n])]
  <2>2. \A e \in 0 .. n + 1 : g[e] = IF e = 0 THEN NoLines ELSE WithLine(s, e, g[e - 1])
    <3> TAKE e \in 0 .. n + 1
    <3>1. CASE e = 0
      BY <2>1, <3>1
    <3>2. CASE e # 0 /\ e <= n
      BY <2>1, <3>2
    <3>3. CASE e = n + 1
      BY <2>1, <3>3
    <3> QED
      BY <3>1, <3>2, <3>3
  <2>3. Good(g, n + 1)
    BY <2>2
  <2> HIDE DEF Good, g
  <2> QED
    BY <2>3
<1>3. Len(s) \in S
  <2> HIDE DEF Good, S
  <2> QED
    BY <1>1, <1>2, LenProperties, NatSetInduction
<1>4. \E f : f = [e \in 0 .. Len(s) |-> IF e = 0 THEN NoLines ELSE WithLine(s, e, f[e - 1])]
  BY <1>3, Zenon
<1> QED
  BY <1>4, Zenon DEF Answer, NoLines

\* One byte more adds at most the line it ends.
LEMMA AnswerGrows ==
  ASSUME NEW s \in Seq(Bytes), NEW b \in Bytes
  PROVE  Answer(Append(s, b)) = WithLine(Append(s, b), Len(s) + 1, Answer(s))
<1> DEFINE s2 == Append(s, b)
           n == Len(s)
<1>1. s2 \in Seq(Bytes) /\ Len(s2) = n + 1 /\ n \in Nat
  BY AppendAt, LenProperties
<1>2. PICK f : /\ f = [e \in 0 .. n |-> IF e = 0 THEN NoLines ELSE WithLine(s, e, f[e - 1])]
               /\ Answer(s) = f[n]
  BY AnswerIs
<1>3. PICK g : /\ g = [e \in 0 .. n + 1 |-> IF e = 0 THEN NoLines ELSE WithLine(s2, e, g[e - 1])]
               /\ Answer(s2) = g[n + 1]
  <2> HIDE DEF s2, n
  <2>1. \E g : /\ g = [e \in 0 .. Len(s2) |-> IF e = 0 THEN NoLines ELSE WithLine(s2, e, g[e - 1])]
               /\ Answer(s2) = g[Len(s2)]
    BY <1>1, AnswerIs
  <2>2. \E g : /\ g = [e \in 0 .. n + 1 |-> IF e = 0 THEN NoLines ELSE WithLine(s2, e, g[e - 1])]
               /\ Answer(s2) = g[n + 1]
    BY <1>1, <2>1, Zenon
  <2> QED
    BY <2>2, Zenon
<1>4. ASSUME NEW e \in 1 .. n, NEW a PROVE WithLine(s2, e, a) = WithLine(s, e, a)
  <2>1. LineTo(s2, e) = LineTo(s, e) /\ (e \in AnswerEnds(s2) <=> e \in AnswerEnds(s))
    BY LinesKept, AnswerEndsKept
  <2> HIDE DEF s2
  <2> QED
    BY <2>1 DEF WithLine
<1> HIDE DEF s2, n
<1> DEFINE S == {e \in Nat : e <= n => g[e] = f[e]}
<1>5. 0 \in S
  <2>1. g[0] = NoLines /\ f[0] = NoLines
    BY <1>1, <1>2, <1>3
  <2> QED
    BY <2>1
<1>6. ASSUME NEW e \in Nat, e \in S PROVE e + 1 \in S
  <2> SUFFICES ASSUME e + 1 <= n PROVE g[e + 1] = f[e + 1]
    OBVIOUS
  <2>1. e + 1 \in 0 .. n /\ e + 1 \in 0 .. n + 1 /\ e + 1 # 0 /\ e + 1 - 1 = e /\ e + 1 \in 1 .. n /\ e <= n
    BY <1>1
  <2>2. g[e + 1] = WithLine(s2, e + 1, g[e])
    <3>1. \A k \in 0 .. n + 1 : g[k] = IF k = 0 THEN NoLines ELSE WithLine(s2, k, g[k - 1])
      BY <1>3, Zenon
    <3> HIDE DEF S
    <3> QED
      BY <2>1, <3>1
  <2>3. f[e + 1] = WithLine(s, e + 1, f[e])
    <3>1. \A k \in 0 .. n : f[k] = IF k = 0 THEN NoLines ELSE WithLine(s, k, f[k - 1])
      BY <1>2, Zenon
    <3> HIDE DEF S
    <3> QED
      BY <2>1, <3>1
  <2>4. g[e] = f[e]
    BY <1>6, <2>1
  <2> QED
    BY <1>4, <2>1, <2>2, <2>3, <2>4
<1>7. n \in S
  <2> HIDE DEF S
  <2> QED
    BY <1>1, <1>5, <1>6, NatSetInduction
<1>8. g[n] = f[n]
  BY <1>1, <1>7
<1>9. g[n + 1] = WithLine(s2, n + 1, g[n])
  <2>1. n + 1 \in 0 .. n + 1 /\ n + 1 # 0 /\ n + 1 - 1 = n
    BY <1>1
  <2> QED
    BY <1>3, <2>1
<1>10. Answer(s2) = WithLine(s2, n + 1, Answer(s))
  BY <1>2, <1>3, <1>8, <1>9
<1> QED
  BY <1>10 DEF s2, n

\* A stream without an end of line has no answer.
LEMMA NoAnswer ==
  ASSUME NEW s \in Seq(Bytes), Ends(s) = {}
  PROVE  AllHeard(s) /\ Rest(s) = s /\ FinalEnds(s) = {} /\ Answer(s) = NoLines
<1> DEFINE n == Len(s)
<1>1. AnswerEnds(s) = {} /\ AllHeard(s) /\ FinalEnds(s) = {}
  BY DEF AnswerEnds, AllHeard, FinalEnds
<1>2. n \in Nat /\ LastEnd(s) = 0
  BY LastEndIs
<1>3. Rest(s) = s
  <2>1. SubSeq(s, 1, Len(s)) = s
    BY SubSeqFull
  <2> QED
    BY <1>2, <2>1 DEF Rest
<1>4. PICK f : /\ f = [e \in 0 .. n |-> IF e = 0 THEN NoLines ELSE WithLine(s, e, f[e - 1])]
               /\ Answer(s) = f[n]
  BY AnswerIs
<1> HIDE DEF n
<1> DEFINE S == {e \in Nat : e <= n => f[e] = NoLines}
<1>5. 0 \in S
  BY <1>2, <1>4
<1>6. ASSUME NEW e \in Nat, e \in S PROVE e + 1 \in S
  <2> SUFFICES ASSUME e + 1 <= n PROVE f[e + 1] = NoLines
    OBVIOUS
  <2>1. e + 1 \in 0 .. n /\ e + 1 # 0 /\ e + 1 - 1 = e /\ e <= n
    BY <1>2
  <2>2. f[e + 1] = WithLine(s, e + 1, f[e])
    BY <1>4, <2>1
  <2>3. f[e] = NoLines
    BY <1>6, <2>1
  <2> QED
    BY <1>1, <2>2, <2>3 DEF WithLine
<1>7. n \in S
  <2> HIDE DEF S
  <2> QED
    BY <1>2, <1>5, <1>6, NatSetInduction
<1> QED
  BY <1>1, <1>2, <1>3, <1>4, <1>7

-----------------------------------------------------------------------------
(* The inductive invariant behind LineAnswer.                               *)

\* What a line command has after s: line_buffer holds what follows the last
\* line, unless it is full; the response is the answer, which is not final.
Collected(s, buffer, text, length) ==
  /\ IF Len(buffer) < LineMax - 1 THEN AllHeard(s) /\ buffer = Rest(s)
     ELSE AllHeard(s) => Len(Rest(s)) >= LineMax - 1
  /\ FinalEnds(s) = {}
  /\ Answer(s) = [text |-> text, length |-> length]

\* It starts with the line under way.
LEMMA CollectedFirst ==
  ASSUME NEW s \in Seq(Bytes), Ends(s) = {}
  PROVE  Collected(s, s, <<>>, 0)
<1>1. AllHeard(s) /\ Rest(s) = s /\ FinalEnds(s) = {} /\ Answer(s) = NoLines
  BY NoAnswer
<1>2. Len(s) \in Nat
  BY LenProperties
<1> QED
  BY <1>1, <1>2 DEF Collected, NoLines

\* A byte that ends no line of the answer leaves it as it is.
LEMMA AnswerSame ==
  ASSUME NEW s \in Seq(Bytes), NEW b \in Bytes, Len(s) + 1 \notin AnswerEnds(Append(s, b))
  PROVE  FinalEnds(Append(s, b)) = FinalEnds(s) /\ Answer(Append(s, b)) = Answer(s)
<1> DEFINE s2 == Append(s, b)
           n == Len(s)
<1>1. /\ n \in Nat /\ AnswerEnds(s2) \subseteq 1 .. n + 1 /\ n + 1 \notin AnswerEnds(s2)
      /\ \A e \in 1 .. n : e \in FinalEnds(s2) <=> e \in FinalEnds(s)
      /\ Ends(s) \subseteq 1 .. n
  BY NewAnswerEnd, AnswerEndsKept, LastEndIs
<1>2. Answer(s2) = WithLine(s2, n + 1, Answer(s))
  BY AnswerGrows
<1> HIDE DEF s2, n
<1>3. FinalEnds(s2) \subseteq AnswerEnds(s2) /\ FinalEnds(s) \subseteq Ends(s)
  BY DEF FinalEnds, AnswerEnds
<1>4. AnswerEnds(s2) \subseteq 1 .. n
  BY <1>1
<1>5. FinalEnds(s2) = FinalEnds(s)
  BY <1>1, <1>3, <1>4
<1>6. Answer(s2) = Answer(s)
  BY <1>1, <1>2 DEF WithLine
<1> QED
  BY <1>5, <1>6 DEF s2

\* A byte of a line joins line_buffer.
LEMMA CollectedByte ==
  ASSUME NEW s \in Seq(Bytes), NEW buffer \in Seq(Bytes), NEW text, NEW length, NEW b \in Bytes,
         Collected(s, buffer, text, length), Len(buffer) < LineMax - 1, b # NL
  PROVE  Collected(Append(s, b), Append(buffer, b), text, length)
<1>1. AllHeard(s) /\ buffer = Rest(s) /\ FinalEnds(s) = {} /\ Answer(s) = [text |-> text, length |-> length]
  BY DEF Collected
<1>2. AllHeard(Append(s, b)) /\ Rest(Append(s, b)) = Append(buffer, b)
  BY <1>1, AllHeardGrows, RestGrows
<1>3. FinalEnds(Append(s, b)) = {} /\ Answer(Append(s, b)) = [text |-> text, length |-> length]
  BY <1>1, NewAnswerEnd, AnswerSame
<1>4. Len(Append(buffer, b)) = Len(buffer) + 1 /\ Len(buffer) \in Nat
  BY AppendAt, LenProperties
<1> HIDE DEF Ends
<1> QED
  BY <1>2, <1>3, <1>4 DEF Collected

\* Once it is full nothing is heard any more.
LEMMA CollectedLost ==
  ASSUME NEW s \in Seq(Bytes), NEW buffer \in Seq(Bytes), NEW text, NEW length, NEW b \in Bytes,
         Collected(s, buffer, text, length), ~(Len(buffer) < LineMax - 1)
  PROVE  Collected(Append(s, b), buffer, text, length)
<1>1. /\ AllHeard(s) => Len(Rest(s)) >= LineMax - 1
      /\ FinalEnds(s) = {} /\ Answer(s) = [text |-> text, length |-> length]
  BY DEF Collected
<1>2. /\ Rest(s) \in Seq(Bytes) /\ Len(Rest(s)) \in Nat /\ LineMax \in Nat
      /\ \A c \in Bytes : Len(Append(Rest(s), c)) = Len(Rest(s)) + 1
  BY LastEndIs, AppendAt, LenProperties
<1>3. AllHeard(Append(s, b)) => AllHeard(s) /\ b # NL
  <2>1. AllHeard(Append(s, b)) => AllHeard(s) /\ (b = NL => Len(Append(Rest(s), NL)) < LineMax)
    BY AllHeardGrows
  <2> QED
    BY <1>1, <1>2, <2>1
<1>4. AllHeard(Append(s, b)) => Len(Rest(Append(s, b))) >= LineMax - 1
  <2> SUFFICES ASSUME AllHeard(Append(s, b)) PROVE Len(Rest(Append(s, b))) >= LineMax - 1
    OBVIOUS
  <2>1. AllHeard(s) /\ Rest(Append(s, b)) = Append(Rest(s), b)
    BY <1>3, RestGrows
  <2> QED
    BY <1>1, <1>2, <2>1
<1>5. Len(s) + 1 \notin AnswerEnds(Append(s, b))
  BY <1>3, NewAnswerEnd
<1>6. FinalEnds(Append(s, b)) = {} /\ Answer(Append(s, b)) = [text |-> text, length |-> length]
  BY <1>1, <1>5, AnswerSame
<1> QED
  BY <1>4, <1>6 DEF Collected

\* An end of line leaves an empty line_buffer and a line heard as a whole.
LEMMA CollectedEnd ==
  ASSUME NEW s \in Seq(Bytes), NEW buffer \in Seq(Bytes), NEW text, NEW length,
         Collected(s, buffer, text, length), Len(buffer) < LineMax - 1
  PROVE  /\ Append(s, NL) \in Seq(Bytes) /\ Len(Append(s, NL)) = Len(s) + 1
         /\ AllHeard(Append(s, NL)) /\ Rest(Append(s, NL)) = <<>> /\ 0 < LineMax - 1
         /\ LineTo(Append(s, NL), Len(s) + 1) = Append(buffer, NL)
         /\ Len(s) + 1 \in AnswerEnds(Append(s, NL)) <=>
              Len(Append(buffer, NL)) > LineEnd /\ ~urc_line_handle(Append(buffer, NL))
<1>1. AllHeard(s) /\ buffer = Rest(s)
  BY DEF Collected
<1>2. Len(Append(buffer, NL)) = Len(buffer) + 1 /\ Len(buffer) \in Nat /\ LineMax \in Nat
  BY AppendAt, LenProperties
<1>3. Len(Append(buffer, NL)) < LineMax /\ 0 < LineMax - 1
  BY <1>2
<1>4. AllHeard(Append(s, NL))
  BY <1>1, <1>3, AllHeardGrows
<1>5. Rest(Append(s, NL)) = <<>> /\ LineTo(Append(s, NL), Len(s) + 1) = Append(buffer, NL)
  BY <1>1, RestGrows
<1> QED
  BY <1>1, <1>3, <1>4, <1>5, NewAnswerEnd, AppendAt

\* A line that is ignored or given to URC handlers leaves no trace.
LEMMA CollectedAside ==
  ASSUME NEW s \in Seq(Bytes), NEW buffer \in Seq(Bytes), NEW text, NEW length,
         Collected(s, buffer, text, length), Len(buffer) < LineMax - 1,
         Len(Append(buffer, NL)) <= LineEnd \/ urc_line_handle(Append(buffer, NL))
  PROVE  Collected(Append(s, NL), <<>>, text, length)
<1>1. Len(Append(buffer, NL)) \in Nat /\ LineEnd \in Nat
  BY LenProperties, AppendAt
<1>2. /\ AllHeard(Append(s, NL)) /\ Rest(Append(s, NL)) = <<>> /\ 0 < LineMax - 1
      /\ Len(s) + 1 \notin AnswerEnds(Append(s, NL))
  BY <1>1, CollectedEnd
<1>3. FinalEnds(Append(s, NL)) = {} /\ Answer(Append(s, NL)) = [text |-> text, length |-> length]
  BY <1>2, AnswerSame DEF Collected
<1>4. Len(<<>>) = 0
  OBVIOUS
<1> QED
  BY <1>2, <1>3, <1>4 DEF Collected

\* Any other line joins the answer if there is room for it, and a final one
\* is the first.
LEMMA CollectedNormal ==
  ASSUME NEW s \in Seq(Bytes), NEW buffer \in Seq(Bytes), NEW text, NEW length, NEW line, line = Append(buffer, NL),
         Collected(s, buffer, text, length), Len(buffer) < LineMax - 1,
         Len(line) > LineEnd, ~urc_line_handle(line)
  PROVE  /\ FinalEnds(Append(s, NL)) = IF IsFinal(line) THEN {Len(Append(s, NL))} ELSE {}
         /\ LineTo(Append(s, NL), Len(Append(s, NL))) = line
         /\ Answer(Append(s, NL)) = IF length + Len(line) < ResponseMax
                                    THEN [text |-> text \o CString(line), length |-> length + Len(line)]
                                    ELSE [text |-> text, length |-> length]
         /\ AllHeard(Append(s, NL)) /\ Rest(Append(s, NL)) = <<>> /\ 0 < LineMax - 1
<1> DEFINE s2 == Append(s, NL)
           n == Len(s)
<1>1. /\ Len(s2) = n + 1 /\ AllHeard(s2) /\ Rest(s2) = <<>> /\ 0 < LineMax - 1
      /\ LineTo(s2, n + 1) = line /\ n + 1 \in AnswerEnds(s2)
  BY CollectedEnd
<1>2. /\ n \in Nat /\ AnswerEnds(s2) \subseteq 1 .. n + 1
      /\ \A e \in 1 .. n : e \in FinalEnds(s2) <=> e \in FinalEnds(s)
  BY NewAnswerEnd, AnswerEndsKept, LastEndIs
<1>3. Answer(s2) = WithLine(s2, n + 1, Answer(s))
  BY AnswerGrows
<1>4. FinalEnds(s) = {} /\ Answer(s) = [text |-> text, length |-> length]
  BY DEF Collected
<1> HIDE DEF s2, n
<1>5. FinalEnds(s2) \subseteq AnswerEnds(s2) /\ (n + 1 \in FinalEnds(s2) <=> IsFinal(line))
  BY <1>1 DEF FinalEnds
<1>6. FinalEnds(s2) = IF IsFinal(line) THEN {n + 1} ELSE {}
  <2>1. \A e \in FinalEnds(s2) : e = n + 1
    BY <1>2, <1>4, <1>5
  <2> HIDE DEF FinalEnds
  <2> QED
    BY <1>5, <2>1
<1>7. Answer(s2) = IF length + Len(line) < ResponseMax
                   THEN [text |-> text \o CString(line), length |-> length + Len(line)]
                   ELSE [text |-> text, length |-> length]
  <2> DEFINE a == [text |-> text, length |-> length]
  <2>1. a.text = text /\ a.length = length
    OBVIOUS
  <2>2. Answer(s2) = WithLine(s2, n + 1, a)
    BY <1>3, <1>4
  <2> HIDE DEF a
  <2>3. WithLine(s2, n + 1, a) = IF a.length + Len(line) < ResponseMax
                                 THEN [text |-> a.text \o CString(line), length |-> a.length + Len(line)]
                                 ELSE a
    BY <1>1, Zenon DEF WithLine
  <2> QED
    BY <2>1, <2>2, <2>3, Zenon DEF a
<1>8. FinalEnds(s2) = IF IsFinal(line) THEN {Len(s2)} ELSE {}
  BY <1>1, <1>6
<1>9. LineTo(s2, Len(s2)) = line
  BY <1>1
<1> QED
  BY <1>1, <1>7, <1>8, <1>9, Zenon DEF s2

\* One byte more is one byte more of the whole.
LEMMA WholeGrows ==
  ASSUME NEW c \in Seq(Bytes), NEW s \in Seq(Bytes), NEW b \in Bytes
  PROVE  c \o Append(s, b) = Append(c \o s, b) /\ c \o s \in Seq(Bytes)
<1>1. <<b>> \in Seq(Bytes) /\ c \o s \in Seq(Bytes)
  BY ConcatProperties
<1>2. Append(s, b) = s \o <<b>> /\ Append(c \o s, b) = (c \o s) \o <<b>>
  BY <1>1, AppendIsConcat
<1>3. (c \o s) \o <<b>> = c \o (s \o <<b>>)
  BY <1>1, ConcatAssociative
<1> QED
  BY <1>1, <1>2, <1>3

\* A command that ended with a final line ended with the first.
ReportsLine(s, r) ==
  r.task # NoTask /\ r.task.prompt = <<>> /\ r.result # "ATC_TIMEOUT" =>
    /\ FinalEnds(s) = {Len(s)}
    /\ r.result = Meaning(LineTo(s, Len(s)))
    /\ Answer(s) = [text |-> r.text, length |-> r.length]

LineInv ==
  /\ carry \in Seq(Bytes) /\ Ends(line_buffer) = {}
  /\ task # NoTask /\ task.prompt = <<>> => Collected(carry \o stream, line_buffer, response, response_length)
  /\ ReportsLine(carry \o stream, report)

\* It says what LineAnswer does.
LEMMA LineInvImplies == LineInv => LineAnswer
BY DEF LineInv, Collected, ReportsLine, LineAnswer

\* The line under way has no end yet.
LEMMA NoEnds ==
  /\ Ends(<<>>) = {}
  /\ \A s \in Seq(Bytes) : \A b \in Bytes : Ends(s) = {} /\ b # NL => Ends(Append(s, b)) = {}
<1>1. Ends(<<>>) = {}
  BY DEF Ends
<1>2. ASSUME NEW s \in Seq(Bytes), NEW b \in Bytes, Ends(s) = {}, b # NL PROVE Ends(Append(s, b)) = {}
  BY <1>2, LinesKept
<1> QED
  BY <1>1, <1>2

\* The whole a line command has seen after a byte in line mode.
LEMMA WholeIs ==
  ASSUME TypeOK, PromptInv, LineInv, NEW byte \in Bytes, Recv("LINE_RECV", byte)
  PROVE  /\ task # NoTask => task.prompt = <<>>
         /\ carry' \in Seq(Bytes) /\ line_buffer \in Seq(Bytes) /\ Ends(line_buffer) = {}
         /\ task # NoTask =>
              /\ carry \o stream \in Seq(Bytes)
              /\ Collected(carry \o stream, line_buffer, response, response_length)
              /\ carry' \o stream' = Append(carry \o stream, byte)
<1>1. carry \in Seq(Bytes) /\ stream \in Seq(Bytes) /\ <<>> \in Seq(Bytes)
  BY DEF LineInv, PromptInv
<1>2. status = "LINE_RECV" /\ (task # NoTask => task.prompt = <<>>)
  BY DEF Recv, PromptInv
<1>3. IF task = NoTask THEN carry' = <<>> ELSE carry' = carry /\ stream' = Append(stream, byte)
  BY DEF Recv
<1>4. carry \o Append(stream, byte) = Append(carry \o stream, byte) /\ carry \o stream \in Seq(Bytes)
  BY <1>1, WholeGrows
<1>5. line_buffer \in Seq(Bytes) /\ Ends(line_buffer) = {}
  BY DEF TypeOK, LineInv
<1>6. task # NoTask => Collected(carry \o stream, line_buffer, response, response_length)
  BY <1>2 DEF LineInv
<1> QED
  BY <1>1, <1>2, <1>3, <1>4, <1>5, <1>6

\* A line step that ends no command.
LEMMA LineGoOn ==
  ASSUME TypeOK, PromptInv, LineInv, NEW byte \in Bytes, Recv("LINE_RECV", byte), GoOn, Ends(line_buffer') = {},
         task # NoTask => Collected(Append(carry \o stream, byte), line_buffer', response', response_length')
  PROVE  LineInv'
<1>1. /\ carry' \in Seq(Bytes)
      /\ task # NoTask => carry' \o stream' = Append(carry \o stream, byte)
  BY WholeIs
<1>2. task' = task /\ report'.task = NoTask
  BY DEF GoOn, NoReport
<1>3. task # NoTask => Collected(carry' \o stream', line_buffer', response', response_length')
  BY <1>1
<1>4. ReportsLine(carry' \o stream', report')
  BY <1>2 DEF ReportsLine
<1> QED
  BY <1>1, <1>2, <1>3, <1>4 DEF LineInv

\* The bytes of a line.
LEMMA LineByteInv ==
  ASSUME TypeOK, PromptInv, LineInv, NEW byte \in Bytes, LineByte(byte) \/ LineDiscard(byte)
  PROVE  LineInv'
<1>1. Recv("LINE_RECV", byte) /\ GoOn /\ UNCHANGED <<response, response_length>>
  BY DEF LineByte, LineDiscard, buffers
<1>2. /\ line_buffer \in Seq(Bytes) /\ Ends(line_buffer) = {}
      /\ task # NoTask => /\ carry \o stream \in Seq(Bytes)
                          /\ Collected(carry \o stream, line_buffer, response, response_length)
  BY <1>1, WholeIs
<1>3. CASE LineByte(byte)
  <2>1. Len(line_buffer) < LineMax - 1 /\ byte # NL /\ line_buffer' = Append(line_buffer, byte)
    BY <1>3 DEF LineByte, HasRoom
  <2>2. Ends(line_buffer') = {}
    BY <1>2, <2>1, NoEnds
  <2>3. task # NoTask => Collected(Append(carry \o stream, byte), line_buffer', response, response_length)
    BY <1>2, <2>1, CollectedByte
  <2> QED
    BY <1>1, <2>2, <2>3, LineGoOn
<1>4. CASE LineDiscard(byte)
  <2>1. ~(Len(line_buffer) < LineMax - 1) /\ line_buffer' = line_buffer
    BY <1>4 DEF LineDiscard, HasRoom, buffers
  <2>2. task # NoTask => Collected(Append(carry \o stream, byte), line_buffer', response, response_length)
    BY <1>2, <2>1, CollectedLost
  <2> QED
    BY <1>1, <1>2, <2>1, <2>2, LineGoOn
<1> QED
  BY <1>3, <1>4

\* A line that is not the command's.
LEMMA LineAsideInv ==
  ASSUME TypeOK, PromptInv, LineInv, LineAside
  PROVE  LineInv'
<1>1. /\ Recv("LINE_RECV", NL) /\ GoOn /\ UNCHANGED <<response, response_length>> /\ NL \in Bytes
      /\ Len(line_buffer) < LineMax - 1 /\ line_buffer' = <<>>
      /\ Len(Append(line_buffer, NL)) <= LineEnd \/ urc_line_handle(Append(line_buffer, NL))
  BY DEF LineAside, HasRoom
<1>2. /\ line_buffer \in Seq(Bytes)
      /\ task # NoTask => /\ carry \o stream \in Seq(Bytes)
                          /\ Collected(carry \o stream, line_buffer, response, response_length)
  BY <1>1, WholeIs
<1>3. Ends(line_buffer') = {}
  BY <1>1, NoEnds
<1>4. task # NoTask => Collected(Append(carry \o stream, NL), line_buffer', response, response_length)
  BY <1>1, <1>2, CollectedAside
<1> QED
  BY <1>1, <1>3, <1>4, LineGoOn

\* A line of the answer, which may end the command.
LEMMA LineNormalInv ==
  ASSUME TypeOK, PromptInv, LineInv, LineNormal
  PROVE  LineInv'
<1> DEFINE line == Append(line_buffer, NL)
<1>1. /\ Recv("LINE_RECV", NL) /\ NL \in Bytes
      /\ Len(line_buffer) < LineMax - 1 /\ line_buffer' = <<>>
      /\ Len(line) > LineEnd /\ ~urc_line_handle(line)
  BY DEF LineNormal, HasRoom
<1>2. /\ carry' \in Seq(Bytes) /\ line_buffer \in Seq(Bytes)
      /\ task # NoTask => /\ carry \o stream \in Seq(Bytes)
                          /\ Collected(carry \o stream, line_buffer, response, response_length)
                          /\ carry' \o stream' = Append(carry \o stream, NL)
  BY <1>1, WholeIs
<1>3. Ends(line_buffer') = {}
  BY <1>1, NoEnds
<1>4. task # NoTask =>
        LET s2 == Append(carry \o stream, NL)
        IN  /\ FinalEnds(s2) = IF IsFinal(line) THEN {Len(s2)} ELSE {}
            /\ LineTo(s2, Len(s2)) = line
            /\ Answer(s2) = [text |-> Text(line), length |-> Length(line)]
            /\ AllHeard(s2) /\ Rest(s2) = <<>> /\ 0 < LineMax - 1
  <2> SUFFICES ASSUME task # NoTask
               PROVE  LET s2 == Append(carry \o stream, NL)
                      IN  /\ FinalEnds(s2) = IF IsFinal(line) THEN {Len(s2)} ELSE {}
                          /\ LineTo(s2, Len(s2)) = line
                          /\ Answer(s2) = [text |-> Text(line), length |-> Length(line)]
                          /\ AllHeard(s2) /\ Rest(s2) = <<>> /\ 0 < LineMax - 1
    OBVIOUS
  <2> DEFINE s2 == Append(carry \o stream, NL)
  <2>1. carry \o stream \in Seq(Bytes) /\ Collected(carry \o stream, line_buffer, response, response_length)
    BY <1>2
  <2>2. /\ FinalEnds(s2) = IF IsFinal(line) THEN {Len(s2)} ELSE {}
        /\ LineTo(s2, Len(s2)) = line
        /\ Answer(s2) = IF response_length + Len(line) < ResponseMax
                        THEN [text |-> response \o CString(line), length |-> response_length + Len(line)]
                        ELSE [text |-> response, length |-> response_length]
        /\ AllHeard(s2) /\ Rest(s2) = <<>> /\ 0 < LineMax - 1
    BY <1>1, <1>2, <2>1, CollectedNormal
  <2> HIDE DEF s2, line
  <2>3. Answer(s2) = [text |-> Text(line), length |-> Length(line)]
    BY <2>2 DEF Text, Length, Fits
  <2> QED
    BY <2>2, <2>3 DEF s2
<1> HIDE DEF line
<1>5. CASE IsFinal(line) /\ CommandEnd(Meaning(line), Text(line), Length(line))
  <2>1. /\ task' = NoTask
        /\ report' = IF task = NoTask THEN NoReport
                     ELSE [result |-> Meaning(line), text |-> Text(line), length |-> Length(line), task |-> task]
    BY <1>5 DEF CommandEnd
  <2>2. CASE task = NoTask
    <3>1. ReportsLine(carry' \o stream', report')
      BY <2>1, <2>2 DEF ReportsLine, NoReport
    <3> QED
      BY <1>2, <1>3, <2>1, <3>1 DEF LineInv
  <2>3. CASE task # NoTask
    <3> DEFINE s2 == Append(carry \o stream, NL)
    <3>1. /\ FinalEnds(s2) = {Len(s2)} /\ LineTo(s2, Len(s2)) = line
          /\ Answer(s2) = [text |-> Text(line), length |-> Length(line)]
      BY <1>4, <1>5, <2>3
    <3> HIDE DEF s2
    <3>2. ReportsLine(s2, report')
      BY <2>1, <2>3, <3>1 DEF ReportsLine
    <3>3. ReportsLine(carry' \o stream', report')
      BY <1>2, <2>3, <3>2 DEF s2
    <3> QED
      BY <1>2, <1>3, <2>1, <3>3 DEF LineInv
  <2> QED
    BY <2>2, <2>3
<1>6. CASE ~IsFinal(line) /\ response' = Text(line) /\ response_length' = Length(line) /\ GoOn
  <2>1. task # NoTask => Collected(Append(carry \o stream, NL), <<>>, Text(line), Length(line))
    <3> SUFFICES ASSUME task # NoTask PROVE Collected(Append(carry \o stream, NL), <<>>, Text(line), Length(line))
      OBVIOUS
    <3> DEFINE s2 == Append(carry \o stream, NL)
    <3>1. /\ FinalEnds(s2) = {} /\ Answer(s2) = [text |-> Text(line), length |-> Length(line)]
          /\ AllHeard(s2) /\ Rest(s2) = <<>> /\ 0 < LineMax - 1
      BY <1>4, <1>6
    <3> HIDE DEF s2
    <3>2. Collected(s2, <<>>, Text(line), Length(line))
      BY <3>1 DEF Collected
    <3> QED
      BY <3>2 DEF s2
  <2> QED
    BY <1>1, <1>3, <1>6, <2>1, LineGoOn
<1> QED
  BY <1>5, <1>6 DEF LineNormal, line

\* A command starts with the line under way, which has no end.
LEMMA LineDispatchInv ==
  ASSUME TypeOK, LineInv, NEW t \in Tasks, Dispatch(t)
  PROVE  LineInv'
<1>1. line_buffer \in Seq(Bytes) /\ Ends(line_buffer) = {}
  BY DEF TypeOK, LineInv
<1>2. /\ carry' = line_buffer /\ stream' = <<>> /\ line_buffer' = line_buffer /\ report'.task = NoTask
      /\ response' = <<>> /\ response_length' = 0
  BY DEF Dispatch, clear_response_buffer, NoReport
<1>3. carry' \o stream' = line_buffer
  BY <1>1, <1>2, ConcatEmptySeq
<1>4. Collected(line_buffer, line_buffer, <<>>, 0)
  BY <1>1, CollectedFirst
<1>5. Collected(carry' \o stream', line_buffer', response', response_length') /\ ReportsLine(carry' \o stream', report')
  BY <1>2, <1>3, <1>4 DEF ReportsLine
<1> QED
  BY <1>1, <1>2, <1>5 DEF LineInv

\* A prompt command reports no line and leaves the one under way alone.
LEMMA OtherInv ==
  ASSUME TypeOK, PromptInv, LineInv, UNCHANGED <<line_buffer, carry>>, task' = NoTask \/ task'.prompt # <<>>,
         report'.task = NoTask \/ report'.task.prompt # <<>> \/ report'.result = "ATC_TIMEOUT"
  PROVE  LineInv'
BY DEF LineInv, ReportsLine

\* The invariant is inductive.
LEMMA LineInvStep ==
  ASSUME TypeOK, PromptInv, LineInv, [Next]_vars
  PROVE  LineInv'
<1>1. ASSUME NEW t \in Tasks, Dispatch(t) PROVE LineInv'
  BY <1>1, LineDispatchInv
<1>2. CASE TimeOut
  <2>1. UNCHANGED <<line_buffer, carry>> /\ task' = NoTask /\ (report'.task = NoTask \/ report'.result = "ATC_TIMEOUT")
    BY <1>2 DEF TimeOut, CommandEnd, NoReport
  <2> QED
    BY <2>1, OtherInv
<1>3. CASE LineAside \/ LineNormal
  BY <1>3, LineAsideInv, LineNormalInv
<1>4. ASSUME NEW byte \in Bytes, LineDiscard(byte) \/ LineByte(byte) PROVE LineInv'
  BY <1>4, LineByteInv
<1>5. ASSUME NEW byte \in Bytes, PromptByte(byte) \/ PromptMatch(byte) \/ BinaryByte(byte) \/ BinaryDiscard(byte)
      PROVE  LineInv'
  <2>1. PICK mode \in {"PROMPT", "BINARY"} : Recv(mode, byte)
    BY <1>5 DEF PromptByte, PromptMatch, BinaryByte, BinaryDiscard
  <2>2. task \in Tasks /\ task # NoTask /\ task.prompt # <<>> /\ carry' = carry
    BY <2>1, InPromptMode
  <2>3. line_buffer' = line_buffer
    BY <1>5 DEF PromptByte, PromptMatch, BinaryByte, BinaryDiscard, buffers
  <2>4. /\ task' = task \/ task' = NoTask
        /\ report'.task = NoTask \/ report'.task = task
    <3>1. CASE PromptByte(byte)
      BY <3>1 DEF PromptByte, GoOn, NoReport
    <3>2. CASE PromptMatch(byte)
      BY <3>2 DEF PromptMatch, CommandEnd, NoReport
    <3>3. CASE BinaryByte(byte)
      BY <3>3 DEF BinaryByte, CommandEnd, GoOn, NoReport
    <3>4. CASE BinaryDiscard(byte)
      BY <3>4 DEF BinaryDiscard, GoOn, NoReport
    <3> QED
      BY <1>5, <3>1, <3>2, <3>3, <3>4
  <2> QED
    BY <2>2, <2>3, <2>4, OtherInv
<1>6. CASE UNCHANGED vars
  BY <1>6 DEF vars, buffers, LineInv
<1> QED
  BY <1>1, <1>2, <1>3, <1>4, <1>5, <1>6 DEF Next

\* A line command is told the lines since the one under way at its dispatch,
\* without those that are ignored, unsolicited, too long or without room, and
\* it ends with the first final line, never earlier and never later.
THEOREM LinesAnswered == Spec => []LineAnswer
<1>1. Init => TypeOK /\ PromptInv
  BY DEF Init, TypeOK, NoReport, PromptInv, Reported
<1>2. Init => LineInv
  BY NoEnds DEF Init, LineInv, ReportsLine, NoReport
<1>3. TypeOK /\ PromptInv /\ LineInv /\ [Next]_vars => TypeOK' /\ PromptInv' /\ LineInv'
  BY TypeStep, PromptInvStep, LineInvStep
<1>4. LineInv => LineAnswer
  BY LineInvImplies
<1> QED
  BY <1>1, <1>2, <1>3, <1>4, PTL DEF Spec
=============================================================================
