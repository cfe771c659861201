--------------------------- MODULE MiniFileProofs ---------------------------
(***************************************************************************)
(* Proofs about MiniFile, for every content of the files, every buffer     *)
(* size and every number of slots.                                         *)
(***************************************************************************)
EXTENDS MiniFile, SequenceTheorems, TLAPS

(***************************************************************************)
(* The inductive invariant.                                                *)
(***************************************************************************)

\* The file behind a stream.
Doc(s) == disk[files[s].path]

\* A path is open once.
Exclusive ==
    \A s, t \in Slot :
        /\ files[s].in_use /\ files[t].in_use
        /\ files[s].path = files[t].path
        => s = t

\* fprintf finds no data in the buffer.
Unbuffered ==
    \A s \in Slot : Writing(s) /\ files[s].style = "printed" =>
        files[s].buf = <<>>

\* The buffer of a stream that is read holds the bytes before its descriptor.
ReadAhead ==
    \A s \in Slot : Reading(s) =>
        /\ files[s].pos <= Len(Doc(s))
        /\ Len(files[s].buf) <= files[s].pos
        /\ \A i \in 1 .. Len(files[s].buf) :
              files[s].buf[i] = Doc(s)[files[s].pos - Len(files[s].buf) + i]

\* A call under way has collected the bytes before the buffer's, and no more
\* than it wants.
Collected ==
    Busy =>
        /\ Reading(call.s)
        /\ Len(call.got) <= call.want
        /\ Len(call.got) + Len(files[call.s].buf) <= files[call.s].pos
        /\ \A i \in 1 .. Len(call.got) :
              call.got[i] = Doc(call.s)[Position(call.s) + i]

\* It wants what its caller asked for, and fgets goes on only up to a newline.
Wanted ==
    Busy =>
        /\ call.op = "fgets" =>
              /\ \E size \in Size : call.want = size - 1
              /\ \A i \in 1 .. Len(call.got) - 1 : call.got[i] # Newline
        /\ call.op = "fread" => call.want \in Want

Inv == TypeOK /\ Exclusive /\ Unbuffered /\ ReadAhead /\ Collected /\ Wanted

(***************************************************************************)
(* Types.                                                                  *)
(***************************************************************************)

LEMMA EmptyText == <<>> \in Text /\ Len(<<>>) = 0
  BY EmptySeq DEF Text

LEMMA Concat ==
    ASSUME NEW a \in Text, NEW b \in Text
    PROVE  /\ a \o b \in Text
           /\ Len(a \o b) = Len(a) + Len(b)
           /\ \A i \in 1 .. Len(a) + Len(b) :
                 (a \o b)[i] = IF i <= Len(a) THEN a[i] ELSE b[i - Len(a)]
  BY ConcatProperties DEF Text

LEMMA Assoc ==
    ASSUME NEW a \in Text, NEW b \in Text, NEW c \in Text
    PROVE  (a \o b) \o c = a \o (b \o c)
  BY ConcatAssociative DEF Text

LEMMA Length == ASSUME NEW a \in Text PROVE Len(a) \in Nat
  BY LenProperties DEF Text

\* The k characters behind the first p.
LEMMA Cut ==
    ASSUME NEW text \in Text, NEW p \in Nat, NEW k \in Nat,
           p + k <= Len(text)
    PROVE  /\ SubSeq(text, p + 1, p + k) \in Text
           /\ Len(SubSeq(text, p + 1, p + k)) = k
           /\ \A i \in 1 .. k : SubSeq(text, p + 1, p + k)[i] = text[p + i]
<1> DEFINE m == p + 1
           n == p + k
<1>1. m \in Int /\ n \in Int /\ n - m + 1 = k
  OBVIOUS
<1>2. ASSUME NEW i \in m .. n PROVE text[i] \in Char
  BY Length, ElementOfSeq DEF Text
<1>3. /\ SubSeq(text, m, n) \in Seq(Char)
      /\ Len(SubSeq(text, m, n)) = IF m <= n THEN n - m + 1 ELSE 0
      /\ \A i \in 1 .. n - m + 1 : SubSeq(text, m, n)[i] = text[m + i - 1]
  <2> HIDE DEF m, n
  <2> QED BY <1>1, <1>2, SubSeqProperties
<1>4. \A i \in 1 .. k : m + i - 1 = p + i
  OBVIOUS
<1> QED BY <1>1, <1>3, <1>4 DEF Text

\* A call under way has its record.
LEMMA CallType ==
    ASSUME TypeOK, Busy
    PROVE  /\ call \in Call
           /\ call.op \in {"fgets", "fread"}
           /\ call.s \in Slot
           /\ call.want \in Nat
           /\ call.got \in Text
           /\ Len(call.got) \in Nat
<1>1. call \in Call
  BY DEF TypeOK, Busy
<1> QED BY <1>1, Length DEF Call

\* So has an open stream.
LEMMA FileType ==
    ASSUME TypeOK, NEW s \in Slot, files[s].in_use
    PROVE  /\ files[s] \in File
           /\ files[s].path \in Path
           /\ files[s].mode \in {"r", "w"}
           /\ files[s].pos \in Nat
           /\ files[s].buf \in Text
           /\ Len(files[s].buf) \in 0 .. BufSize
           /\ files[s].style \in Style
           /\ Doc(s) \in Text
           /\ Len(Doc(s)) \in Nat
<1>1. files[s] # Free
  BY DEF Free
<1>2. files[s] \in File
  BY <1>1 DEF TypeOK
<1>3. /\ files[s].path \in Path
      /\ files[s].mode \in {"r", "w"}
      /\ files[s].pos \in Nat
      /\ files[s].buf \in Text
      /\ files[s].style \in Style
  BY <1>2 DEF File
<1>4. Len(files[s].buf) <= BufSize
  BY DEF TypeOK
<1>5. Doc(s) \in Text
  BY <1>3 DEF Doc, TypeOK
<1> QED BY <1>2, <1>3, <1>4, <1>5, Length, MiniFileAssumption

\* The stream of the call under way.
LEMMA BusyType ==
    ASSUME TypeOK, Collected, Busy
    PROVE  call.s \in Slot /\ files[call.s].in_use /\ files[call.s] \in File
  BY CallType, FileType DEF Collected, Reading

\* What fwrite, fgets and fread change of a stream.
LEMMA Changed ==
    ASSUME NEW f \in File, NEW b \in Text, NEW n \in Nat
    PROVE  LET r == [f EXCEPT !.buf = b, !.pos = n]
           IN  /\ r \in File
               /\ r.in_use /\ r.path = f.path /\ r.mode = f.mode
               /\ r.style = f.style /\ r.buf = b /\ r.pos = n
  BY DEF File

\* The same of all streams.
Updates(s, b, n) ==
    \/ files' = [files EXCEPT ![s].buf = b, ![s].pos = n]
    \/ files' = [files EXCEPT ![s].buf = b] /\ n = files[s].pos
    \/ files' = [files EXCEPT ![s].pos = n] /\ b = files[s].buf

LEMMA Updated ==
    ASSUME TypeOK, NEW s \in Slot, files[s].in_use, NEW b \in Text,
           NEW n \in Nat, Updates(s, b, n)
    PROVE  /\ files' \in [Slot -> File \cup {Free}]
           /\ \A t \in Slot : t # s => files'[t] = files[t]
           /\ files'[s] \in File
           /\ files'[s].in_use
           /\ files'[s].path = files[s].path
           /\ files'[s].mode = files[s].mode
           /\ files'[s].style = files[s].style
           /\ files'[s].buf = b
           /\ files'[s].pos = n
<1> DEFINE f == files[s]
           r == [f EXCEPT !.buf = b, !.pos = n]
<1>1. f \in File /\ files \in [Slot -> File \cup {Free}]
  BY FileType DEF TypeOK
<1>2. /\ r \in File
      /\ r.in_use /\ r.path = f.path /\ r.mode = f.mode
      /\ r.style = f.style /\ r.buf = b /\ r.pos = n
  <2>1. f \in File
    BY <1>1
  <2> HIDE DEF f
  <2> QED BY <2>1, Changed, Zenon
<1>3. files' = [files EXCEPT ![s] = r]
  <2>1. CASE files' = [files EXCEPT ![s].buf = b, ![s].pos = n]
    BY <1>1, <2>1
  <2>2. CASE files' = [files EXCEPT ![s].buf = b] /\ n = f.pos
    <3>1. [f EXCEPT !.buf = b] = r
      BY <1>1, <2>2 DEF File
    <3> QED BY <2>2, <3>1
  <2>3. CASE files' = [files EXCEPT ![s].pos = n] /\ b = f.buf
    <3>1. [f EXCEPT !.pos = n] = r
      BY <1>1, <2>3 DEF File
    <3> QED BY <2>3, <3>1
  <2> QED BY <2>1, <2>2, <2>3 DEF Updates
<1> HIDE DEF r
<1>4. files' \in [Slot -> File \cup {Free}] /\ files'[s] = r
  BY <1>1, <1>2, <1>3
<1>5. \A t \in Slot : t # s => files'[t] = files[t]
  BY <1>1, <1>3
<1> QED BY <1>2, <1>3, <1>4, <1>5 DEF r

\* What read() delivers.
LEMMA Delivered ==
    ASSUME TypeOK, Collected, Busy, NEW n \in Int, NEW data \in Deliveries(n)
    PROVE  /\ data \in Text
           /\ Len(data) \in 1 .. n
           /\ files[call.s].pos + Len(data) <= Len(Doc(call.s))
           /\ \A i \in 1 .. Len(data) :
                 data[i] = Doc(call.s)[files[call.s].pos + i]
<1> DEFINE pos == files[call.s].pos
           text == Doc(call.s)
<1>1. /\ call.s \in Slot
      /\ pos \in Nat
      /\ text \in Text /\ text \in Seq(Char)
      /\ Len(text) \in Nat
  BY BusyType, FileType DEF Text
<1>2. PICK k \in 1 .. Rest(call.s) :
          k <= n /\ data = SubSeq(text, pos + 1, pos + k)
  BY DEF Deliveries, Doc
<1>3. k \in Nat /\ 1 <= k /\ pos + k <= Len(text)
  BY <1>1, <1>2 DEF Rest, Doc
<1> HIDE DEF pos, text
<1>4. /\ data \in Text
      /\ Len(data) = k
      /\ \A i \in 1 .. k : data[i] = text[pos + i]
  BY <1>1, <1>2, <1>3, Cut
<1>5. k \in 1 .. n
  <2>1. k <= n
    BY <1>2
  <2> QED BY <1>3, <2>1
<1> QED BY <1>3, <1>4, <1>5 DEF pos, text

(***************************************************************************)
(* Type correctness.                                                       *)
(***************************************************************************)

LEMMA TypeInit == Init => TypeOK
<1> SUFFICES ASSUME Init PROVE TypeOK
  OBVIOUS
<1>1. disk \in [Path -> Text] /\ call = Idle
  BY MiniFileAssumption DEF Init
<1>2. /\ files = [s \in Slot |-> Free]
      /\ \A s \in Slot : ~files[s].in_use
  BY DEF Init, Free
<1>3. reply \in [null : BOOLEAN, data : Text]
  BY EmptyText DEF Init, Null
<1> QED BY <1>1, <1>2, <1>3 DEF TypeOK

\* What stays of the types when one stream changes.
LEMMA TypeKept ==
    ASSUME TypeOK, NEW s \in Slot,
           files' \in [Slot -> File \cup {Free}],
           \A t \in Slot : t # s => files'[t] = files[t],
           files'[s].in_use => Len(files'[s].buf) <= BufSize,
           disk' \in [Path -> Text],
           call' \in Call \cup {Idle},
           reply' \in [null : BOOLEAN, data : Text]
    PROVE  TypeOK'
<1>1. ASSUME NEW t \in Slot, files'[t].in_use
      PROVE  Len(files'[t].buf) <= BufSize
  <2>1. CASE t = s
    BY <1>1, <2>1
  <2>2. CASE t # s
    BY <1>1, <2>2 DEF TypeOK
  <2> QED BY <2>1, <2>2
<1> QED BY <1>1 DEF TypeOK

LEMMA AnswerType ==
    ASSUME NEW data \in Text
    PROVE  /\ Answer(data) \in [null : BOOLEAN, data : Text]
           /\ Null \in [null : BOOLEAN, data : Text]
  BY EmptyText DEF Answer, Null

LEMMA DiskType ==
    ASSUME TypeOK, NEW path \in Path, NEW data \in Text
    PROVE  /\ AppendTo(path, data) \in [Path -> Text]
           /\ [disk EXCEPT ![path] = <<>>] \in [Path -> Text]
<1>1. disk \in [Path -> Text] /\ disk[path] \in Text
  BY DEF TypeOK
<1>2. disk[path] \o data \in Text
  BY <1>1, Concat
<1> QED BY <1>1, <1>2, EmptyText DEF AppendTo

LEMMA FopenType ==
    ASSUME TypeOK, NEW path \in Path, NEW mode \in {"r", "w"},
           NEW style \in Style, fopen(path, mode, style)
    PROVE  TypeOK'
<1>1. PICK s \in Slot :
          /\ FirstFree(s)
          /\ files' = [files EXCEPT ![s] =
                         [in_use |-> TRUE, path |-> path, mode |-> mode,
                          pos |-> 0, buf |-> <<>>, style |-> style]]
  BY DEF fopen
<1> DEFINE r == [in_use |-> TRUE, path |-> path, mode |-> mode, pos |-> 0,
                 buf |-> <<>>, style |-> style]
<1>2. r \in File /\ r.buf = <<>>
  BY EmptyText DEF File
<1> HIDE DEF r
<1>3. files \in [Slot -> File \cup {Free}] /\ files' = [files EXCEPT ![s] = r]
  BY <1>1 DEF TypeOK, r
<1>4. /\ files' \in [Slot -> File \cup {Free}]
      /\ \A t \in Slot : t # s => files'[t] = files[t]
      /\ files'[s] = r
  BY <1>2, <1>3
<1>5. Len(files'[s].buf) <= BufSize
  BY <1>2, <1>4, EmptyText, MiniFileAssumption
<1>6. disk' \in [Path -> Text]
  BY DiskType, EmptyText DEF fopen, Opened, TypeOK
<1>7. reply' \in [null : BOOLEAN, data : Text] /\ call' \in Call \cup {Idle}
  BY AnswerType, EmptyText DEF fopen, TypeOK
<1> QED BY <1>4, <1>5, <1>6, <1>7, TypeKept

LEMMA FopenFailsType ==
    ASSUME TypeOK, NEW path \in Path, NEW mode \in {"r", "w"},
           fopen_fails(path, mode)
    PROVE  TypeOK'
<1>1. disk' \in [Path -> Text]
  BY DiskType, EmptyText DEF fopen_fails, Opened, TypeOK
<1>2. reply' \in [null : BOOLEAN, data : Text]
  BY AnswerType, EmptyText DEF fopen_fails
<1> QED BY <1>1, <1>2 DEF fopen_fails, TypeOK

LEMMA FcloseType ==
    ASSUME TypeOK, NEW s \in Slot, fclose(s)
    PROVE  TypeOK'
<1>1. files[s].path \in Path /\ files[s].buf \in Text
  BY FileType DEF fclose
<1>2. disk' \in [Path -> Text]
  BY <1>1, DiskType DEF fclose, TypeOK
<1>3. files' = [files EXCEPT ![s] = Free]
  BY DEF fclose
<1>4. files \in [Slot -> File \cup {Free}]
  BY DEF TypeOK
<1>5. /\ files' \in [Slot -> File \cup {Free}]
      /\ \A t \in Slot : t # s => files'[t] = files[t]
      /\ files'[s] = Free
  BY <1>3, <1>4
<1>6. ~files'[s].in_use
  BY <1>5 DEF Free
<1>7. reply' \in [null : BOOLEAN, data : Text] /\ call' \in Call \cup {Idle}
  BY AnswerType, EmptyText DEF fclose, TypeOK
<1> QED BY <1>2, <1>5, <1>6, <1>7, TypeKept

\* fwrite puts what it does not write into the buffer, where there is room.
LEMMA FwriteChanges ==
    ASSUME TypeOK, NEW s \in Slot, NEW data \in Data, fwrite(s, data)
    PROVE  /\ Writing(s) /\ call = Idle /\ call' = call
           /\ reply' = Answer(<<>>)
           /\ data \in Text
           /\ \E out \in Text, left \in Text :
                 /\ disk' = AppendTo(files[s].path, out)
                 /\ files' = [files EXCEPT ![s].buf = left]
                 /\ Len(left) <= BufSize
                 /\ out \o left = files[s].buf \o data
<1> DEFINE buf == files[s].buf
           flushed == Flushed(s, data)
           kept == IF Overflows(s, data) THEN <<>> ELSE buf
<1>1. /\ Writing(s) /\ call = Idle /\ call' = call
      /\ reply' = Answer(<<>>)
      /\ data \in Text
  BY MiniFileAssumption DEF fwrite
<1>2. buf \in Text /\ Len(buf) \in Nat /\ Len(data) \in Nat
  BY <1>1, FileType, Length DEF Writing
<1>3. flushed \in Text /\ kept \in Text /\ flushed \o kept = buf
  <2>1. CASE Overflows(s, data)
    BY <1>2, <2>1, EmptyText, ConcatEmptySeq DEF Flushed, Text
  <2>2. CASE ~Overflows(s, data)
    BY <1>2, <2>2, EmptyText, ConcatEmptySeq DEF Flushed, Text
  <2> QED BY <2>1, <2>2
<1>4. BufSize \in Nat
  BY MiniFileAssumption
<1>5. CASE Len(data) > BufSize
  <2>1. disk' = AppendTo(files[s].path, flushed \o data)
    BY <1>5 DEF fwrite
  <2>2. files' = [files EXCEPT ![s].buf = kept]
    BY <1>5 DEF fwrite
  <2>3. kept = <<>> /\ flushed = buf
    BY <1>2, <1>4, <1>5 DEF Overflows, Flushed
  <2>4. flushed \o data \in Text /\ (flushed \o data) \o kept = buf \o data
    <3>1. flushed \o data \in Text
      BY <1>1, <1>3, Concat
    <3>2. (flushed \o data) \o <<>> = flushed \o data
      BY <3>1, ConcatEmptySeq DEF Text
    <3> QED BY <2>3, <3>1, <3>2
  <2>5. Len(kept) <= BufSize
    BY <1>4, <2>3, EmptyText
  <2> QED BY <1>1, <1>3, <2>1, <2>2, <2>4, <2>5
<1>6. CASE ~(Len(data) > BufSize)
  <2>1. disk' = AppendTo(files[s].path, flushed)
    BY <1>6 DEF fwrite
  <2>2. files' = [files EXCEPT ![s].buf = kept \o data]
    BY <1>6 DEF fwrite
  <2>3. kept \o data \in Text /\ Len(kept \o data) = Len(kept) + Len(data)
    BY <1>1, <1>3, Concat
  <2>4. Len(kept \o data) <= BufSize
    <3>1. CASE Overflows(s, data)
      <4>1. Len(kept) = 0
        BY <3>1, EmptyText
      <4> HIDE DEF kept
      <4> QED BY <1>2, <1>4, <1>6, <2>3, <4>1
    <3>2. CASE ~Overflows(s, data)
      <4>1. kept = buf
        BY <3>2
      <4> QED BY <1>2, <1>4, <2>3, <3>2, <4>1 DEF Overflows
    <3> QED BY <3>1, <3>2
  <2>5. flushed \o (kept \o data) = buf \o data
    <3> HIDE DEF flushed, kept
    <3>1. (flushed \o kept) \o data = flushed \o (kept \o data)
      BY <1>1, <1>3, Assoc
    <3> QED BY <1>3, <3>1
  <2> QED BY <1>1, <1>3, <2>1, <2>2, <2>3, <2>4, <2>5
<1> QED BY <1>5, <1>6

LEMMA FwriteType ==
    ASSUME TypeOK, NEW s \in Slot, NEW data \in Data, fwrite(s, data)
    PROVE  TypeOK'
<1>1. PICK out \in Text, left \in Text :
          /\ disk' = AppendTo(files[s].path, out)
          /\ files' = [files EXCEPT ![s].buf = left]
          /\ Len(left) <= BufSize
  BY FwriteChanges
<1>2. files[s].in_use /\ files[s].path \in Path /\ files[s].pos \in Nat
  BY FwriteChanges, FileType DEF Writing
<1>3. /\ files' \in [Slot -> File \cup {Free}]
      /\ \A t \in Slot : t # s => files'[t] = files[t]
      /\ files'[s].buf = left
  <2>1. Updates(s, left, files[s].pos)
    BY <1>1 DEF Updates
  <2> QED BY <1>2, <2>1, Updated
<1>4. disk' \in [Path -> Text]
  BY <1>1, <1>2, DiskType
<1>5. reply' \in [null : BOOLEAN, data : Text] /\ call' \in Call \cup {Idle}
  BY AnswerType, EmptyText, FwriteChanges DEF TypeOK
<1> QED BY <1>1, <1>3, <1>4, <1>5, TypeKept

LEMMA FprintfType ==
    ASSUME TypeOK, NEW s \in Slot, NEW data \in Printed, fprintf(s, data)
    PROVE  TypeOK'
<1>1. files[s].path \in Path /\ data \in Text
  BY FileType, MiniFileAssumption DEF fprintf, Writing
<1>2. disk' \in [Path -> Text]
  BY <1>1, DiskType DEF fprintf
<1>3. reply' \in [null : BOOLEAN, data : Text]
  BY AnswerType, EmptyText DEF fprintf
<1> QED BY <1>2, <1>3 DEF fprintf, TypeOK

LEMMA BeginType ==
    ASSUME TypeOK, NEW s \in Slot, NEW op \in {"fgets", "fread"},
           NEW want \in Nat, Begin(op, s, want)
    PROVE  TypeOK'
<1>1. call' \in Call
  BY EmptyText DEF Begin, Call
<1> QED BY <1>1 DEF Begin, TypeOK

\* The character Take moves.
LEMMA TakeChanges ==
    ASSUME TypeOK, Collected, Take
    PROVE  /\ Head(Buffered) \in Char
           /\ Head(Buffered) = Buffered[1]
           /\ Tail(Buffered) \in Text
           /\ Len(Buffered) \in 1 .. BufSize
           /\ Len(Tail(Buffered)) = Len(Buffered) - 1
           /\ \A i \in 1 .. Len(Tail(Buffered)) :
                 Tail(Buffered)[i] = Buffered[i + 1]
           /\ call.got \o <<Head(Buffered)>> \in Text
           /\ Len(call.got \o <<Head(Buffered)>>) = Len(call.got) + 1
           /\ \A i \in 1 .. Len(call.got) + 1 :
                 (call.got \o <<Head(Buffered)>>)[i] =
                    IF i <= Len(call.got) THEN call.got[i] ELSE Buffered[1]
           /\ call' \in Call
<1> DEFINE buf == Buffered
           c == Head(Buffered)
<1>1. /\ call \in Call /\ call.got \in Text /\ Len(call.got) \in Nat
      /\ buf \in Seq(Char) /\ buf # <<>>
      /\ Len(buf) \in 0 .. BufSize
  BY BusyType, CallType, FileType DEF Take, Buffered, Text
<1> HIDE DEF buf
<1>2. /\ Head(buf) \in Char
      /\ Tail(buf) \in Seq(Char)
      /\ Len(Tail(buf)) = Len(buf) - 1
      /\ \A i \in 1 .. Len(Tail(buf)) : Tail(buf)[i] = buf[i + 1]
  BY <1>1, HeadTailProperties
<1>3. Len(buf) \in 1 .. BufSize
  BY <1>1, EmptySeq
<1>4. Head(buf) = buf[1]
  BY <1>1
<1>5. <<Head(buf)>> \in Text /\ Len(<<Head(buf)>>) = 1
      /\ <<Head(buf)>>[1] = Head(buf)
  BY <1>2 DEF Text
<1>6. /\ call.got \o <<Head(buf)>> \in Text
      /\ Len(call.got \o <<Head(buf)>>) = Len(call.got) + 1
      /\ \A i \in 1 .. Len(call.got) + 1 :
            (call.got \o <<Head(buf)>>)[i] =
               IF i <= Len(call.got) THEN call.got[i]
                                     ELSE <<Head(buf)>>[i - Len(call.got)]
  BY <1>1, <1>5, Concat
<1>7. \A i \in 1 .. Len(call.got) + 1 :
          (call.got \o <<Head(buf)>>)[i] =
             IF i <= Len(call.got) THEN call.got[i] ELSE buf[1]
  <2> TAKE i \in 1 .. Len(call.got) + 1
  <2>1. CASE i <= Len(call.got)
    BY <1>6, <2>1
  <2>2. CASE ~(i <= Len(call.got))
    <3>1. i - Len(call.got) = 1
      BY <1>1, <2>2
    <3> QED BY <1>4, <1>5, <1>6, <2>2, <3>1
  <2> QED BY <2>1, <2>2
<1>8. call' \in Call
  BY <1>1, <1>6 DEF Take, Call, buf
<1> QED BY <1>2, <1>3, <1>4, <1>6, <1>7, <1>8 DEF buf, Text

LEMMA TakeType == ASSUME TypeOK, Collected, Take PROVE TypeOK'
<1> DEFINE s == call.s
<1>1. s \in Slot /\ files[s].in_use /\ files[s].pos \in Nat
  BY BusyType, FileType DEF Take
<1>2. /\ Tail(files[s].buf) \in Text
      /\ Len(Tail(files[s].buf)) <= BufSize
      /\ call' \in Call
  BY TakeChanges, MiniFileAssumption DEF Buffered
<1>3. files' = [files EXCEPT ![s].buf = Tail(files[s].buf)]
  BY DEF Take
<1> HIDE DEF s
<1>4. /\ files' \in [Slot -> File \cup {Free}]
      /\ \A t \in Slot : t # s => files'[t] = files[t]
      /\ files'[s].buf = Tail(files[s].buf)
  <2>1. Updates(s, Tail(files[s].buf), files[s].pos)
    BY <1>3 DEF Updates
  <2> QED BY <1>1, <1>2, <2>1, Updated
<1> QED BY <1>1, <1>2, <1>4, TypeKept DEF Take, TypeOK

LEMMA RefillType == ASSUME TypeOK, Collected, Refill PROVE TypeOK'
<1> DEFINE s == call.s
<1>1. s \in Slot /\ files[s].in_use /\ files[s].pos \in Nat
  BY BusyType, FileType DEF Refill
<1>2. PICK data \in Deliveries(BufSize) :
          files' = [files EXCEPT ![s].buf = data, ![s].pos = @ + Len(data)]
  BY DEF Refill
<1>3. /\ data \in Text /\ Len(data) <= BufSize
      /\ files[s].pos + Len(data) \in Nat
  <2>1. BufSize \in Int /\ Busy
    BY MiniFileAssumption DEF Refill
  <2>2. data \in Text /\ Len(data) \in 1 .. BufSize
    BY <2>1, Delivered, Zenon
  <2> QED BY <1>1, <2>2
<1> HIDE DEF s
<1>4. /\ files' \in [Slot -> File \cup {Free}]
      /\ \A t \in Slot : t # s => files'[t] = files[t]
      /\ files'[s].buf = data
  <2>1. Updates(s, data, files[s].pos + Len(data))
    BY <1>1, <1>2 DEF TypeOK, Updates
  <2> QED BY <1>1, <1>3, <2>1, Updated
<1> QED BY <1>1, <1>3, <1>4, TypeKept DEF Refill, TypeOK

LEMMA ReadDirectlyType == ASSUME TypeOK, Collected, ReadDirectly PROVE TypeOK'
<1> DEFINE s == call.s
<1>1. /\ s \in Slot /\ files[s].in_use /\ files[s].pos \in Nat
      /\ files[s].buf \in Text /\ Len(files[s].buf) <= BufSize
      /\ call \in Call /\ call.got \in Text
      /\ call.want - Len(call.got) \in Int
  BY BusyType, FileType, CallType, MiniFileAssumption DEF ReadDirectly
<1>2. PICK data \in Deliveries(call.want - Len(call.got)) :
          /\ call' = [call EXCEPT !.got = @ \o data]
          /\ files' = [files EXCEPT ![s].pos = @ + Len(data)]
  BY DEF ReadDirectly
<1>3. data \in Text /\ files[s].pos + Len(data) \in Nat
  <2>1. Busy
    BY DEF ReadDirectly
  <2>2. data \in Text
    BY <1>1, <2>1, Delivered, Zenon
  <2>3. Len(data) \in Nat
    BY <2>2, Length
  <2> QED BY <1>1, <2>2, <2>3
<1>4. call.got \o data \in Text
  BY <1>1, <1>3, Concat
<1>5. call' \in Call
  BY <1>1, <1>2, <1>4 DEF Call
<1> HIDE DEF s
<1>6. /\ files' \in [Slot -> File \cup {Free}]
      /\ \A t \in Slot : t # s => files'[t] = files[t]
      /\ files'[s].buf = files[s].buf
  <2>1. Updates(s, files[s].buf, files[s].pos + Len(data))
    BY <1>1, <1>2 DEF TypeOK, Updates
  <2> QED BY <1>1, <1>3, <2>1, Updated
<1> QED BY <1>1, <1>5, <1>6, TypeKept DEF ReadDirectly, TypeOK

LEMMA ReturnType == ASSUME TypeOK, Return PROVE TypeOK'
<1>1. call.got \in Text
  BY CallType DEF Return
<1>2. reply' \in [null : BOOLEAN, data : Text]
  BY <1>1, AnswerType DEF Return
<1> QED BY <1>2 DEF Return, TypeOK

LEMMA KilledType == ASSUME TypeOK, Killed PROVE TypeOK'
<1>1. files' = [s \in Slot |-> Free] /\ \A s \in Slot : ~files'[s].in_use
  BY DEF Killed, Free
<1>2. reply' \in [null : BOOLEAN, data : Text]
  BY AnswerType, EmptyText DEF Killed
<1> QED BY <1>1, <1>2 DEF Killed, TypeOK

(***************************************************************************)
(* The invariant holds.                                                    *)
(***************************************************************************)

LEMMA InvInit == Init => Inv
<1> SUFFICES ASSUME Init PROVE Inv
  OBVIOUS
<1>1. TypeOK
  BY TypeInit
<1>2. \A s \in Slot : ~files[s].in_use
  BY DEF Init, Free
<1>3. ~Busy
  BY DEF Init, Busy
<1> QED
  BY <1>1, <1>2, <1>3
     DEF Inv, Exclusive, Unbuffered, ReadAhead, Collected, Wanted, Reading,
         Writing

\* A new stream.
LEMMA FopenStep ==
    ASSUME Inv, NEW path \in Path, NEW mode \in {"r", "w"},
           NEW style \in Style, fopen(path, mode, style)
    PROVE  /\ Inv'
           /\ \A t \in Slot : ~Holds(t, path)
           /\ call = Idle /\ call' = Idle
           /\ \E s \in Slot :
                 /\ ~files[s].in_use
                 /\ \A t \in Slot : t # s => files'[t] = files[t]
                 /\ files'[s].in_use /\ files'[s].path = path
                 /\ files'[s].mode = mode /\ files'[s].pos = 0
                 /\ files'[s].buf = <<>>
<1>1. TypeOK /\ TypeOK'
  BY FopenType DEF Inv
<1>2. call = Idle /\ call' = Idle /\ \A t \in Slot : ~Holds(t, path)
  BY DEF fopen, MayOpen
<1>3. PICK s \in Slot :
          /\ FirstFree(s)
          /\ files' = [files EXCEPT ![s] =
                         [in_use |-> TRUE, path |-> path, mode |-> mode,
                          pos |-> 0, buf |-> <<>>, style |-> style]]
  BY DEF fopen
<1>4. /\ \A t \in Slot : t # s => files'[t] = files[t]
      /\ files'[s].in_use /\ files'[s].path = path
      /\ files'[s].mode = mode /\ files'[s].pos = 0
      /\ files'[s].buf = <<>>
  BY <1>1, <1>3 DEF TypeOK
<1>5. ~files[s].in_use
  BY <1>3 DEF FirstFree
<1>6. Exclusive'
  BY <1>2, <1>4 DEF Inv, Exclusive, Holds
<1>7. Unbuffered'
  BY <1>4 DEF Inv, Unbuffered, Writing
<1>8. ReadAhead'
  <2> SUFFICES ASSUME NEW t \in Slot, Reading(t)'
               PROVE  /\ files'[t].pos <= Len(Doc(t)')
                      /\ Len(files'[t].buf) <= files'[t].pos
                      /\ \A i \in 1 .. Len(files'[t].buf) :
                            files'[t].buf[i] =
                              Doc(t)'[files'[t].pos - Len(files'[t].buf) + i]
    BY DEF ReadAhead
  <2>1. CASE t = s
    <3>1. Doc(s)' \in Text
      BY <1>1, <1>4 DEF TypeOK, Doc
    <3>2. Len(Doc(s)') \in Nat /\ Len(<<>>) = 0
      BY <3>1, Length, EmptyText
    <3> QED BY <1>4, <2>1, <3>2
  <2>2. CASE t # s
    <3>1. files'[t] = files[t] /\ Reading(t)
      BY <1>4, <2>2 DEF Reading
    <3>2. files[t].path \in Path /\ files[t].path # path
      BY <1>1, <1>2, <3>1, FileType DEF Holds, Reading
    <3>3. Doc(t)' = Doc(t)
      BY <1>1, <3>1, <3>2 DEF fopen, Opened, Doc, TypeOK
    <3> QED BY <3>1, <3>3 DEF Inv, ReadAhead
  <2> QED BY <2>1, <2>2
<1>9. Collected' /\ Wanted'
  BY <1>2 DEF Collected, Wanted, Busy
<1> QED
  BY <1>1, <1>2, <1>4, <1>5, <1>6, <1>7, <1>8, <1>9 DEF Inv

\* Nothing but a path that no stream holds may change when fopen fails.
LEMMA FopenFailsStep ==
    ASSUME Inv, NEW path \in Path, NEW mode \in {"r", "w"},
           fopen_fails(path, mode)
    PROVE  /\ Inv'
           /\ \A t \in Slot : ~Holds(t, path)
           /\ call' = call /\ files' = files
           /\ \/ disk' = disk
              \/ mode = "w" /\ disk' = [disk EXCEPT ![path] = <<>>]
<1>1. TypeOK /\ TypeOK'
  BY FopenFailsType DEF Inv
<1>2. /\ call = Idle /\ call' = call /\ files' = files
      /\ \A t \in Slot : ~Holds(t, path)
      /\ \/ disk' = disk
         \/ mode = "w" /\ disk' = [disk EXCEPT ![path] = <<>>]
  BY DEF fopen_fails, MayOpen, Opened
<1>3. ASSUME NEW t \in Slot, Reading(t) PROVE Doc(t)' = Doc(t)
  <2>1. files[t].path \in Path /\ files[t].path # path
    BY <1>1, <1>2, <1>3, FileType DEF Holds, Reading
  <2> QED BY <1>1, <1>2, <2>1 DEF Doc, TypeOK
<1>4. ReadAhead'
  BY <1>2, <1>3 DEF Inv, ReadAhead, Reading
<1>5. Exclusive' /\ Unbuffered'
  BY <1>2 DEF Inv, Exclusive, Unbuffered, Writing
<1>6. Collected' /\ Wanted'
  BY <1>2 DEF Collected, Wanted, Busy
<1> QED BY <1>1, <1>2, <1>4, <1>5, <1>6 DEF Inv

\* A write or a close leaves the streams that are read alone.
LEMMA WriterStep ==
    ASSUME Inv, TypeOK', NEW s \in Slot, files[s].in_use,
           call = Idle, call' = Idle,
           \A t \in Slot : t # s => files'[t] = files[t],
           files'[s].in_use =>
               /\ files[s].mode = "w"
               /\ files'[s].mode = "w"
               /\ files'[s].path = files[s].path
               /\ files'[s].style = "printed" => files'[s].buf = <<>>,
           \A path \in Path :
               path # files[s].path => disk'[path] = disk[path]
    PROVE  Inv'
<1>1. TypeOK /\ Exclusive
  BY DEF Inv
<1>2. Exclusive' /\ Unbuffered'
  BY <1>1 DEF Inv, Exclusive, Unbuffered, Writing
<1>3. ASSUME NEW t \in Slot, Reading(t)'
      PROVE  files'[t] = files[t] /\ Reading(t) /\ Doc(t)' = Doc(t)
  <2>1. t # s
    BY <1>3 DEF Reading
  <2>2. files'[t] = files[t] /\ Reading(t)
    BY <1>3, <2>1 DEF Reading
  <2>3. files[t].path \in Path /\ files[t].path # files[s].path
    BY <1>1, <2>1, <2>2, FileType DEF Exclusive, Reading
  <2> QED BY <2>2, <2>3 DEF Doc
<1>4. ReadAhead'
  BY <1>3 DEF Inv, ReadAhead
<1>5. Collected' /\ Wanted'
  BY DEF Collected, Wanted, Busy
<1> QED BY <1>2, <1>4, <1>5 DEF Inv

LEMMA FcloseStep ==
    ASSUME Inv, NEW s \in Slot, fclose(s)
    PROVE  /\ Inv'
           /\ call = Idle /\ call' = Idle
           /\ files[s].in_use
           /\ \A t \in Slot : t # s => files'[t] = files[t]
           /\ ~files'[s].in_use /\ files'[s] = Free
           /\ disk' = IF files[s].mode = "w"
                      THEN AppendTo(files[s].path, files[s].buf) ELSE disk
<1>1. TypeOK /\ TypeOK'
  BY FcloseType DEF Inv
<1>2. /\ call = Idle /\ call' = Idle
      /\ files[s].in_use
      /\ disk' = IF files[s].mode = "w"
                 THEN AppendTo(files[s].path, files[s].buf) ELSE disk
  BY DEF fclose
<1>3. /\ \A t \in Slot : t # s => files'[t] = files[t]
      /\ files'[s] = Free
  BY <1>1 DEF fclose, TypeOK
<1>4. ~files'[s].in_use
  BY <1>3 DEF Free
<1>5. \A path \in Path : path # files[s].path => disk'[path] = disk[path]
  BY <1>1, <1>2 DEF AppendTo, TypeOK
<1>6. Inv'
  BY <1>1, <1>2, <1>3, <1>4, <1>5, WriterStep
<1> QED BY <1>2, <1>3, <1>4, <1>6

LEMMA FwriteStep ==
    ASSUME Inv, NEW s \in Slot, NEW data \in Data, fwrite(s, data)
    PROVE  /\ Inv'
           /\ Writing(s) /\ Writing(s)' /\ call = Idle /\ call' = Idle
           /\ files'[s].path = files[s].path
           /\ \A t \in Slot : t # s => files'[t] = files[t]
           /\ \E out \in Text :
                 /\ disk' = AppendTo(files[s].path, out)
                 /\ out \o files'[s].buf = files[s].buf \o data
<1>1. TypeOK /\ TypeOK'
  BY FwriteType DEF Inv
<1>2. Writing(s) /\ call = Idle /\ call' = Idle /\ files[s].style = "buffered"
  BY DEF fwrite
<1>3. PICK out \in Text, left \in Text :
          /\ disk' = AppendTo(files[s].path, out)
          /\ files' = [files EXCEPT ![s].buf = left]
          /\ out \o left = files[s].buf \o data
  <2>1. \E out \in Text, left \in Text :
            /\ disk' = AppendTo(files[s].path, out)
            /\ files' = [files EXCEPT ![s].buf = left]
            /\ Len(left) <= BufSize
            /\ out \o left = files[s].buf \o data
    BY <1>1, FwriteChanges, Zenon
  <2> QED BY <2>1, Zenon
<1>4. files[s].in_use /\ files[s].mode = "w" /\ files[s].pos \in Nat
  BY <1>1, <1>2, FileType DEF Writing
<1>5. /\ \A t \in Slot : t # s => files'[t] = files[t]
      /\ files'[s].in_use
      /\ files'[s].path = files[s].path
      /\ files'[s].mode = files[s].mode
      /\ files'[s].style = files[s].style
      /\ files'[s].buf = left
  <2>1. Updates(s, left, files[s].pos)
    BY <1>3 DEF Updates
  <2> QED BY <1>1, <1>4, <2>1, Updated
<1>6. \A path \in Path : path # files[s].path => disk'[path] = disk[path]
  BY <1>1, <1>3 DEF AppendTo, TypeOK
<1>7. files'[s].style # "printed"
  BY <1>2, <1>5
<1>8. Inv'
  BY <1>1, <1>2, <1>4, <1>5, <1>6, <1>7, WriterStep
<1> QED BY <1>2, <1>3, <1>4, <1>5, <1>8 DEF Writing

LEMMA FprintfStep ==
    ASSUME Inv, NEW s \in Slot, NEW data \in Printed, fprintf(s, data)
    PROVE  /\ Inv'
           /\ Writing(s) /\ call = Idle /\ call' = Idle
           /\ files' = files
           /\ files[s].buf = <<>>
           /\ data \in Text
           /\ disk' = AppendTo(files[s].path, data)
<1>1. TypeOK /\ TypeOK'
  BY FprintfType DEF Inv
<1>2. /\ Writing(s) /\ call = Idle /\ call' = Idle
      /\ files' = files
      /\ disk' = AppendTo(files[s].path, data)
      /\ files[s].style = "printed"
      /\ data \in Text
  BY MiniFileAssumption DEF fprintf
<1>3. files[s].in_use /\ files[s].mode = "w"
  BY <1>2 DEF Writing
<1>4. files[s].buf = <<>>
  BY <1>2, <1>3 DEF Inv, Unbuffered
<1>5. \A path \in Path : path # files[s].path => disk'[path] = disk[path]
  BY <1>1, <1>2 DEF AppendTo, TypeOK
<1>6. Inv'
  BY <1>1, <1>2, <1>3, <1>4, <1>5, WriterStep
<1> QED BY <1>2, <1>4, <1>6

\* A call begins where its stream stands.
LEMMA BeginStep ==
    ASSUME Inv, NEW s \in Slot, NEW op \in {"fgets", "fread"},
           NEW want \in Nat, Begin(op, s, want),
           op = "fgets" => \E size \in Size : want = size - 1,
           op = "fread" => want \in Want
    PROVE  /\ Inv'
           /\ ~Busy /\ Busy'
           /\ call'.s = s /\ Len(call'.got) = 0
           /\ disk' = disk /\ files' = files /\ reply' = reply
<1>1. TypeOK /\ TypeOK'
  BY BeginType DEF Inv
<1>2. /\ ~Busy /\ Reading(s)
      /\ call' = [op |-> op, s |-> s, want |-> want, got |-> <<>>]
      /\ disk' = disk /\ files' = files /\ reply' = reply
  BY DEF Begin, Busy
<1>3. Len(call'.got) = 0 /\ call'.s = s /\ call'.want = want /\ call'.op = op
  BY <1>2, EmptyText
<1>4. Busy'
  BY <1>2 DEF Busy, Idle
<1>5. Exclusive' /\ Unbuffered' /\ ReadAhead'
  BY <1>2 DEF Inv, Exclusive, Unbuffered, ReadAhead, Reading, Writing, Doc
<1>6. /\ Len(files[s].buf) \in Nat /\ files[s].pos \in Nat
      /\ Len(files[s].buf) <= files[s].pos
  BY <1>1, <1>2, FileType DEF Inv, ReadAhead, Reading
<1>7. Collected'
  BY <1>2, <1>3, <1>6 DEF Collected, Reading
<1>8. Wanted'
  BY <1>3 DEF Wanted
<1> QED BY <1>1, <1>2, <1>3, <1>4, <1>5, <1>7, <1>8 DEF Inv

\* An iteration of a call's loop collects bytes, and moves nothing else: it
\* gives the stream a new buffer and a new position, and the call a new got.
Iterates(buf, pos, got) ==
    LET s == call.s
    IN  /\ call'.s = s /\ call'.op = call.op /\ call'.want = call.want
        /\ call'.got = got
        /\ disk' = disk /\ reply' = reply
        /\ \A t \in Slot : t # s => files'[t] = files[t]
        /\ files'[s].in_use
        /\ files'[s].path = files[s].path
        /\ files'[s].mode = files[s].mode
        /\ files'[s].buf = buf
        /\ files'[s].pos = pos

\* What the callers see of it: nothing.
Silent ==
    /\ Busy /\ Busy'
    /\ call'.s = call.s
    /\ disk' = disk /\ reply' = reply
    /\ \A t \in Slot : t # call.s => files'[t] = files[t]
    /\ files'[call.s].in_use
    /\ files'[call.s].path = files[call.s].path
    /\ files'[call.s].mode = files[call.s].mode
    /\ Position(call.s)' = Position(call.s)

LEMMA IterationStep ==
    ASSUME Inv, TypeOK', Busy, Busy', NEW buf \in Text, NEW pos \in Nat,
           NEW got \in Text, Iterates(buf, pos, got),
           pos <= Len(Doc(call.s)),
           Len(buf) + Len(got) <= pos,
           pos - Len(buf) - Len(got) = Position(call.s),
           \A i \in 1 .. Len(buf) :
               buf[i] = Doc(call.s)[pos - Len(buf) + i],
           \A i \in 1 .. Len(got) :
               got[i] = Doc(call.s)[Position(call.s) + i],
           Len(got) <= call.want,
           call.op = "fgets" => \A i \in 1 .. Len(got) - 1 : got[i] # Newline
    PROVE  Inv' /\ Silent
<1>1. call.s \in Slot
  BY CallType DEF Inv
<1> SUFFICES ASSUME NEW s \in Slot, s = call.s
             PROVE  Inv' /\ Silent
  BY <1>1
<1>2. /\ Reading(s) /\ TypeOK
      /\ Len(buf) \in Nat /\ Len(got) \in Nat
  BY Length DEF Inv, Collected
<1>3. /\ call'.s = s /\ call'.op = call.op /\ call'.want = call.want
      /\ call'.got = got
      /\ disk' = disk
      /\ \A t \in Slot : t # s => files'[t] = files[t]
      /\ files'[s].in_use
      /\ files'[s].path = files[s].path
      /\ files'[s].mode = files[s].mode
      /\ files'[s].buf = buf
      /\ files'[s].pos = pos
  BY DEF Iterates
<1>4. Reading(s)' /\ ~Writing(s)' /\ ~Writing(s) /\ Doc(s)' = Doc(s)
  BY <1>2, <1>3 DEF Reading, Writing, Doc
<1>5. Exclusive'
  <2>1. ASSUME NEW t \in Slot, files'[t].in_use
        PROVE  files[t].in_use /\ files'[t].path = files[t].path
    BY <1>2, <1>3, <2>1 DEF Reading
  <2> QED BY <2>1 DEF Inv, Exclusive
<1>6. Unbuffered'
  BY <1>3, <1>4 DEF Inv, Unbuffered, Writing
<1>7. ReadAhead'
  <2> SUFFICES ASSUME NEW t \in Slot, Reading(t)'
               PROVE  /\ files'[t].pos <= Len(Doc(t)')
                      /\ Len(files'[t].buf) <= files'[t].pos
                      /\ \A i \in 1 .. Len(files'[t].buf) :
                            files'[t].buf[i] =
                              Doc(t)'[files'[t].pos - Len(files'[t].buf) + i]
    BY DEF ReadAhead
  <2>1. CASE t = s
    <3>1. Len(buf) <= pos
      BY <1>2
    <3>2. /\ files'[s].pos <= Len(Doc(s)')
          /\ Len(files'[s].buf) <= files'[s].pos
          /\ \A i \in 1 .. Len(files'[s].buf) :
                files'[s].buf[i] =
                  Doc(s)'[files'[s].pos - Len(files'[s].buf) + i]
      BY <1>3, <1>4, <3>1
    <3> QED BY <2>1, <3>2 DEF Doc
  <2>2. CASE t # s
    <3>1. files'[t] = files[t] /\ Reading(t) /\ Doc(t)' = Doc(t)
      BY <1>3, <2>2 DEF Reading, Doc
    <3> QED BY <3>1 DEF Inv, ReadAhead
  <2> QED BY <2>1, <2>2
<1>8. Position(s)' = Position(s)
  <2>1. Position(s)' = pos - Len(buf) - Len(got)
    BY <1>3, <1>4 DEF Position
  <2> QED BY <2>1
<1>9. Collected'
  <2>1. /\ call'.s = s
        /\ Reading(s)'
        /\ Len(call'.got) <= call'.want
        /\ Len(call'.got) + Len(files'[s].buf) <= files'[s].pos
        /\ \A i \in 1 .. Len(call'.got) :
              call'.got[i] = Doc(s)'[Position(s)' + i]
    BY <1>2, <1>3, <1>4, <1>8
  <2>2. call'.s = s
    BY <2>1
  <2>3. Reading(call.s)' /\ Doc(call.s)' = Doc(s)'
    BY <2>1, <2>2 DEF Reading, Doc, Busy, Writing
  <2>4. Position(call.s)' = Position(s)'
    BY <2>2 DEF Position, Busy, Writing
  <2> QED BY <2>1, <2>2, <2>3, <2>4 DEF Collected
<1>10. Wanted'
  BY <1>3 DEF Inv, Wanted
<1>11. Position(call.s)' = Position(s)'
  BY <1>3 DEF Position, Busy, Writing
<1>12. Silent
  BY <1>3, <1>8, <1>11 DEF Silent, Iterates
<1> QED BY <1>5, <1>6, <1>7, <1>9, <1>10, <1>12 DEF Inv

\* What the state of a call under way says of its stream.
LEMMA BusyFacts ==
    ASSUME Inv, Busy
    PROVE  /\ TypeOK /\ Collected
           /\ call.s \in Slot /\ Reading(call.s)
           /\ files[call.s].in_use
           /\ files[call.s].pos \in Nat
           /\ files[call.s].buf \in Text
           /\ Len(files[call.s].buf) \in Nat
           /\ files[call.s].pos <= Len(Doc(call.s))
           /\ Len(Doc(call.s)) \in Nat
           /\ \A i \in 1 .. Len(files[call.s].buf) :
                 files[call.s].buf[i] =
                   Doc(call.s)[files[call.s].pos - Len(files[call.s].buf) + i]
           /\ call.got \in Text
           /\ Len(call.got) \in Nat
           /\ call.want \in Nat
           /\ Len(call.got) <= call.want
           /\ \A i \in 1 .. Len(call.got) :
                 call.got[i] = Doc(call.s)[Position(call.s) + i]
           /\ Position(call.s) =
                 files[call.s].pos - Len(files[call.s].buf) - Len(call.got)
           /\ Position(call.s) \in Nat
<1>1. /\ TypeOK /\ Collected
      /\ call.s \in Slot /\ Reading(call.s) /\ files[call.s].in_use
      /\ call.got \in Text /\ Len(call.got) \in Nat /\ call.want \in Nat
      /\ Len(call.got) <= call.want
      /\ \A i \in 1 .. Len(call.got) :
            call.got[i] = Doc(call.s)[Position(call.s) + i]
  BY CallType DEF Inv, Collected, Reading
<1>8. Len(call.got) + Len(files[call.s].buf) <= files[call.s].pos
  BY DEF Inv, Collected
<1>2. /\ files[call.s].pos \in Nat
      /\ files[call.s].buf \in Text
      /\ Len(Doc(call.s)) \in Nat
  BY <1>1, FileType
<1>6. Len(files[call.s].buf) \in Nat
  BY <1>2, Length
<1>3. /\ files[call.s].pos <= Len(Doc(call.s))
      /\ \A i \in 1 .. Len(files[call.s].buf) :
            files[call.s].buf[i] =
              Doc(call.s)[files[call.s].pos - Len(files[call.s].buf) + i]
  BY <1>1 DEF Inv, ReadAhead
<1>4. ~Writing(call.s)
  BY <1>1 DEF Reading, Writing
<1>5. Position(call.s) =
          files[call.s].pos - Len(files[call.s].buf) - Len(call.got)
  BY <1>4 DEF Position
<1>7. Position(call.s) \in Nat
  <2> DEFINE p == files[call.s].pos
             b == Len(files[call.s].buf)
             g == Len(call.got)
  <2>1. /\ p \in Nat /\ b \in Nat /\ g \in Nat /\ g + b <= p
        /\ Position(call.s) = p - b - g
    BY <1>1, <1>2, <1>5, <1>6, <1>8
  <2> HIDE DEF p, b, g
  <2> QED BY <2>1
<1> QED BY <1>1, <1>2, <1>3, <1>5, <1>6, <1>7

\* A loop that goes on has found no newline so far.
LEMMA NoNewline ==
    ASSUME Inv, Busy, ~Enough
    PROVE  /\ Len(call.got) < call.want
           /\ call.op = "fgets" =>
                 \A i \in 1 .. Len(call.got) : call.got[i] # Newline
<1>1. Len(call.got) \in Nat /\ call.want \in Nat
  BY BusyFacts
<1>2. Len(call.got) < call.want
  BY <1>1 DEF Enough
<1>3. ASSUME call.op = "fgets", NEW i \in 1 .. Len(call.got)
      PROVE  call.got[i] # Newline
  <2>1. CASE i = Len(call.got)
    BY <1>1, <1>3, <2>1 DEF Enough
  <2>2. CASE i # Len(call.got)
    <3>1. i \in 1 .. Len(call.got) - 1
      BY <1>1, <2>2
    <3> QED BY <1>3, <3>1 DEF Inv, Wanted
  <2> QED BY <2>1, <2>2
<1> QED BY <1>2, <1>3

LEMMA TakeStep == ASSUME Inv, Take PROVE Inv' /\ Silent
<1> DEFINE s == call.s
           buf == Tail(Buffered)
           got == call.got \o <<Head(Buffered)>>
           pos == files[s].pos
<1>1. Busy /\ ~Enough
  BY DEF Take
<1>2. TypeOK /\ Collected /\ TypeOK'
  BY TakeType DEF Inv
<1>3. /\ s \in Slot /\ files[s].in_use /\ pos \in Nat
      /\ files[s].buf = Buffered
      /\ Len(Buffered) \in Nat /\ Len(call.got) \in Nat
      /\ Position(s) = pos - Len(Buffered) - Len(call.got)
      /\ Position(s) \in Nat /\ pos <= Len(Doc(s))
      /\ call.want \in Nat
  BY <1>1, BusyFacts DEF Buffered
<1>4. /\ buf \in Text /\ Len(buf) = Len(Buffered) - 1
      /\ got \in Text /\ Len(got) = Len(call.got) + 1
      /\ call' \in Call
  BY <1>2, TakeChanges
<1>5. /\ call'.s = s /\ call'.op = call.op /\ call'.want = call.want
      /\ call'.got = got
  BY <1>1, <1>2, CallType DEF Take, Call
<1>6. files' = [files EXCEPT ![s].buf = buf]
  BY DEF Take, Buffered
<1>7. /\ \A t \in Slot : t # s => files'[t] = files[t]
      /\ files'[s].in_use
      /\ files'[s].path = files[s].path
      /\ files'[s].mode = files[s].mode
      /\ files'[s].buf = buf
      /\ files'[s].pos = pos
  <2>1. /\ TypeOK /\ s \in Slot /\ files[s].in_use /\ buf \in Text
        /\ pos \in Nat /\ Updates(s, buf, pos)
    BY <1>2, <1>3, <1>4, <1>6 DEF Updates
  <2> HIDE DEF s, buf, pos
  <2> QED BY <2>1, Updated
<1>8. Iterates(buf, pos, got) /\ Busy'
  BY <1>4, <1>5, <1>7 DEF Iterates, Take, Busy, Call, Idle
<1>9. ASSUME NEW i \in 1 .. Len(buf)
      PROVE  buf[i] = Doc(s)[pos - Len(buf) + i]
  <2>1. buf[i] = Buffered[i + 1]
    BY <1>2, TakeChanges
  <2>2. i + 1 \in 1 .. Len(Buffered)
    BY <1>3, <1>4
  <2>3. Buffered[i + 1] = Doc(s)[pos - Len(Buffered) + (i + 1)]
    BY <1>1, <2>2, BusyFacts DEF Buffered
  <2>4. pos - Len(Buffered) + (i + 1) = pos - Len(buf) + i
    <3> DEFINE b == Len(Buffered)
               k == Len(buf)
    <3>1. b \in Nat /\ k = b - 1 /\ pos \in Nat
      BY <1>3, <1>4
    <3> HIDE DEF b, k, pos
    <3>2. pos - b + (i + 1) = pos - (b - 1) + i
      BY <3>1
    <3> QED BY <3>1, <3>2 DEF b, k
  <2> QED BY <2>1, <2>3, <2>4
<1>10. ASSUME NEW i \in 1 .. Len(got)
       PROVE  got[i] = Doc(s)[Position(s) + i]
  <2>1. got[i] = IF i <= Len(call.got) THEN call.got[i] ELSE Buffered[1]
    BY <1>2, <1>4, TakeChanges
  <2>2. CASE i <= Len(call.got)
    <3>1. i \in 1 .. Len(call.got)
      BY <1>3, <1>4, <2>2
    <3>2. call.got[i] = Doc(s)[Position(s) + i]
      BY <1>1, <3>1, BusyFacts, Zenon
    <3> QED BY <2>1, <2>2, <3>2
  <2>3. CASE ~(i <= Len(call.got))
    <3>1. i = Len(call.got) + 1 /\ 1 \in 1 .. Len(Buffered)
      BY <1>2, <1>3, <1>4, <2>3, TakeChanges
    <3>2. Buffered[1] = Doc(s)[pos - Len(Buffered) + 1]
      BY <1>1, <3>1, BusyFacts DEF Buffered
    <3>3. pos - Len(Buffered) + 1 = Position(s) + i
      <4> DEFINE b == Len(Buffered)
                 g == Len(call.got)
      <4>1. /\ b \in Nat /\ g \in Nat /\ pos \in Nat
            /\ Position(s) = pos - b - g /\ i = g + 1
        BY <1>3, <3>1
      <4> HIDE DEF b, g, pos
      <4>2. pos - b + 1 = pos - b - g + (g + 1)
        BY <4>1
      <4> QED BY <4>1, <4>2 DEF b
    <3> QED BY <2>1, <2>3, <3>2, <3>3
  <2> QED BY <2>2, <2>3
<1>11. /\ Len(call.got) < call.want
       /\ call.op = "fgets" => \A i \in 1 .. Len(got) - 1 : got[i] # Newline
  <2>1. /\ Len(call.got) < call.want
        /\ call.op = "fgets" =>
              \A i \in 1 .. Len(call.got) : call.got[i] # Newline
    BY <1>1, NoNewline
  <2>2. \A i \in 1 .. Len(got) - 1 :
            i \in 1 .. Len(call.got) /\ got[i] = call.got[i]
    BY <1>2, <1>3, <1>4, TakeChanges
  <2> QED BY <2>1, <2>2
<1>12. /\ Len(buf) + Len(got) <= pos
       /\ pos - Len(buf) - Len(got) = Position(s)
       /\ Len(got) <= call.want
  <2> DEFINE b == Len(Buffered)
             g == Len(call.got)
             w == call.want
             p == Position(s)
  <2>1. /\ b \in Nat /\ g \in Nat /\ w \in Nat /\ p \in Nat /\ pos \in Nat
        /\ p = pos - b - g /\ g < w
        /\ Len(buf) = b - 1 /\ Len(got) = g + 1
    BY <1>3, <1>4, <1>11
  <2> HIDE DEF b, g, w, p, pos, buf, got
  <2>2. /\ (b - 1) + (g + 1) <= pos
        /\ pos - (b - 1) - (g + 1) = p
        /\ g + 1 <= w
    BY <2>1
  <2> QED BY <2>1, <2>2 DEF p, w
<1> HIDE DEF buf, got, pos
<1> QED
  BY <1>1, <1>2, <1>3, <1>4, <1>8, <1>9, <1>10, <1>11, <1>12, IterationStep

LEMMA RefillStep == ASSUME Inv, Refill PROVE Inv' /\ Silent
<1> DEFINE s == call.s
           got == call.got
<1>1. Busy /\ ~Enough /\ Buffered = <<>>
  BY DEF Refill
<1>2. TypeOK /\ Collected /\ TypeOK'
  BY RefillType DEF Inv
<1>3. PICK data \in Deliveries(BufSize) :
          files' = [files EXCEPT ![s].buf = data, ![s].pos = @ + Len(data)]
  BY DEF Refill
<1> DEFINE pos == files[s].pos + Len(data)
<1>4. /\ s \in Slot /\ files[s].in_use /\ files[s].pos \in Nat
      /\ got \in Text /\ Len(got) \in Nat
      /\ Position(s) = files[s].pos - Len(Buffered) - Len(got)
      /\ Position(s) \in Nat
      /\ call.want \in Nat /\ Len(got) <= call.want
      /\ \A i \in 1 .. Len(got) : got[i] = Doc(s)[Position(s) + i]
  BY <1>1, BusyFacts DEF Buffered
<1>5. /\ data \in Text /\ Len(data) \in Nat
      /\ pos <= Len(Doc(s))
      /\ \A i \in 1 .. Len(data) : data[i] = Doc(s)[files[s].pos + i]
  BY <1>1, <1>2, Delivered, Length, MiniFileAssumption
<1>6. files' = [files EXCEPT ![s].buf = data, ![s].pos = pos]
  BY <1>2, <1>3, <1>4 DEF TypeOK
<1>7. /\ \A t \in Slot : t # s => files'[t] = files[t]
      /\ files'[s].in_use
      /\ files'[s].path = files[s].path
      /\ files'[s].mode = files[s].mode
      /\ files'[s].buf = data
      /\ files'[s].pos = pos
  <2>1. /\ TypeOK /\ s \in Slot /\ files[s].in_use /\ data \in Text
        /\ pos \in Nat /\ Updates(s, data, pos)
    <3>1. TypeOK /\ s \in Slot /\ files[s].in_use /\ data \in Text
      BY <1>2, <1>4, <1>5, Zenon
    <3>2. files[s].pos \in Nat /\ Len(data) \in Nat
      BY <1>4, <1>5, Zenon
    <3>3. pos \in Nat
      BY <3>2
    <3> QED BY <1>6, <3>1, <3>3 DEF Updates
  <2> HIDE DEF s, pos
  <2> QED BY <2>1, Updated
<1>8. Iterates(data, pos, got) /\ Busy'
  BY <1>1, <1>7 DEF Iterates, Refill, Busy
<1>9. Len(Buffered) = 0
  BY <1>1, EmptyText
<1>10. /\ pos \in Nat
       /\ Len(data) + Len(got) <= pos
       /\ pos - Len(data) - Len(got) = Position(s)
       /\ pos - Len(data) = files[s].pos
  <2> DEFINE d == Len(data)
             g == Len(got)
             p == Position(s)
             q == files[s].pos
  <2>1. /\ d \in Nat /\ g \in Nat /\ p \in Nat /\ q \in Nat
        /\ p = q - 0 - g /\ pos = q + d
    BY <1>4, <1>5, <1>9
  <2> HIDE DEF d, g, p, q, pos, got
  <2>2. /\ pos \in Nat
        /\ d + g <= pos
        /\ pos - d - g = p
        /\ pos - d = q
    BY <2>1
  <2> QED BY <2>2 DEF d, g, p, q
<1>11. \A i \in 1 .. Len(data) : data[i] = Doc(s)[pos - Len(data) + i]
  BY <1>5, <1>10
<1>12. call.op = "fgets" => \A i \in 1 .. Len(got) - 1 : got[i] # Newline
  BY <1>1 DEF Inv, Wanted
<1> HIDE DEF got, pos
<1> QED
  BY <1>1, <1>2, <1>4, <1>5, <1>8, <1>10, <1>11, <1>12, IterationStep

LEMMA ReadDirectlyStep == ASSUME Inv, ReadDirectly PROVE Inv' /\ Silent
<1> DEFINE s == call.s
<1>1. Busy /\ ~Enough /\ Buffered = <<>> /\ call.op = "fread"
  BY DEF ReadDirectly
<1>2. TypeOK /\ Collected /\ TypeOK'
  BY ReadDirectlyType DEF Inv
<1>3. PICK data \in Deliveries(call.want - Len(call.got)) :
          /\ call' = [call EXCEPT !.got = @ \o data]
          /\ files' = [files EXCEPT ![s].pos = @ + Len(data)]
  BY DEF ReadDirectly
<1> DEFINE pos == files[s].pos + Len(data)
           got == call.got \o data
<1>4. /\ s \in Slot /\ files[s].in_use /\ files[s].pos \in Nat
      /\ files[s].buf = <<>>
      /\ call.got \in Text /\ Len(call.got) \in Nat
      /\ Position(s) = files[s].pos - Len(Buffered) - Len(call.got)
      /\ Position(s) \in Nat
      /\ call.want \in Nat /\ Len(call.got) <= call.want
      /\ \A i \in 1 .. Len(call.got) :
            call.got[i] = Doc(s)[Position(s) + i]
  BY <1>1, BusyFacts DEF Buffered
<1>5. /\ data \in Text /\ Len(data) \in Nat
      /\ Len(data) <= call.want - Len(call.got)
      /\ pos <= Len(Doc(s))
      /\ \A i \in 1 .. Len(data) : data[i] = Doc(s)[files[s].pos + i]
  BY <1>1, <1>2, <1>4, Delivered, Length
<1>6. /\ got \in Text /\ Len(got) = Len(call.got) + Len(data)
      /\ \A i \in 1 .. Len(call.got) + Len(data) :
            got[i] = IF i <= Len(call.got) THEN call.got[i]
                                           ELSE data[i - Len(call.got)]
  BY <1>4, <1>5, Concat
<1>7. pos \in Nat /\ files' = [files EXCEPT ![s].pos = pos]
  <2>1. pos \in Nat
    <3>1. files[s].pos \in Nat /\ Len(data) \in Nat
      BY <1>4, <1>5, Zenon
    <3> QED BY <3>1
  <2>2. files \in [Slot -> File \cup {Free}]
    BY <1>2 DEF TypeOK
  <2> QED BY <1>3, <1>4, <2>1, <2>2
<1>8. /\ \A t \in Slot : t # s => files'[t] = files[t]
      /\ files'[s].in_use
      /\ files'[s].path = files[s].path
      /\ files'[s].mode = files[s].mode
      /\ files'[s].buf = <<>>
      /\ files'[s].pos = pos
  <2>1. /\ TypeOK /\ s \in Slot /\ files[s].in_use /\ <<>> \in Text
        /\ pos \in Nat /\ Updates(s, <<>>, pos)
    BY <1>2, <1>4, <1>7, EmptyText DEF Updates
  <2> HIDE DEF s, pos
  <2> QED BY <2>1, Updated
<1>9. /\ call'.s = s /\ call'.op = call.op /\ call'.want = call.want
      /\ call'.got = got
  BY <1>1, <1>2, <1>3, CallType DEF Call
<1>10. Iterates(<<>>, pos, got) /\ Busy'
  BY <1>1, <1>8, <1>9 DEF Iterates, ReadDirectly, Busy, Idle
<1>11. Len(Buffered) = 0
  BY <1>1, EmptyText
<1>12. /\ Len(<<>>) + Len(got) <= pos
       /\ pos - Len(<<>>) - Len(got) = Position(s)
       /\ Len(got) <= call.want
  <2> DEFINE d == Len(data)
             g == Len(call.got)
             w == call.want
             p == Position(s)
             q == files[s].pos
  <2>1. /\ d \in Nat /\ g \in Nat /\ w \in Nat /\ p \in Nat /\ q \in Nat
        /\ p = q - 0 - g /\ d <= w - g
        /\ pos = q + d /\ Len(got) = g + d
    BY <1>4, <1>5, <1>6, <1>11
  <2> HIDE DEF d, g, w, p, q, pos, got
  <2>2. /\ g + d <= q + d
        /\ q + d - 0 - (g + d) = p
        /\ g + d <= w
    BY <2>1
  <2> QED BY <2>1, <2>2, EmptyText DEF p, w
<1>13. ASSUME NEW i \in 1 .. Len(got)
       PROVE  got[i] = Doc(s)[Position(s) + i]
  <2>1. CASE i <= Len(call.got)
    BY <1>4, <1>6, <2>1
  <2>2. CASE ~(i <= Len(call.got))
    <3>1. i - Len(call.got) \in 1 .. Len(data)
      BY <1>4, <1>5, <1>6, <2>2
    <3>2. got[i] = data[i - Len(call.got)]
      BY <1>6, <2>2
    <3>3. data[i - Len(call.got)] =
              Doc(s)[files[s].pos + (i - Len(call.got))]
      BY <1>5, <3>1
    <3>4. files[s].pos + (i - Len(call.got)) = Position(s) + i
      BY <1>4, <1>6, <1>11
    <3> QED BY <3>2, <3>3, <3>4
  <2> QED BY <2>1, <2>2
<1>14. /\ \A i \in 1 .. Len(<<>>) :
              <<>>[i] = Doc(s)[pos - Len(<<>>) + i]
       /\ call.op # "fgets"
  BY <1>1, EmptyText
<1> HIDE DEF got, pos
<1> QED
  BY <1>1, <1>2, <1>4, <1>5, <1>6, <1>7, <1>10, <1>12, <1>13, <1>14,
     EmptyText, IterationStep

LEMMA ReturnStep ==
    ASSUME Inv, Return
    PROVE  Inv' /\ Busy /\ ~Busy' /\ disk' = disk /\ files' = files
<1>1. Busy /\ call' = Idle /\ ~Busy' /\ disk' = disk /\ files' = files
  BY DEF Return, Busy
<1>2. TypeOK'
  BY ReturnType DEF Inv
<1>3. Exclusive' /\ Unbuffered' /\ ReadAhead'
  BY <1>1 DEF Inv, Exclusive, Unbuffered, ReadAhead, Reading, Writing, Doc
<1>4. Collected' /\ Wanted'
  BY <1>1 DEF Collected, Wanted
<1> QED BY <1>1, <1>2, <1>3, <1>4 DEF Inv

LEMMA KilledStep == ASSUME Inv, Killed PROVE Inv'
<1>1. TypeOK'
  BY KilledType DEF Inv
<1>2. \A s \in Slot : ~files'[s].in_use
  BY DEF Killed, Free
<1>3. ~Busy'
  BY DEF Killed, Busy
<1> QED
  BY <1>1, <1>2, <1>3
     DEF Inv, Exclusive, Unbuffered, ReadAhead, Collected, Wanted, Reading,
         Writing

LEMMA StutterStep == ASSUME Inv, UNCHANGED vars PROVE Inv'
<1>1. disk' = disk /\ files' = files /\ call' = call /\ reply' = reply
  BY DEF vars
<1>2. TypeOK'
  BY <1>1 DEF Inv, TypeOK
<1>3. Exclusive' /\ Unbuffered' /\ ReadAhead' /\ Wanted'
  BY <1>1
     DEF Inv, Exclusive, Unbuffered, ReadAhead, Wanted, Reading, Writing, Doc,
         Busy
<1>4. Collected'
  BY <1>1 DEF Inv, Collected, Reading, Doc, Busy, Position, Writing
<1> QED BY <1>2, <1>3, <1>4 DEF Inv

\* How the calls that read begin.
LEMMA FgetsBegins ==
    ASSUME NEW s \in Slot, NEW size \in Size, fgets(s, size)
    PROVE  size - 1 \in Nat /\ Begin("fgets", s, size - 1)
<1>1. size \in Nat \ {0}
  BY MiniFileAssumption
<1>2. size - 1 \in Nat
  BY <1>1
<1> QED BY <1>2 DEF fgets

LEMMA FreadBegins ==
    ASSUME NEW s \in Slot, NEW want \in Want, fread(s, want)
    PROVE  want \in Nat /\ Begin("fread", s, want)
  BY MiniFileAssumption DEF fread

LEMMA InvStep == ASSUME Inv, [Next]_vars PROVE Inv'
<1>1. CASE UNCHANGED vars
  BY <1>1, StutterStep
<1>2. ASSUME NEW path \in Path, fopen(path, "r", "read") PROVE Inv'
  BY <1>2, FopenStep DEF Style
<1>3. ASSUME NEW path \in Path, NEW style \in {"buffered", "printed"},
             fopen(path, "w", style)
      PROVE  Inv'
  <2>1. style \in Style
    BY DEF Style
  <2> QED BY <1>3, <2>1, FopenStep
<1>4. ASSUME NEW path \in Path, NEW mode \in {"r", "w"},
             fopen_fails(path, mode)
      PROVE  Inv'
  BY <1>4, FopenFailsStep
<1>5. ASSUME NEW s \in Slot, fclose(s) PROVE Inv'
  BY <1>5, FcloseStep
<1>6. ASSUME NEW s \in Slot, NEW data \in Data, fwrite(s, data) PROVE Inv'
  BY <1>6, FwriteStep
<1>7. ASSUME NEW s \in Slot, NEW data \in Printed, fprintf(s, data) PROVE Inv'
  BY <1>7, FprintfStep
<1>8. ASSUME NEW s \in Slot, NEW size \in Size, fgets(s, size) PROVE Inv'
  <2>1. size - 1 \in Nat /\ Begin("fgets", s, size - 1)
    BY <1>8, FgetsBegins
  <2>2. \E z \in Size : size - 1 = z - 1
    OBVIOUS
  <2> QED BY <2>1, <2>2, BeginStep
<1>9. ASSUME NEW s \in Slot, NEW want \in Want, fread(s, want) PROVE Inv'
  <2>1. want \in Nat /\ Begin("fread", s, want)
    BY <1>9, FreadBegins
  <2> QED BY <2>1, BeginStep
<1>10. CASE Iterate
  BY <1>10, TakeStep, RefillStep, ReadDirectlyStep, ReturnStep DEF Iterate
<1>11. CASE Killed
  BY <1>11, KilledStep
<1> QED
  BY <1>1, <1>2, <1>3, <1>4, <1>5, <1>6, <1>7, <1>8, <1>9, <1>10, <1>11
     DEF Next

LEMMA Invariance == Spec => []Inv
<1>1. Init => Inv
  BY InvInit
<1>2. Inv /\ [Next]_vars => Inv'
  BY InvStep
<1> QED BY <1>1, <1>2, PTL DEF Spec

\* No buffer ever holds more than its BufSize bytes, and every variable keeps
\* its type: the memcpy of fwrite and the read() of fgets stay inside buf
\* (minilib.c).
THEOREM TypeCorrect == Spec => []TypeOK
<1>1. Inv => TypeOK
  BY DEF Inv
<1> QED BY <1>1, Invariance, PTL

(***************************************************************************)
(* The library implements PlainFile.                                       *)
(***************************************************************************)

contents == [p \in Path |-> Content(p)]
streams == [s \in Slot |-> Stream(s)]

\* Is there a stream that writes the file?
Written(path) == \E s \in Slot : Writing(s) /\ Holds(s, path)

LEMMA WrittenContent ==
    ASSUME Exclusive, NEW path \in Path, NEW s \in Slot, Writing(s),
           Holds(s, path)
    PROVE  Content(path) = disk[path] \o files[s].buf
<1>1. (CHOOSE t \in Slot : Holds(t, path)) = s
  BY DEF Exclusive, Holds
<1> QED BY <1>1 DEF Content

LEMMA UnwrittenContent ==
    ASSUME NEW path \in Path, ~Written(path)
    PROVE  Content(path) = disk[path]
  BY DEF Content, Written

\* The same of the next state.
LEMMA WrittenContentNext ==
    ASSUME Exclusive', NEW path \in Path, NEW s \in Slot, Writing(s)',
           Holds(s, path)'
    PROVE  Content(path)' = disk'[path] \o files'[s].buf
<1>1. /\ files'[s].in_use /\ files'[s].mode = "w" /\ files'[s].path = path
      /\ \E t \in Slot : Writing(t)' /\ Holds(t, path)'
  BY DEF Writing, Holds
<1>2. (CHOOSE t \in Slot : files'[t].in_use /\ files'[t].path = path) = s
  BY <1>1 DEF Exclusive
<1> QED BY <1>1, <1>2 DEF Content, Writing, Holds

LEMMA UnwrittenContentNext ==
    ASSUME NEW path \in Path, ~Written(path)'
    PROVE  Content(path)' = disk'[path]
  BY DEF Content, Written

\* A file that no step touches keeps its content.
LEMMA SameContent ==
    ASSUME TypeOK, Exclusive, Exclusive', NEW path \in Path,
           disk'[path] = disk[path],
           \A s \in Slot : Holds(s, path) \/ Holds(s, path)' =>
               /\ Holds(s, path) /\ Holds(s, path)'
               /\ files'[s].mode = files[s].mode
               /\ Writing(s) => files'[s].buf = files[s].buf
    PROVE  Content(path)' = Content(path)
<1>1. CASE Written(path)
  <2>1. PICK s \in Slot : Writing(s) /\ Holds(s, path)
    BY <1>1 DEF Written
  <2>2. Holds(s, path)' /\ Writing(s)' /\ files'[s].buf = files[s].buf
    BY <2>1 DEF Writing, Holds
  <2>3. Content(path) = disk[path] \o files[s].buf
    BY <2>1, WrittenContent
  <2>4. Content(path)' = disk'[path] \o files'[s].buf
    BY <2>2, WrittenContentNext
  <2> QED BY <2>2, <2>3, <2>4
<1>2. CASE ~Written(path)
  <2>1. ~Written(path)'
    BY <1>2 DEF Written, Writing, Holds
  <2> QED BY <1>2, <2>1, UnwrittenContent, UnwrittenContentNext
<1> QED BY <1>1, <1>2

\* A stream that no step touches stays where it is.
LEMMA SameStream ==
    ASSUME NEW s \in Slot, files'[s] = files[s],
           ~(Busy /\ call.s = s), ~(Busy' /\ call'.s = s)
    PROVE  Stream(s)' = Stream(s)
  BY DEF Stream, Position, Writing

\* What the callers see of a stream.
LEMMA Seen ==
    ASSUME NEW s \in Slot
    PROVE  /\ streams[s] = Stream(s)
           /\ streams[s].in_use <=> files[s].in_use
           /\ files[s].in_use =>
                 /\ streams[s].path = files[s].path
                 /\ streams[s].mode = files[s].mode
                 /\ streams[s].pos = Position(s)
  BY DEF streams, Stream, Free

LEMMA SeenAlike ==
    ASSUME NEW s \in Slot
    PROVE  /\ Plain!Writes(s) <=> Writing(s)
           /\ Plain!Reads(s) <=> Reading(s)
           /\ \A path \in Path : Plain!Holds(s, path) <=> Holds(s, path)
  BY Seen
     DEF Plain!Writes, Plain!Reads, Plain!Holds, Writing, Reading, Holds,
         streams

\* One file changes, or one stream, or none.
LEMMA NewContents ==
    ASSUME NEW path \in Path, NEW text, Content(path)' = text,
           \A p \in Path : p # path => Content(p)' = Content(p)
    PROVE  contents' = [contents EXCEPT ![path] = text]
  BY DEF contents

LEMMA SameContents ==
    ASSUME \A p \in Path : Content(p)' = Content(p)
    PROVE  contents' = contents
  BY DEF contents

LEMMA NewStreams ==
    ASSUME NEW s \in Slot, NEW v, Stream(s)' = v,
           \A t \in Slot : t # s => Stream(t)' = Stream(t)
    PROVE  streams' = [streams EXCEPT ![s] = v]
  BY DEF streams

LEMMA SameStreams ==
    ASSUME \A s \in Slot : Stream(s)' = Stream(s)
    PROVE  streams' = streams
  BY DEF streams

LEMMA OpenImplemented ==
    ASSUME Inv, NEW path \in Path, NEW mode \in {"r", "w"},
           NEW style \in Style, fopen(path, mode, style)
    PROVE  \E s \in Slot : Plain!Open(s, path, mode)
<1>1. /\ Inv'
      /\ \A t \in Slot : ~Holds(t, path)
      /\ ~Busy /\ ~Busy'
  BY FopenStep DEF Busy
<1>2. PICK s \in Slot :
          /\ ~files[s].in_use
          /\ \A t \in Slot : t # s => files'[t] = files[t]
          /\ files'[s].in_use /\ files'[s].path = path
          /\ files'[s].mode = mode /\ files'[s].pos = 0
          /\ files'[s].buf = <<>>
  BY FopenStep
<1>3. /\ reply' = Answer(<<>>)
      /\ disk' = IF mode = "w" THEN [disk EXCEPT ![path] = <<>>] ELSE disk
  BY DEF fopen, Opened
<1>4. TypeOK /\ Exclusive /\ Exclusive' /\ disk \in [Path -> Text]
  BY <1>1 DEF Inv, TypeOK
<1>5. \A t \in Slot : t # s => Stream(t)' = Stream(t)
  BY <1>1, <1>2, SameStream
<1>6. Stream(s)' = [in_use |-> TRUE, path |-> path, mode |-> mode, pos |-> 0]
  <2>1. Position(s)' = 0
    BY <1>1, <1>2, EmptyText DEF Position, Writing
  <2> QED BY <1>2, <2>1 DEF Stream
<1>7. ASSUME NEW p \in Path, p # path PROVE Content(p)' = Content(p)
  <2>1. disk'[p] = disk[p]
    BY <1>3, <1>4, <1>7
  <2>2. ASSUME NEW t \in Slot, Holds(t, p) \/ Holds(t, p)'
        PROVE  files'[t] = files[t] /\ Holds(t, p) /\ Holds(t, p)'
    <3>1. t # s
      BY <1>2, <1>7, <2>2 DEF Holds
    <3> QED BY <1>2, <2>2, <3>1 DEF Holds
  <2> QED BY <1>4, <2>1, <2>2, SameContent
<1>8. Content(path)' = IF mode = "w" THEN <<>> ELSE Content(path)
  <2>1. CASE mode = "w"
    <3>1. Writing(s)' /\ Holds(s, path)'
      BY <1>2, <2>1 DEF Writing, Holds
    <3>2. Content(path)' = disk'[path] \o files'[s].buf
      BY <1>4, <3>1, WrittenContentNext
    <3>3. <<>> \o <<>> = <<>>
      BY EmptyText, ConcatEmptySeq DEF Text
    <3> QED BY <1>2, <1>3, <1>4, <2>1, <3>2, <3>3
  <2>2. CASE mode # "w"
    <3>1. ~Written(path)
      BY <1>1 DEF Written
    <3>2. ~Written(path)'
      BY <1>1, <1>2, <2>2 DEF Written, Writing, Holds
    <3> QED BY <1>3, <2>2, <3>1, <3>2, UnwrittenContent, UnwrittenContentNext
  <2> QED BY <2>1, <2>2
<1>9. streams' = [streams EXCEPT ![s] =
                    [in_use |-> TRUE, path |-> path, mode |-> mode, pos |-> 0]]
  BY <1>5, <1>6, NewStreams
<1>10. contents' = IF mode = "w" THEN [contents EXCEPT ![path] = <<>>]
                                 ELSE contents
  <2>1. CASE mode = "w"
    BY <1>7, <1>8, <2>1, NewContents
  <2>2. CASE mode # "w"
    BY <1>7, <1>8, <2>2, SameContents
  <2> QED BY <2>1, <2>2
<1>11. Plain!Unused(path)
  BY <1>1, SeenAlike DEF Plain!Unused
<1>12. ~streams[s].in_use
  BY <1>2, Seen
<1> QED
  BY <1>3, <1>9, <1>10, <1>11, <1>12
     DEF Plain!Open, Plain!Truncated, Plain!Answer, Answer, streams, contents

LEMMA OpenFailsImplemented ==
    ASSUME Inv, NEW path \in Path, NEW mode \in {"r", "w"},
           fopen_fails(path, mode)
    PROVE  Plain!OpenFails(path, mode)
<1>1. /\ Inv'
      /\ \A t \in Slot : ~Holds(t, path)
      /\ call' = call /\ files' = files
      /\ \/ disk' = disk
         \/ mode = "w" /\ disk' = [disk EXCEPT ![path] = <<>>]
  BY FopenFailsStep
<1>2. reply' = Null /\ ~Busy /\ ~Busy'
  BY DEF fopen_fails, MayOpen, Busy
<1>3. TypeOK /\ Exclusive /\ Exclusive' /\ disk \in [Path -> Text]
  BY <1>1 DEF Inv, TypeOK
<1>4. streams' = streams
  BY <1>1, <1>2, SameStream, SameStreams
<1>5. ASSUME NEW p \in Path, disk'[p] = disk[p]
      PROVE  Content(p)' = Content(p)
  <2>1. \A t \in Slot : Holds(t, p)' <=> Holds(t, p)
    BY <1>1 DEF Holds
  <2> QED BY <1>1, <1>3, <1>5, <2>1, SameContent
<1>6. \/ contents' = contents
      \/ mode = "w" /\ contents' = [contents EXCEPT ![path] = <<>>]
  <2>1. CASE disk' = disk
    BY <1>5, <2>1, SameContents
  <2>2. CASE mode = "w" /\ disk' = [disk EXCEPT ![path] = <<>>]
    <3>1. ~Written(path)'
      BY <1>1 DEF Written, Holds
    <3>2. Content(path)' = <<>>
      BY <1>3, <2>2, <3>1, UnwrittenContentNext
    <3>3. \A p \in Path : p # path => Content(p)' = Content(p)
      BY <1>3, <1>5, <2>2
    <3> QED BY <2>2, <3>2, <3>3, NewContents
  <2> QED BY <1>1, <2>1, <2>2
<1>7. Plain!Unused(path)
  BY <1>1, SeenAlike DEF Plain!Unused
<1> QED
  BY <1>2, <1>4, <1>6, <1>7
     DEF Plain!OpenFails, Plain!Truncated, Plain!Null, Null, streams, contents

LEMMA CloseImplemented ==
    ASSUME Inv, NEW s \in Slot, fclose(s)
    PROVE  Plain!Close(s)
<1>1. /\ Inv' /\ ~Busy /\ ~Busy'
      /\ files[s].in_use
      /\ \A t \in Slot : t # s => files'[t] = files[t]
      /\ ~files'[s].in_use /\ files'[s] = Free
      /\ disk' = IF files[s].mode = "w"
                 THEN AppendTo(files[s].path, files[s].buf) ELSE disk
  BY FcloseStep DEF Busy
<1>2. /\ TypeOK /\ Exclusive /\ Exclusive' /\ disk \in [Path -> Text]
      /\ files[s].path \in Path /\ files[s].buf \in Text
  BY <1>1, FileType DEF Inv, TypeOK
<1>3. streams' = [streams EXCEPT ![s] = Free]
  <2>1. Stream(s)' = Free
    BY <1>1 DEF Stream
  <2>2. \A t \in Slot : t # s => Stream(t)' = Stream(t)
    BY <1>1, SameStream
  <2> QED BY <2>1, <2>2, NewStreams
<1>4. ASSUME NEW p \in Path, p # files[s].path
      PROVE  Content(p)' = Content(p)
  <2>1. disk'[p] = disk[p]
    BY <1>1, <1>2, <1>4 DEF AppendTo
  <2>2. ASSUME NEW t \in Slot, Holds(t, p) \/ Holds(t, p)'
        PROVE  files'[t] = files[t] /\ Holds(t, p) /\ Holds(t, p)'
    <3>1. t # s
      BY <1>1, <1>4, <2>2 DEF Holds
    <3> QED BY <1>1, <2>2, <3>1 DEF Holds
  <2> QED BY <1>2, <2>1, <2>2, SameContent
<1>5. ASSUME NEW path \in Path, path = files[s].path
      PROVE  Content(path)' = Content(path)
  <2>1. ASSUME NEW t \in Slot, t # s
        PROVE  ~Holds(t, path) /\ ~Holds(t, path)'
    BY <1>1, <1>2, <1>5, <2>1 DEF Exclusive, Holds
  <2>2. ~Written(path)'
    BY <1>1, <2>1 DEF Written, Holds
  <2>3. Content(path)' = disk'[path]
    BY <2>2, UnwrittenContentNext
  <2>4. CASE files[s].mode = "w"
    <3>1. Content(path) = disk[path] \o files[s].buf
      BY <1>1, <1>2, <1>5, <2>4, WrittenContent DEF Writing, Holds
    <3> QED BY <1>1, <1>2, <1>5, <2>3, <2>4, <3>1 DEF AppendTo
  <2>5. CASE files[s].mode # "w"
    <3>1. ~Written(path)
      BY <2>1, <2>5 DEF Written, Writing
    <3> QED BY <1>1, <2>3, <2>5, <3>1, UnwrittenContent
  <2> QED BY <2>4, <2>5
<1>6. contents' = contents
  BY <1>4, <1>5, SameContents
<1>7. streams[s].in_use /\ reply' = Answer(<<>>)
  BY <1>1, Seen DEF fclose
<1> QED
  BY <1>3, <1>6, <1>7
     DEF Plain!Close, Plain!Closed, Plain!Answer, Answer, Free, streams,
         contents

\* A write appends its data: what goes to the disk and what stays in the buffer
\* together are the old buffer and the data.
LEMMA WriteImplemented ==
    ASSUME Inv, Inv', NEW s \in Slot, Writing(s), Writing(s)',
           ~Busy, ~Busy',
           files'[s].path = files[s].path,
           \A t \in Slot : t # s => files'[t] = files[t],
           NEW data \in Data \cup Printed, NEW out \in Text,
           disk' = AppendTo(files[s].path, out),
           out \o files'[s].buf = files[s].buf \o data,
           reply' = Answer(<<>>)
    PROVE  Plain!Write(s, data)
<1>1. /\ TypeOK /\ Exclusive /\ Exclusive' /\ disk \in [Path -> Text]
      /\ files[s].path \in Path /\ files[s].buf \in Text
      /\ data \in Text
  BY FileType, MiniFileAssumption DEF Inv, TypeOK, Writing
<1>2. files'[s].buf \in Text
  <2>1. TypeOK' /\ files'[s].in_use /\ files'[s] # Free
    BY DEF Inv, Writing, Free
  <2>2. files'[s] \in File
    BY <2>1 DEF TypeOK
  <2> QED BY <2>2 DEF File
<1>3. ASSUME NEW p \in Path, p # files[s].path
      PROVE  Content(p)' = Content(p)
  <2>1. disk'[p] = disk[p]
    BY <1>1, <1>3 DEF AppendTo
  <2>2. ASSUME NEW t \in Slot, Holds(t, p) \/ Holds(t, p)'
        PROVE  files'[t] = files[t] /\ Holds(t, p) /\ Holds(t, p)'
    <3>1. t # s
      BY <1>3, <2>2 DEF Holds
    <3> QED BY <2>2, <3>1 DEF Holds
  <2> QED BY <1>1, <2>1, <2>2, SameContent
<1>4. Content(files[s].path)' = Content(files[s].path) \o data
  <2> SUFFICES ASSUME NEW path \in Path, path = files[s].path
               PROVE  Content(path)' = Content(path) \o data
    BY <1>1
  <2>1. Content(path) = disk[path] \o files[s].buf
    BY <1>1, WrittenContent DEF Writing, Holds
  <2>2. Content(path)' = disk'[path] \o files'[s].buf
    BY <1>1, WrittenContentNext DEF Writing, Holds
  <2>3. disk'[path] = disk[path] \o out /\ disk[path] \in Text
    BY <1>1 DEF AppendTo
  <2>4. (disk[path] \o out) \o files'[s].buf =
            disk[path] \o (out \o files'[s].buf)
    BY <1>2, <2>3, Assoc
  <2>5. (disk[path] \o files[s].buf) \o data =
            disk[path] \o (files[s].buf \o data)
    BY <1>1, <2>3, Assoc
  <2> QED BY <2>1, <2>2, <2>3, <2>4, <2>5
<1>5. streams' = streams
  <2>1. ASSUME NEW t \in Slot PROVE Stream(t)' = Stream(t)
    <3>1. CASE t # s
      BY <3>1, SameStream
    <3>2. CASE t = s
      BY <3>2 DEF Stream, Position, Writing
    <3> QED BY <3>1, <3>2
  <2> QED BY <2>1, SameStreams
<1>6. contents' = [contents EXCEPT ![files[s].path] =
                     contents[files[s].path] \o data]
  <2>1. contents[files[s].path] = Content(files[s].path)
    BY <1>1 DEF contents
  <2> QED BY <1>1, <1>3, <1>4, <2>1 DEF contents
<1>7. Plain!Writes(s) /\ streams[s].path = files[s].path
  BY Seen, SeenAlike DEF Writing
<1> QED
  BY <1>5, <1>6, <1>7
     DEF Plain!Write, Plain!Answer, Answer, streams, contents

\* A call under way is not to be seen.
LEMMA SilentIsStutter ==
    ASSUME Inv, Inv', Silent
    PROVE  UNCHANGED <<contents, streams, reply>>
<1>1. call.s \in Slot /\ Reading(call.s)
  BY BusyFacts DEF Silent
<1> SUFFICES ASSUME NEW s \in Slot, s = call.s
             PROVE  UNCHANGED <<contents, streams, reply>>
  BY <1>1
<1>2. /\ Busy /\ Busy' /\ call'.s = s
      /\ disk' = disk /\ reply' = reply
      /\ \A t \in Slot : t # s => files'[t] = files[t]
      /\ files'[s].in_use
      /\ files'[s].path = files[s].path
      /\ files'[s].mode = files[s].mode
      /\ Position(s)' = Position(s)
  <2>1. Position(call.s)' = Position(s)'
    BY DEF Silent, Position, Writing, Busy
  <2> QED BY <2>1 DEF Silent
<1>3. Reading(s) /\ TypeOK /\ Exclusive /\ Exclusive'
  BY <1>1 DEF Inv
<1>4. ASSUME NEW t \in Slot PROVE Stream(t)' = Stream(t)
  <2>1. CASE t # s
    BY <1>2, <2>1, SameStream
  <2>2. CASE t = s
    <3>1. files[s].in_use
      BY <1>3 DEF Reading
    <3>2. Stream(s)' = [in_use |-> TRUE, path |-> files'[s].path,
                        mode |-> files'[s].mode, pos |-> Position(s)']
      BY <1>2 DEF Stream
    <3>3. Stream(s) = [in_use |-> TRUE, path |-> files[s].path,
                       mode |-> files[s].mode, pos |-> Position(s)]
      BY <3>1 DEF Stream
    <3> QED BY <1>2, <2>2, <3>2, <3>3
  <2> QED BY <2>1, <2>2
<1>5. ASSUME NEW p \in Path PROVE Content(p)' = Content(p)
  <2>1. ASSUME NEW t \in Slot, Holds(t, p) \/ Holds(t, p)'
        PROVE  /\ Holds(t, p) /\ Holds(t, p)'
               /\ files'[t].mode = files[t].mode
               /\ Writing(t) => files'[t].buf = files[t].buf
    <3>1. CASE t # s
      BY <1>2, <2>1, <3>1 DEF Holds
    <3>2. CASE t = s
      BY <1>2, <1>3, <2>1, <3>2 DEF Holds, Reading, Writing
    <3> QED BY <3>1, <3>2
  <2> QED BY <1>2, <1>3, <2>1, SameContent
<1> QED BY <1>2, <1>4, <1>5, SameContents, SameStreams

LEMMA BeginIsStutter ==
    ASSUME Inv, NEW s \in Slot, Inv', ~Busy, Busy', call'.s = s,
           Len(call'.got) = 0, disk' = disk, files' = files, reply' = reply
    PROVE  UNCHANGED <<contents, streams, reply>>
<1>1. TypeOK /\ Exclusive /\ Exclusive'
  BY DEF Inv
<1>2. ASSUME NEW t \in Slot PROVE Stream(t)' = Stream(t)
  <2>1. CASE t # s
    BY <2>1, SameStream
  <2>2. CASE t = s /\ files[s].in_use
    <3>1. files[s].pos \in Nat /\ Len(files[s].buf) \in Nat
      BY <1>1, <2>2, FileType
    <3>2. Position(s)' = Position(s)
      <4> DEFINE d == files[s].pos - Len(files[s].buf)
      <4>1. d \in Int /\ d - 0 = d
        BY <3>1
      <4>2. Position(s)' = IF Writing(s) THEN 0 ELSE d - 0
        BY DEF Position, Writing
      <4>3. Position(s) = IF Writing(s) THEN 0 ELSE d - 0
        BY DEF Position
      <4> QED BY <4>2, <4>3
    <3> QED BY <2>2, <3>2 DEF Stream
  <2>3. CASE t = s /\ ~files[s].in_use
    BY <2>3 DEF Stream
  <2> QED BY <2>1, <2>2, <2>3
<1>3. ASSUME NEW p \in Path PROVE Content(p)' = Content(p)
  <2>1. \A t \in Slot : Holds(t, p)' <=> Holds(t, p)
    BY DEF Holds
  <2> QED BY <1>1, <2>1, SameContent
<1> QED BY <1>2, <1>3, SameContents, SameStreams

\* Two texts of one length with the same characters.
LEMMA SameText ==
    ASSUME NEW a \in Text, NEW b \in Text, Len(a) = Len(b),
           \A i \in 1 .. Len(a) : a[i] = b[i]
    PROVE  a = b
  BY SeqEqual DEF Text

\* A call that returns has moved its stream by what it returns.
LEMMA ReturnMoves ==
    ASSUME Inv, Return, NEW s \in Slot, s = call.s
    PROVE  /\ contents' = contents
           /\ streams' = [streams EXCEPT ![s] =
                [streams[s] EXCEPT !.pos = streams[s].pos + Len(call.got)]]
<1>1. Inv' /\ Busy /\ ~Busy' /\ disk' = disk /\ files' = files
  BY ReturnStep
<1>2. /\ Reading(s) /\ files[s].in_use
      /\ files[s].pos \in Nat /\ Len(files[s].buf) \in Nat
      /\ Len(call.got) \in Nat
      /\ Position(s) = files[s].pos - Len(files[s].buf) - Len(call.got)
      /\ TypeOK /\ Exclusive /\ Exclusive'
  BY <1>1, BusyFacts DEF Inv
<1>3. ASSUME NEW p \in Path PROVE Content(p)' = Content(p)
  <2>1. \A t \in Slot : Holds(t, p)' <=> Holds(t, p)
    BY <1>1 DEF Holds
  <2> QED BY <1>1, <1>2, <2>1, SameContent
<1>4. \A t \in Slot : t # s => Stream(t)' = Stream(t)
  BY <1>1, SameStream
<1>5. Position(s)' = Position(s) + Len(call.got)
  <2> DEFINE p == files[s].pos
             b == Len(files[s].buf)
             g == Len(call.got)
  <2>1. p \in Nat /\ b \in Nat /\ g \in Nat
    BY <1>2
  <2>2. Position(s)' = p - b - 0
    BY <1>1, <1>2 DEF Position, Reading, Writing
  <2>3. Position(s) = p - b - g
    BY <1>2
  <2> HIDE DEF p, b, g
  <2>4. p - b - 0 = (p - b - g) + g
    BY <2>1
  <2> QED BY <2>2, <2>3, <2>4 DEF g
<1>6. Stream(s)' = [Stream(s) EXCEPT !.pos = Stream(s).pos + Len(call.got)]
  <2>1. Stream(s) = [in_use |-> TRUE, path |-> files[s].path,
                     mode |-> files[s].mode, pos |-> Position(s)]
    BY <1>2 DEF Stream
  <2>2. Stream(s)' = [in_use |-> TRUE, path |-> files[s].path,
                      mode |-> files[s].mode, pos |-> Position(s)']
    BY <1>1, <1>2 DEF Stream
  <2>3. Stream(s).pos = Position(s)
    BY <2>1
  <2> DEFINE x == Position(s) + Len(call.got)
  <2>4. [Stream(s) EXCEPT !.pos = x] =
            [in_use |-> TRUE, path |-> files[s].path, mode |-> files[s].mode,
             pos |-> x]
    <3> HIDE DEF x
    <3> DEFINE r == Stream(s)
    <3>1. /\ r \in [in_use : {TRUE}, path : {files[s].path},
                    mode : {files[s].mode}, pos : {Position(s)}]
          /\ r.in_use = TRUE /\ r.path = files[s].path
          /\ r.mode = files[s].mode
      BY <2>1
    <3> HIDE DEF r
    <3> DEFINE e == [r EXCEPT !.pos = x]
    <3>2. e \in [in_use : {TRUE}, path : {files[s].path},
                 mode : {files[s].mode}, pos : {x}]
      BY <3>1
    <3>3. /\ e.in_use = TRUE /\ e.path = files[s].path
          /\ e.mode = files[s].mode /\ e.pos = x
      BY <3>1
    <3> HIDE DEF e
    <3>4. e = [in_use |-> TRUE, path |-> files[s].path,
               mode |-> files[s].mode, pos |-> x]
      BY <3>2, <3>3
    <3> QED BY <3>4 DEF e, r
  <2> QED BY <1>5, <2>2, <2>3, <2>4
<1>7. streams[s] = Stream(s)
  BY Seen
<1> QED BY <1>3, <1>4, <1>6, <1>7, SameContents, NewStreams

\* What it returns is what stands there in the file.
LEMMA ReturnedPiece ==
    ASSUME Inv, Busy, NEW s \in Slot, s = call.s
    PROVE  /\ contents[streams[s].path] = Doc(s)
           /\ streams[s].pos = Position(s)
           /\ Position(s) \in Nat
           /\ Len(call.got) \in 0 .. Len(Doc(s))
           /\ Position(s) + Len(call.got) <= Len(Doc(s))
           /\ call.got = Plain!Piece(Doc(s), Position(s), Len(call.got))
<1>1. /\ Reading(s) /\ files[s].in_use /\ files[s].path \in Path
      /\ Doc(s) \in Text /\ Exclusive
      /\ call.got \in Text
  BY BusyFacts, FileType DEF Inv
<1>2. /\ Position(s) \in Nat /\ Len(call.got) \in Nat
      /\ Len(Doc(s)) \in Nat
      /\ \A i \in 1 .. Len(call.got) : call.got[i] = Doc(s)[Position(s) + i]
  BY BusyFacts
<1>3. Position(s) + Len(call.got) <= Len(Doc(s))
  <2> DEFINE p == files[s].pos
             b == Len(files[s].buf)
             g == Len(call.got)
             n == Len(Doc(s))
  <2>1. /\ p \in Nat /\ b \in Nat /\ g \in Nat /\ n \in Nat
        /\ p <= n
        /\ Position(s) = p - b - g
    BY BusyFacts
  <2> HIDE DEF p, b, g, n
  <2>2. (p - b - g) + g <= n
    BY <2>1
  <2> QED BY <2>1, <2>2 DEF g, n
<1>4. Len(call.got) \in 0 .. Len(Doc(s))
  BY <1>2, <1>3
<1>5. call.got = SubSeq(Doc(s), Position(s) + 1, Position(s) + Len(call.got))
  <2> DEFINE piece ==
               SubSeq(Doc(s), Position(s) + 1, Position(s) + Len(call.got))
  <2>1. /\ piece \in Text
        /\ Len(piece) = Len(call.got)
        /\ \A i \in 1 .. Len(call.got) : piece[i] = Doc(s)[Position(s) + i]
    <3> DEFINE text == Doc(s)
               p == Position(s)
               k == Len(call.got)
    <3>1. text \in Text /\ p \in Nat /\ k \in Nat /\ p + k <= Len(text)
      BY <1>1, <1>2, <1>3, Zenon
    <3> HIDE DEF text, p, k
    <3>2. /\ SubSeq(text, p + 1, p + k) \in Text
          /\ Len(SubSeq(text, p + 1, p + k)) = k
          /\ \A i \in 1 .. k : SubSeq(text, p + 1, p + k)[i] = text[p + i]
      BY <3>1, Cut
    <3> QED BY <3>2 DEF text, p, k
  <2> HIDE DEF piece
  <2>2. call.got = piece
    BY <1>1, <1>2, <2>1, SameText
  <2> QED BY <2>2 DEF piece
<1>6. ~Written(files[s].path)
  BY <1>1 DEF Written, Exclusive, Holds, Writing, Reading
<1>7. contents[streams[s].path] = Doc(s)
  BY <1>1, <1>6, Seen, UnwrittenContent DEF contents, Doc
<1> QED BY <1>1, <1>2, <1>3, <1>4, <1>5, <1>7, Seen DEF Plain!Piece

\* At the end of the file a call stands behind the file's last byte.
LEMMA AtEndPlace ==
    ASSUME Inv, Busy, AtEnd, NEW s \in Slot, s = call.s
    PROVE  Position(s) + Len(call.got) = Len(Doc(s))
<1> DEFINE p == files[s].pos
           b == Len(files[s].buf)
           g == Len(call.got)
           n == Len(Doc(s))
<1>1. /\ p \in Nat /\ g \in Nat /\ n \in Nat
      /\ Position(s) = p - b - g
  BY BusyFacts
<1>2. b = 0
  BY EmptyText DEF AtEnd, Buffered
<1>3. n - p = 0
  BY DEF AtEnd, Rest, Doc
<1> HIDE DEF p, b, g, n
<1>4. (p - 0 - g) + g = n
  BY <1>1, <1>3
<1> QED BY <1>1, <1>2, <1>4 DEF g, n

LEMMA FgetsImplemented ==
    ASSUME Inv, Return, call.op = "fgets"
    PROVE  \E s \in Slot, size \in Size : Plain!GetLine(s, size)
<1>1. Busy /\ call.s \in Slot /\ Reading(call.s)
  BY BusyFacts DEF Return
<1>2. PICK s \in Slot : s = call.s
  BY <1>1
<1>3. PICK size \in Size : call.want = size - 1
  BY <1>1 DEF Inv, Wanted
<1> DEFINE text == Doc(s)
           pos == Position(s)
           n == Len(call.got)
<1>4. /\ contents[streams[s].path] = text /\ streams[s].pos = pos
      /\ pos \in Nat /\ n \in Nat /\ n \in 0 .. Len(text)
      /\ pos + n <= Len(text) /\ Len(text) \in Nat
      /\ call.got = Plain!Piece(text, pos, n)
      /\ call.want \in Nat /\ n <= call.want
  BY <1>1, <1>2, ReturnedPiece, BusyFacts
<1>5. \A i \in 1 .. n : call.got[i] = text[pos + i]
  BY <1>1, <1>2, BusyFacts
<1>6. \A i \in 1 .. n - 1 : text[pos + i] # Newline
  <2>1. \A i \in 1 .. n - 1 : call.got[i] # Newline
    BY <1>1 DEF Inv, Wanted
  <2>2. \A i \in 1 .. n - 1 : i \in 1 .. n
    BY <1>4
  <2> QED BY <1>5, <2>1, <2>2
<1>7. \/ n = size - 1
      \/ pos + n = Len(text)
      \/ n > 0 /\ text[pos + n] = Newline
  <2>1. CASE n >= call.want
    BY <1>3, <1>4, <2>1
  <2>2. CASE n > 0 /\ call.got[n] = Newline
    <3>1. n \in 1 .. n
      BY <1>4, <2>2
    <3> QED BY <1>5, <2>2, <3>1
  <2>3. CASE AtEnd
    BY <1>1, <1>2, <2>3, AtEndPlace
  <2> QED BY <2>1, <2>2, <2>3 DEF Return, Enough
<1>8. Plain!IsLine(text, pos, size, n)
  BY <1>3, <1>4, <1>6, <1>7 DEF Plain!IsLine
<1>9. reply' = IF n = 0 THEN Null ELSE Answer(call.got)
  <2>1. n = 0 <=> call.got = <<>>
    BY <1>1, BusyFacts, EmptySeq DEF Text
  <2> QED BY <2>1 DEF Return
<1>10. /\ contents' = contents
       /\ streams' = [streams EXCEPT ![s] =
                        [streams[s] EXCEPT !.pos = streams[s].pos + n]]
  BY <1>2, ReturnMoves
<1>11. Plain!Reads(s)
  BY <1>1, <1>2, SeenAlike
<1> HIDE DEF text, pos, n
<1>12. /\ Plain!IsLine(contents[streams[s].path], streams[s].pos, size, n)
       /\ reply' = IF n = 0 THEN Null
                   ELSE Answer(Plain!Piece(contents[streams[s].path],
                                           streams[s].pos, n))
       /\ n \in 0 .. Len(contents[streams[s].path])
  BY <1>4, <1>8, <1>9
<1>13. Plain!GetLine(s, size)
  BY <1>10, <1>11, <1>12
     DEF Plain!GetLine, Plain!Taken, Plain!Null, Plain!Answer, Null, Answer,
         contents, streams
<1> QED BY <1>13

LEMMA FreadImplemented ==
    ASSUME Inv, Return, call.op = "fread"
    PROVE  \E s \in Slot, want \in Want : Plain!Read(s, want)
<1>1. Busy /\ call.s \in Slot /\ Reading(call.s)
  BY BusyFacts DEF Return
<1>2. PICK s \in Slot : s = call.s
  BY <1>1
<1>3. PICK want \in Want : call.want = want
  BY <1>1 DEF Inv, Wanted
<1> DEFINE text == Doc(s)
           pos == Position(s)
           n == Len(call.got)
<1>4. /\ contents[streams[s].path] = text /\ streams[s].pos = pos
      /\ pos \in Nat /\ n \in Nat /\ n \in 0 .. Len(text)
      /\ pos + n <= Len(text) /\ Len(text) \in Nat
      /\ call.got = Plain!Piece(text, pos, n)
      /\ call.want \in Nat /\ n <= call.want
  BY <1>1, <1>2, ReturnedPiece, BusyFacts
<1>5. n = want \/ pos + n = Len(text)
  <2>1. CASE n >= call.want
    BY <1>3, <1>4, <2>1
  <2>2. CASE AtEnd
    BY <1>1, <1>2, <2>2, AtEndPlace
  <2> QED BY <2>1, <2>2 DEF Return, Enough
<1>6. Plain!IsRead(text, pos, want, n)
  BY <1>3, <1>4, <1>5 DEF Plain!IsRead
<1>7. reply' = Answer(call.got)
  BY DEF Return
<1>8. /\ contents' = contents
      /\ streams' = [streams EXCEPT ![s] =
                       [streams[s] EXCEPT !.pos = streams[s].pos + n]]
  BY <1>2, ReturnMoves
<1>9. Plain!Reads(s)
  BY <1>1, <1>2, SeenAlike
<1> HIDE DEF text, pos, n
<1>10. /\ Plain!IsRead(contents[streams[s].path], streams[s].pos, want, n)
       /\ reply' = Answer(Plain!Piece(contents[streams[s].path],
                                      streams[s].pos, n))
       /\ n \in 0 .. Len(contents[streams[s].path])
  BY <1>4, <1>6, <1>7
<1>11. Plain!Read(s, want)
  BY <1>8, <1>9, <1>10
     DEF Plain!Read, Plain!Taken, Plain!Answer, Answer, contents, streams
<1> QED BY <1>11

\* A write that was cut off leaves a first part.
LEMMA FirstPart ==
    ASSUME NEW a \in Text, NEW b \in Text
    PROVE  Len(a) \in 0 .. Len(a \o b) /\ a = SubSeq(a \o b, 1, Len(a))
<1>1. /\ a \o b \in Text /\ Len(a) \in Nat /\ Len(b) \in Nat
      /\ Len(a \o b) = Len(a) + Len(b)
      /\ \A i \in 1 .. Len(a) + Len(b) :
            (a \o b)[i] = IF i <= Len(a) THEN a[i] ELSE b[i - Len(a)]
  BY Concat, Length
<1> DEFINE part == SubSeq(a \o b, 0 + 1, 0 + Len(a))
<1>2. /\ part \in Text /\ Len(part) = Len(a)
      /\ \A i \in 1 .. Len(a) : part[i] = (a \o b)[0 + i]
  <2> DEFINE text == a \o b
             k == Len(a)
  <2>1. text \in Text /\ 0 \in Nat /\ k \in Nat /\ 0 + k <= Len(text)
    BY <1>1
  <2> HIDE DEF text, k
  <2>2. /\ SubSeq(text, 0 + 1, 0 + k) \in Text
        /\ Len(SubSeq(text, 0 + 1, 0 + k)) = k
        /\ \A i \in 1 .. k : SubSeq(text, 0 + 1, 0 + k)[i] = text[0 + i]
    BY <2>1, Cut
  <2> QED BY <2>2 DEF text, k
<1>3. \A i \in 1 .. Len(a) : part[i] = a[i]
  BY <1>1, <1>2
<1>4. a = part
  <2> HIDE DEF part
  <2> QED BY <1>2, <1>3, SameText
<1>5. part = SubSeq(a \o b, 1, Len(a))
  BY <1>1
<1> QED BY <1>1, <1>4, <1>5

LEMMA KilledImplemented ==
    ASSUME Inv, Killed
    PROVE  Plain!Die
<1>1. /\ files' = [s \in Slot |-> Free]
      /\ \A s \in Slot : ~files'[s].in_use
      /\ disk' = disk /\ reply' = Null
  BY DEF Killed, Free
<1>2. TypeOK /\ Exclusive /\ disk \in [Path -> Text]
  BY DEF Inv, TypeOK
<1>3. ASSUME NEW p \in Path PROVE Content(p)' = disk[p]
  <2>1. ~Written(p)'
    BY <1>1 DEF Written, Holds
  <2> QED BY <1>1, <2>1, UnwrittenContentNext
<1>4. ASSUME NEW p \in Path
      PROVE  IF Written(p)
             THEN \E n \in 0 .. Len(Content(p)) :
                     Content(p)' = SubSeq(Content(p), 1, n)
             ELSE Content(p)' = Content(p)
  <2>1. CASE Written(p)
    <3>1. PICK s \in Slot : Writing(s) /\ Holds(s, p)
      BY <2>1 DEF Written
    <3>2. files[s].buf \in Text /\ disk[p] \in Text
      BY <1>2, <3>1, FileType DEF Writing
    <3>3. Content(p) = disk[p] \o files[s].buf
      BY <1>2, <3>1, WrittenContent
    <3>4. /\ Len(disk[p]) \in 0 .. Len(Content(p))
          /\ disk[p] = SubSeq(Content(p), 1, Len(disk[p]))
      BY <3>2, <3>3, FirstPart
    <3> QED BY <1>3, <2>1, <3>4
  <2>2. CASE ~Written(p)
    BY <1>3, <2>2, UnwrittenContent
  <2> QED BY <2>1, <2>2
<1>5. \A p \in Path : Plain!BeingWritten(p) <=> Written(p)
  BY SeenAlike DEF Plain!BeingWritten, Written
<1>6. streams' = [s \in Slot |-> Free]
  BY <1>1 DEF streams, Stream, Free
<1>7. \A p \in Path : contents[p] = Content(p) /\ contents'[p] = Content(p)'
  BY DEF contents
<1>8. contents' = [p \in Path |-> contents'[p]]
  BY DEF contents
<1>9. \A p \in Path :
          IF Plain!BeingWritten(p)
          THEN \E n \in 0 .. Len(contents[p]) :
                  contents'[p] = SubSeq(contents[p], 1, n)
          ELSE contents'[p] = contents[p]
  BY <1>4, <1>5, <1>7
<1> QED
  BY <1>1, <1>6, <1>8, <1>9
     DEF Plain!Die, Plain!Closed, Plain!Null, Null, Free, contents, streams

LEMMA PlainInit == Init => Plain!Init
<1> SUFFICES ASSUME Init PROVE Plain!Init
  OBVIOUS
<1>1. Inv
  BY InvInit
<1>2. \A s \in Slot : ~files[s].in_use
  BY DEF Init, Free
<1>3. ASSUME NEW p \in Path PROVE Content(p) \in Text
  <2>1. ~Written(p)
    BY <1>2 DEF Written, Holds
  <2> QED BY <1>1, <2>1, UnwrittenContent DEF Inv, TypeOK
<1>4. contents \in [Path -> Text]
  BY <1>3 DEF contents
<1>5. streams = [s \in Slot |-> Free]
  BY <1>2 DEF streams, Stream
<1>6. reply = Null
  BY DEF Init
<1> QED
  BY <1>4, <1>5, <1>6
     DEF Plain!Init, Plain!Text, Text, Plain!Closed, Plain!Null, Null, Free,
         contents, streams

LEMMA PlainStep ==
    ASSUME Inv, [Next]_vars
    PROVE  Plain!Next \/ UNCHANGED <<contents, streams, reply>>
<1>1. Inv'
  BY InvStep
<1>2. CASE UNCHANGED vars
  <2>1. contents' = contents
    BY <1>2 DEF contents, Content, Writing, Holds, vars
  <2>2. streams' = streams
    BY <1>2 DEF streams, Stream, Position, Writing, Busy, vars
  <2> QED BY <1>2, <2>1, <2>2 DEF vars
<1>3. ASSUME NEW path \in Path, fopen(path, "r", "read")
      PROVE  Plain!Next
  <2>1. \E s \in Slot : Plain!Open(s, path, "r")
    BY <1>3, OpenImplemented DEF Style
  <2> QED BY <2>1 DEF Plain!Next
<1>4. ASSUME NEW path \in Path, NEW style \in {"buffered", "printed"},
             fopen(path, "w", style)
      PROVE  Plain!Next
  <2>1. style \in Style
    BY DEF Style
  <2>2. \E s \in Slot : Plain!Open(s, path, "w")
    BY <1>4, <2>1, OpenImplemented
  <2> QED BY <2>2 DEF Plain!Next
<1>5. ASSUME NEW path \in Path, NEW mode \in {"r", "w"},
             fopen_fails(path, mode)
      PROVE  Plain!Next
  BY <1>5, OpenFailsImplemented DEF Plain!Next
<1>6. ASSUME NEW s \in Slot, fclose(s) PROVE Plain!Next
  BY <1>6, CloseImplemented DEF Plain!Next
<1>7. ASSUME NEW s \in Slot, NEW data \in Data, fwrite(s, data)
      PROVE  Plain!Next
  <2>1. /\ Writing(s) /\ Writing(s)' /\ ~Busy /\ ~Busy'
        /\ files'[s].path = files[s].path
        /\ \A t \in Slot : t # s => files'[t] = files[t]
    BY <1>7, FwriteStep DEF Busy
  <2>2. PICK out \in Text :
            /\ disk' = AppendTo(files[s].path, out)
            /\ out \o files'[s].buf = files[s].buf \o data
    BY <1>7, FwriteStep
  <2>3. data \in Data \cup Printed /\ reply' = Answer(<<>>)
    BY <1>7 DEF fwrite
  <2>4. Plain!Write(s, data)
    BY <1>1, <2>1, <2>2, <2>3, WriteImplemented
  <2> QED BY <2>3, <2>4 DEF Plain!Next
<1>8. ASSUME NEW s \in Slot, NEW data \in Printed, fprintf(s, data)
      PROVE  Plain!Next
  <2>1. /\ Writing(s) /\ ~Busy /\ ~Busy' /\ files' = files
        /\ files[s].buf = <<>> /\ data \in Text
        /\ disk' = AppendTo(files[s].path, data)
    BY <1>8, FprintfStep DEF Busy
  <2>2. data \o files'[s].buf = files[s].buf \o data
    BY <2>1, ConcatEmptySeq DEF Text
  <2>3. data \in Data \cup Printed /\ reply' = Answer(<<>>) /\ Writing(s)'
    BY <1>8, <2>1 DEF fprintf, Writing
  <2>4. Plain!Write(s, data)
    BY <1>1, <2>1, <2>2, <2>3, WriteImplemented
  <2> QED BY <2>3, <2>4 DEF Plain!Next
<1>9. ASSUME NEW s \in Slot, NEW size \in Size, fgets(s, size)
      PROVE  UNCHANGED <<contents, streams, reply>>
  <2>1. size - 1 \in Nat /\ Begin("fgets", s, size - 1)
    BY <1>9, FgetsBegins
  <2>2. \E z \in Size : size - 1 = z - 1
    OBVIOUS
  <2>3. /\ ~Busy /\ Busy' /\ call'.s = s /\ Len(call'.got) = 0
        /\ disk' = disk /\ files' = files /\ reply' = reply
    BY <2>1, <2>2, BeginStep
  <2> QED BY <1>1, <2>3, BeginIsStutter
<1>10. ASSUME NEW s \in Slot, NEW want \in Want, fread(s, want)
       PROVE  UNCHANGED <<contents, streams, reply>>
  <2>1. want \in Nat /\ Begin("fread", s, want)
    BY <1>10, FreadBegins
  <2>2. /\ ~Busy /\ Busy' /\ call'.s = s /\ Len(call'.got) = 0
        /\ disk' = disk /\ files' = files /\ reply' = reply
    BY <2>1, BeginStep
  <2> QED BY <1>1, <2>2, BeginIsStutter
<1>11. CASE Take \/ Refill \/ ReadDirectly
  <2>1. Silent
    BY <1>11, TakeStep, RefillStep, ReadDirectlyStep
  <2> QED BY <1>1, <2>1, SilentIsStutter
<1>12. CASE Return
  <2>1. call.op \in {"fgets", "fread"}
    BY <1>12, CallType DEF Inv, Return
  <2>2. CASE call.op = "fgets"
    BY <1>12, <2>2, FgetsImplemented DEF Plain!Next
  <2>3. CASE call.op = "fread"
    BY <1>12, <2>3, FreadImplemented DEF Plain!Next
  <2> QED BY <2>1, <2>2, <2>3
<1>13. CASE Killed
  BY <1>13, KilledImplemented DEF Plain!Next
<1> QED
  BY <1>2, <1>3, <1>4, <1>5, <1>6, <1>7, <1>8, <1>9, <1>10, <1>11, <1>12,
     <1>13
     DEF Next, Iterate

\* The buffers of the C library are not to be seen: with any buffer size, and
\* however the read() calls cut a file, lines and data come back whole and in
\* order, writes reach the file in order, and a process that is killed leaves a
\* first part of each file it was writing (minilib.c).
THEOREM BuffersAreInvisible == Spec => ImplementsPlain
<1>1. Init => Plain!Init
  BY PlainInit
<1>2. Inv /\ [Next]_vars => [Plain!Next]_(Plain!vars)
  BY PlainStep DEF Plain!vars, contents, streams
<1> QED BY <1>1, <1>2, Invariance, PTL DEF Spec, ImplementsPlain, Plain!Spec

=============================================================================
