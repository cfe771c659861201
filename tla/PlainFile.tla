----------------------------- MODULE PlainFile -----------------------------
(***************************************************************************)
(* What a caller may expect of the C library's FILE functions, without     *)
(* buffers: a write changes the file at once, a read returns the file's    *)
(* own bytes from where the stream stands, a line ends where its newline   *)
(* is, and a process that is killed leaves of each file it was writing     *)
(* some first part.  MiniFile is shown to implement this.                  *)
(*                                                                         *)
(* The caller keeps a path to one stream at a time and does not read what  *)
(* it has opened for writing, which is how config.c uses its files.        *)
(***************************************************************************)
EXTENDS Integers, Sequences

CONSTANTS
    Path,       \* the files
    Char,       \* the characters in them
    Newline,    \* the one that ends a line
    Slot,       \* the streams a process may hold
    Data,       \* what a caller writes in one call
    Size,       \* the line sizes a caller passes to fgets
    Want        \* the lengths a caller passes to fread

Text == Seq(Char)
Closed == [in_use |-> FALSE]

VARIABLES
    content,    \* per path: the bytes of the file
    stream,     \* per slot: the open stream, or Closed
    reply       \* what the last call returned: NULL, or data

vars == <<content, stream, reply>>

Null == [null |-> TRUE, data |-> <<>>]
Answer(data) == [null |-> FALSE, data |-> data]

Init ==
    /\ content \in [Path -> Text]
    /\ stream = [s \in Slot |-> Closed]
    /\ reply = Null

Holds(s, path) == stream[s].in_use /\ stream[s].path = path
Writes(s) == stream[s].in_use /\ stream[s].mode = "w"
Reads(s) == stream[s].in_use /\ stream[s].mode = "r"
Unused(path) == \A s \in Slot : ~Holds(s, path)

Truncated(path) == [content EXCEPT ![path] = <<>>]

Open(s, path, mode) ==
    /\ Unused(path)
    /\ ~stream[s].in_use
    /\ stream' = [stream EXCEPT ![s] =
                    [in_use |-> TRUE, path |-> path, mode |-> mode, pos |-> 0]]
    /\ content' = IF mode = "w" THEN Truncated(path) ELSE content
    /\ reply' = Answer(<<>>)

\* A file that cannot be opened for writing may have been emptied.
OpenFails(path, mode) ==
    /\ Unused(path)
    /\ \/ content' = content
       \/ mode = "w" /\ content' = Truncated(path)
    /\ reply' = Null
    /\ UNCHANGED stream

Close(s) ==
    /\ stream[s].in_use
    /\ stream' = [stream EXCEPT ![s] = Closed]
    /\ reply' = Answer(<<>>)
    /\ UNCHANGED content

Write(s, data) ==
    /\ Writes(s)
    /\ content' = [content EXCEPT ![stream[s].path] = @ \o data]
    /\ reply' = Answer(<<>>)
    /\ UNCHANGED stream

\* The n bytes behind the first pos of a text.
Piece(text, pos, n) == SubSeq(text, pos + 1, pos + n)

\* The next n bytes are what fgets returns to a caller with room for size:
\* they hold no newline but the last, and end there, at the end of the file,
\* or when the room is used up.
IsLine(text, pos, size, n) ==
    /\ n <= size - 1
    /\ pos + n <= Len(text)
    /\ \A i \in 1 .. n - 1 : text[pos + i] # Newline
    /\ \/ n = size - 1
       \/ pos + n = Len(text)
       \/ n > 0 /\ text[pos + n] = Newline

\* The next n bytes are what fread returns to a caller that wants so many.
IsRead(text, pos, want, n) ==
    /\ n <= want
    /\ pos + n <= Len(text)
    /\ n = want \/ pos + n = Len(text)

Taken(s, n) ==
    /\ stream' = [stream EXCEPT ![s].pos = @ + n]
    /\ UNCHANGED content

GetLine(s, size) ==
    /\ Reads(s)
    /\ LET text == content[stream[s].path]
           pos == stream[s].pos
       IN  \E n \in 0 .. Len(text) :
              /\ IsLine(text, pos, size, n)
              /\ reply' = IF n = 0 THEN Null ELSE Answer(Piece(text, pos, n))
              /\ Taken(s, n)

Read(s, want) ==
    /\ Reads(s)
    /\ LET text == content[stream[s].path]
           pos == stream[s].pos
       IN  \E n \in 0 .. Len(text) :
              /\ IsRead(text, pos, want, n)
              /\ reply' = Answer(Piece(text, pos, n))
              /\ Taken(s, n)

BeingWritten(path) == \E s \in Slot : Writes(s) /\ Holds(s, path)

\* Of each file being written, the death of the process leaves a first part.
Die ==
    /\ content' = [path \in Path |-> content'[path]]
    /\ \A path \in Path :
          IF BeingWritten(path)
          THEN \E n \in 0 .. Len(content[path]) :
                  content'[path] = SubSeq(content[path], 1, n)
          ELSE content'[path] = content[path]
    /\ stream' = [s \in Slot |-> Closed]
    /\ reply' = Null

Next ==
    \/ \E path \in Path, mode \in {"r", "w"} :
          OpenFails(path, mode) \/ \E s \in Slot : Open(s, path, mode)
    \/ \E s \in Slot :
          \/ Close(s)
          \/ \E data \in Data : Write(s, data)
          \/ \E size \in Size : GetLine(s, size)
          \/ \E want \in Want : Read(s, want)
    \/ Die

Spec == Init /\ [][Next]_vars
=============================================================================
