--------------------------- MODULE OrderedStream ---------------------------
(***************************************************************************)
(* What SRT promises the application that calls srt_server_recv: the bytes *)
(* written into the stream come out in the order in which they were        *)
(* written and none comes out twice.  Bytes may be missing, but only where *)
(* a new connection starts: the reader then resumes at a later byte.       *)
(***************************************************************************)
EXTENDS Integers, Sequences

VARIABLES
  written,   \* number of bytes written; they are 1 .. written
  cursor,    \* the reader side wants byte cursor + 1 next
  buffer,    \* bytes received and not yet read
  read       \* bytes read

streamVars == <<written, cursor, buffer, read>>

StreamInit == written = 0 /\ cursor = 0 /\ buffer = <<>> /\ read = <<>>

Write ==
  /\ written' \in Nat /\ written' >= written
  /\ UNCHANGED <<cursor, buffer, read>>

(* The next n bytes, all of them written, arrive. *)
Take(n) ==
  /\ buffer' = buffer \o [i \in 1 .. n |-> cursor + i]
  /\ cursor' = cursor + n
  /\ UNCHANGED <<written, read>>

(* A new connection: bytes sent in an earlier one are given up. *)
Resume ==
  /\ cursor' \in cursor .. written
  /\ UNCHANGED <<written, buffer, read>>

Read(n) ==
  /\ read' = read \o SubSeq(buffer, 1, n)
  /\ buffer' = SubSeq(buffer, n + 1, Len(buffer))
  /\ UNCHANGED <<written, cursor>>

(* The reader closes: what it has not read is gone. *)
Discard ==
  /\ buffer' = <<>>
  /\ UNCHANGED <<written, cursor, read>>

StreamNext ==
  \/ Write \/ Resume \/ Discard
  \/ \E n \in 0 .. written - cursor : Take(n)
  \/ \E n \in 0 .. Len(buffer) : Read(n)

StreamSpec == StreamInit /\ [][StreamNext]_streamVars

(* The bytes that came out, or are about to, are in the order of writing,   *)
(* each at most once.                                                       *)
StreamInOrder ==
  LET out == read \o buffer
  IN  \A i, j \in DOMAIN out : i < j => out[i] < out[j]
=============================================================================
