------------------------------- MODULE GzFile -------------------------------
(***************************************************************************)
(* A gzFile from gzopen() on: written, closed and read again, or opened for *)
(* reading on a file that is there already.  One thread makes the calls;    *)
(* read() and write() may fail for a while.                                 *)
(***************************************************************************)
EXTENDS GzRead, GzWrite

VARIABLE mode

vars == <<file, failing, mode, state, rcall, skipping, whole, cleared,
          w, wcall, zeroing, given, marred>>

\* gz_open(): its mode, and what it is opened on.
Init == /\ failing = FALSE /\ WInit
        /\ \/ mode = "READ" /\ RInit
           \/ mode = "WRITE" /\ file = <<>> /\ whole = <<>> /\ state = gz_open(Want)
              /\ rcall = NoCall /\ skipping = 0 /\ cleared = FALSE

\* The file that was written is opened again for reading.
Reopen == /\ mode = "WRITE" /\ wcall.op = "closed" /\ marred = {}
          /\ mode' = "READ" /\ whole' = file
          /\ w' = wopen /\ wcall' = NoWrite /\ given' = <<>>
          /\ UNCHANGED <<file, failing, state, rcall, skipping, cleared, zeroing, marred>>

Next == \/ mode = "READ" /\ RNext /\ UNCHANGED wvars /\ UNCHANGED mode
        \/ mode = "WRITE" /\ WNext /\ UNCHANGED rvars /\ UNCHANGED mode
        \/ Device /\ UNCHANGED <<file, mode, state, rcall, skipping, whole, cleared>>
           /\ UNCHANGED wvars
        \/ Reopen

Reading == ~rcall.over /\ rcall.op # "closed"
Writing == ~wcall.over /\ wcall.op # "closed"

\* A call that has begun goes on, since nobody else touches the gz_state: weak fairness
\* of the steps of a call, each of which changes one of these.
Fairness == /\ []<>~Reading \/ []<><<Reading>>_<<state, rcall, skipping>>
            /\ []<>~Writing \/ []<><<Writing>>_<<w, wcall, zeroing>>

Spec == Init /\ [][Next]_vars /\ Fairness

\* Until writing goes on after an error what can be read from the file is the beginning of
\* what was given, also when write() took only a part of the buffer (gzwrite.c:84).
FileIsPrefix ==
  mode = "WRITE" /\ marred \subseteq {"write"} =>
    LET data == Decoded(file).data IN data = Take(given, Len(data))

\* Every call returns: the loops of gzread(), gzgets(), gz_skip(), gz_zero() and gzwrite()
\* end, at the end of the file or of an empty member too.
CallsEnd == (Reading ~> ~Reading) /\ (Writing ~> ~Writing)
=============================================================================
