---------------------------- MODULE FileTransfer ----------------------------
(***************************************************************************)
(* The body of a response that is read from a file: write_file             *)
(* (mimino.c:379), called by do_conn_state each time the client's socket   *)
(* can be written to.  A call opens the file, seeks to file_offset, and    *)
(* sends piece after piece until the socket takes no more, the file ends   *)
(* or something fails.                                                     *)
(*                                                                         *)
(* A byte of the file is its position. `wire` is what the client receives. *)
(***************************************************************************)
EXTENDS SendBuf, SequencesExt

CONSTANTS FileSize, \* the file's length
          BufLen,   \* sizeof(file_buf): 4096
          MaxTries  \* write_tries_left after each progress: 5

ASSUME FileAssumption == /\ FileSize \in Nat
                         /\ {BufLen, MaxTries} \subseteq Nat \ {0}

VARIABLES range_start, range_end, \* of the response, see make_http_response
          file_offset,            \* where the next call will seek to
          write_tries_left,
          file_pos,               \* the open handle's position
          nbytes_to_read,         \* how much each fread() asks for
          handles,                \* FILE handles that are open
          stalls,                 \* calls since the file last sent a byte,
                                  \* those that left the head unfinished
                                  \* included, up to MaxTries: not the
                                  \* program's
          wire,                   \* all that was sent
          status                  \* "call" between calls, "loop" in one, or
                                  \* what the last call returned

fileVars == <<range_start, range_end, file_offset, write_tries_left, file_pos,
              nbytes_to_read, handles, stalls, wire, status>>

(* The ranges of a request without a Range header are the whole file's,   *)
(* -1 being the end of an empty one; a client may ask for any others.     *)
(* write_headers takes its tries from the same counter (mimino.c:332), and *)
(* what it took is not given back before the file's turn.                  *)
FileInit == /\ \/ range_start = 0 /\ range_end = FileSize - 1
               \/ range_start \in 0 .. FileSize + 1 /\ range_end \in 0 .. FileSize + 1
            /\ file_offset = range_start
            /\ write_tries_left \in 0 .. MaxTries
            /\ file_pos = 0
            /\ nbytes_to_read = 0
            /\ handles = 0
            /\ stalls = MaxTries - write_tries_left
            /\ wire = <<>>
            /\ status = "call"

(* Mutant of the next definition: two bytes are left out of the count. *)
BytesToReadShort == LET nbytes_left == range_end - 1 - file_offset
                    IN  IF nbytes_left \in 0 .. BufLen THEN nbytes_left ELSE BufLen

(* nbytes_left is a size_t: a negative difference becomes a huge one. *)
BytesToRead == LET nbytes_left == range_end - file_offset
               IN  IF nbytes_left \in 0 .. BufLen THEN nbytes_left ELSE BufLen

(* Mutant of the next definition: every call starts over. *)
SeekedToStart == range_start

SeekedTo == file_offset

(* The first half of a call, up to the loop. *)
OpenAndSeek == /\ status = "call"
               /\ handles' = handles + 1
               /\ file_pos' = SeekedTo
               /\ nbytes_to_read' = BytesToRead
               /\ stalls' = IF stalls < MaxTries THEN stalls + 1 ELSE stalls
               /\ status' = "loop"
               /\ UNCHANGED <<range_start, range_end, file_offset,
                              write_tries_left, wire>>

(* Mutant of the next definition: what was deferred is forgotten. *)
fulfillNothing(open) == open

(* The only thing that write_file defers is closing the handle. *)
fulfill(open) == open - 1

OpenFails == /\ status = "call"
             /\ status' = "W_FATAL_ERROR"
             /\ UNCHANGED <<range_start, range_end, file_offset, write_tries_left,
                            file_pos, nbytes_to_read, handles, stalls, wire>>

(* Reading, seeking or sending fails for good. *)
Fails == /\ status = "loop"
         /\ handles' = fulfill(handles)
         /\ status' = "W_FATAL_ERROR"
         /\ UNCHANGED <<range_start, range_end, file_offset, write_tries_left,
                        file_pos, nbytes_to_read, stalls, wire>>

(* fread() copies what there is of nbytes_to_read bytes. *)
BytesRead == IF file_pos >= FileSize THEN 0
             ELSE IF nbytes_to_read < FileSize - file_pos THEN nbytes_to_read
             ELSE FileSize - file_pos

(* fread() returns nothing: the response is complete. This is the one     *)
(* return that does not go through fulfill().                             *)
Completes == /\ status = "loop"
             /\ BytesRead = 0
             /\ status' = "W_COMPLETE_WRITE"
             /\ UNCHANGED <<range_start, range_end, file_offset, write_tries_left,
                            file_pos, nbytes_to_read, handles, stalls, wire>>

(* Mutants of the last two of the next definitions: the tries are not      *)
(* counted, or not given back.                                             *)
TriesKept == write_tries_left
TriesNotReset == write_tries_left

OutOfTries == write_tries_left = 0
TriesAfterStall == write_tries_left - 1
TriesAfterProgress == MaxTries

(* One turn of the loop: a piece is read and handed to send_buf. *)
SendPiece ==
    /\ status = "loop"
    /\ BytesRead > 0
    /\ file_pos' = file_pos + BytesRead
    /\ \E r \in send_buf(BytesRead) :
          /\ wire' = wire \o [i \in DOMAIN r.wire |-> file_pos + r.wire[i]]
          /\ IF r.ret = -1
             THEN /\ status' = "W_FATAL_ERROR"
                  /\ handles' = fulfill(handles)
                  /\ UNCHANGED <<file_offset, write_tries_left, stalls>>
             ELSE /\ file_offset' = file_offset + r.ret
                  /\ stalls' = IF r.ret > 0 THEN 0 ELSE stalls
                  /\ \/ /\ r.ret > 0
                        /\ write_tries_left' = TriesAfterProgress
                        /\ UNCHANGED <<handles, status>>
                     \/ /\ r.ret = 0 /\ OutOfTries
                        /\ handles' = fulfill(handles)
                        /\ status' = "W_MAX_TRIES"
                        /\ UNCHANGED write_tries_left
                     \/ /\ r.ret = 0 /\ ~OutOfTries
                        /\ write_tries_left' = TriesAfterStall
                        /\ handles' = fulfill(handles)
                        /\ status' = "call"
    /\ UNCHANGED <<range_start, range_end, nbytes_to_read>>

Ended == status \in {"W_COMPLETE_WRITE", "W_MAX_TRIES", "W_FATAL_ERROR"}

FileNext == \/ OpenAndSeek
            \/ OpenFails
            \/ Fails
            \/ Completes
            \/ SendPiece
            \/ Ended /\ UNCHANGED fileVars

(* A client that is there lets its socket become writable again; one that *)
(* is not is timed out by the event loop.                                 *)
FileSpec == FileInit /\ [][FileNext]_fileVars
FileFairSpec == FileSpec /\ WF_fileVars(OpenAndSeek \/ Completes \/ SendPiece)

-----------------------------------------------------------------------------
FileTypeOK == /\ range_start \in Nat
              /\ range_end \in Nat \union {-1}
              /\ file_offset \in Nat
              /\ write_tries_left \in 0 .. MaxTries
              /\ file_pos \in Nat
              /\ nbytes_to_read \in 0 .. BufLen
              /\ handles \in Nat
              /\ stalls \in 0 .. MaxTries
              /\ wire \in Seq(0 .. FileSize)
              /\ status \in {"call", "loop", "W_COMPLETE_WRITE", "W_MAX_TRIES",
                             "W_FATAL_ERROR"}

(* "file_offset tracks the point from which data transfer must continue"  *)
(* (mimino.h:59): what the client has received is the file from the start *)
(* of the range up to file_offset, with nothing left out or sent twice.   *)
ResumesWhereItStopped ==
    status = "call" =>
        wire = [i \in 1 .. file_offset - range_start |-> range_start + i - 1]

(* A transfer is complete only when nothing is missing that the client    *)
(* asked for and the file has, except perhaps the last byte: nbytes_left  *)
(* does not count it, so that it is not sent if it is all that is left.   *)
CompleteButForOneByte ==
    status = "W_COMPLETE_WRITE" =>
        \A p \in range_start .. range_end - 1 :
            p < FileSize => Contains(wire, p)

(* A client is given up only after MaxTries calls, at the least, in which *)
(* the socket took less than it had to and nothing of the file: those that *)
(* left the head unfinished count, but none before the file's last         *)
(* progress does.                                                          *)
StallsBeforeDrop == status = "W_MAX_TRIES" => stalls >= MaxTries

(* At most one handle is open, none between calls and none after a call    *)
(* that failed or gave up: only the call that completes the file leaves    *)
(* its handle behind.                                                      *)
OneHandle == /\ handles <= 1
             /\ handles = 1 => status \in {"loop", "W_COMPLETE_WRITE"}

(* A transfer to a client that is there comes to an end. *)
Terminates == <>Ended
=============================================================================
