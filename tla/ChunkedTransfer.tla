-------------------------- MODULE ChunkedTransfer ---------------------------
(***************************************************************************)
(* Client._chunked_transfer of pithos/lib/client.py: the body of a PUT is *)
(* sent block by block in chunked transfer encoding; each http.send that  *)
(* raises is retried once, and a second failure propagates.                *)
(*                                                                         *)
(* The byte stream is abstracted to its units: the chunk-size line of     *)
(* block i, the data of block i, and the terminating zero-size chunk.     *)
(* A send that raises may have written a prefix of its data first         *)
(* (socket.sendall raises after a partial write) when PartialSends holds. *)
(* The response body is a short sequence of characters: "c" for any but   *)
(* the newline, and "\n".                                                  *)
(***************************************************************************)
EXTENDS Naturals, Sequences

CONSTANTS
    MaxBlocks,     \* bound on the blocks in the file f
    PartialSends,  \* a failing send may write part of its data
    Statuses,      \* the status codes the server may answer with
    Bodies         \* the response bodies the server may send

Hdr(i)  == [unit |-> "size", block |-> i]
Body(i) == [unit |-> "data", block |-> i]
Last0   == [unit |-> "size", block |-> 0]

\* '%s\r\n%s\r\n' % (hex(len(block)), block)
Chunk(i) == <<Hdr(i), Body(i)>>

VARIABLES
    nblocks,  \* blocks in the file f
    pc,       \* "read", "send", "retry", "response", "done", "failed"
    i,        \* blocks read so far
    data,     \* the `data` local: what the current send writes
    stream,   \* the units the server has received, in order
    answer    \* the server's response: [status, body], once it answers

vars == <<nblocks, pc, i, data, stream, answer>>

\* The keys of ERROR_CODES.
ERROR_CODES == {304, 400, 401, 404, 409, 411, 412, 416, 422, 503}

NoAnswer == [status |-> 0, body |-> <<>>]

\* The part of d a failing send has written before it raised.
Written(d) == {SubSeq(d, 1, k) : k \in IF PartialSends THEN 0..(Len(d) - 1) ELSE {0}}

Init ==
    /\ nblocks \in 0..MaxBlocks
    /\ pc = "read"
    /\ i = 0
    /\ data = <<>>
    /\ stream = <<>>
    /\ answer = NoAnswer

(* block = f.read(blocksize); an empty block ends the loop and the        *)
(* terminating chunk '0x0\r\n' is sent.                                    *)
ReadBlock ==
    /\ pc = "read"
    /\ pc' = "send"
    /\ IF i < nblocks
       THEN /\ i' = i + 1
            /\ data' = Chunk(i + 1)
       ELSE /\ data' = <<Last0>>
            /\ UNCHANGED i
    /\ UNCHANGED <<nblocks, stream, answer>>

\* After a send returns: back to the loop, or on to the response.
AfterSend == IF data = <<Last0>> THEN "response" ELSE "read"

(* http.send(data) returns, first try or retry.                            *)
SendOk ==
    /\ pc \in {"send", "retry"}
    /\ stream' = stream \o data
    /\ pc' = AfterSend
    /\ UNCHANGED <<nblocks, i, data, answer>>

(* http.send(data) raises in the try: the except clause sends it again.   *)
SendFailed ==
    /\ pc = "send"
    /\ \E w \in Written(data) : stream' = stream \o w
    /\ pc' = "retry"
    /\ UNCHANGED <<nblocks, i, data, answer>>

(* The retry raises too: the exception leaves _chunked_transfer.          *)
RetryFailed ==
    /\ pc = "retry"
    /\ \E w \in Written(data) : stream' = stream \o w
    /\ pc' = "failed"
    /\ UNCHANGED <<nblocks, i, data, answer>>

(* http.getresponse(): the server has the whole request and answers.     *)
GetResponse ==
    /\ pc = "response"
    /\ pc' = "reply"
    /\ answer' \in [status : Statuses, body : Bodies]
    /\ UNCHANGED <<nblocks, i, data, stream>>

\* "data = data and data[:-1] or data": the last character goes, unless
\* what is left is empty, and then the `or` keeps data whole.
StripEnter(d) == IF d # <<>> /\ SubSeq(d, 1, Len(d) - 1) # <<>>
                 THEN SubSeq(d, 1, Len(d) - 1) ELSE d

(* data = resp.read(); "assert data[-1] == '\n'" on a non-empty body; the *)
(* trailing newline removed; Fault for a status in ERROR_CODES, else the  *)
(* call returns (status, headers, data).                                   *)
ReadResponse ==
    LET body == answer.body IN
    /\ pc = "reply"
    /\ IF body # <<>> /\ body[Len(body)] # "\n"
       THEN /\ pc' = "failed"
            /\ data' = body
       ELSE /\ pc' = IF answer.status \in ERROR_CODES THEN "fault" ELSE "done"
            /\ data' = StripEnter(body)
    /\ UNCHANGED <<nblocks, i, stream, answer>>

Next == ReadBlock \/ SendOk \/ SendFailed \/ RetryFailed \/ GetResponse \/ ReadResponse

Spec == Init /\ [][Next]_vars

-----------------------------------------------------------------------------
Units == {Hdr(b) : b \in 1..MaxBlocks} \cup {Body(b) : b \in 1..MaxBlocks} \cup {Last0}

TypeOK ==
    /\ pc \in {"read", "send", "retry", "response", "reply", "done", "fault", "failed"}
    /\ nblocks \in 0..MaxBlocks /\ i \in 0..nblocks
    /\ stream \in Seq(Units)
    /\ IF answer # NoAnswer /\ pc # "reply"
       THEN data \in Seq({"c", "\n"})
       ELSE data \in Seq(Units)
    /\ answer \in [status : Statuses, body : Bodies] \cup {NoAnswer}

\* Every block's chunk in order, then the terminating chunk.
RECURSIVE Expected(_)
Expected(n) == IF n = 0 THEN <<Last0>> ELSE Chunk(nblocks - n + 1) \o Expected(n - 1)

(* When the server answers, it has received exactly the file as a chunked *)
(* body: the retry of a failed send must neither lose nor repeat units.   *)
StreamIntact == pc \in {"reply", "done", "fault"} => stream = Expected(nblocks)

(* The comment "remove trailing enter": a returned body is the server's   *)
(* body without its final newline, and nothing else removed or kept.       *)
ReturnedBody ==
    pc = "done" => data = SubSeq(answer.body, 1, Len(answer.body) - 1)
=============================================================================
