----------------------------- MODULE BodySpool -----------------------------
(***************************************************************************)
(* One call of spoolBody and the life of the spooledBody it returns        *)
(* (pkg/proxy/body_spool.go).  The audited path of the proxy never streams *)
(* a body: it copies it to a temporary file while it keeps the first       *)
(* maxCaptureBytes in memory for the audit event, and then reopens the     *)
(* file to send the body on, with `size' as its Content-Length.            *)
(*                                                                         *)
(* The reader of the copy may outlive the file's name: net/http's          *)
(* transport may still be writing the request body when RoundTrip returns, *)
(* and the handler's deferred Cleanup removes the name meanwhile.          *)
(***************************************************************************)
EXTENDS Integers, Sequences

CONSTANTS
    Byte,          \* the alphabet of bodies
    Bodies,        \* the bodies a reader may deliver
    MaxCapture,    \* maxCaptureBytes: --max-audit-body-bytes, checked > 0
    BufferSize     \* copyBufferSize

ASSUME SpoolAssumption ==
    /\ Bodies \subseteq Seq(Byte)
    /\ MaxCapture \in Nat \ {0}
    /\ BufferSize \in Nat \ {0}

VARIABLES
    pc,            \* control point of spoolBody, then what it returned
    body,          \* what the io.ReadCloser would deliver in full
    pos,           \* how much of it Read has handed out
    named,         \* the temporary file has its directory entry
    removeFailed,  \* an os.Remove of it was tried and failed
    disk,          \* the bytes of the file (they outlive its name)
    captured,      \* result.captured
    size,          \* result.size
    truncated,     \* result.truncated
    reader,        \* the file reopened by Open: "none", "open" or "failed"
    delivered      \* what that reader has handed to its consumer

result == <<captured, size, truncated>>
copy == <<reader, delivered>>
vars == <<pc, body, pos, named, removeFailed, disk, captured, size, truncated,
          reader, delivered>>

Minimum(a, b) == IF a <= b THEN a ELSE b

Prefix(s, n) == SubSeq(s, 1, n)

Init ==
    /\ pc = "create"
    /\ body \in Bodies
    /\ pos = 0
    /\ named = FALSE
    /\ removeFailed = FALSE
    /\ disk = << >>
    /\ captured = << >>
    /\ size = 0
    /\ truncated = FALSE
    /\ reader = "none"
    /\ delivered = << >>

----------------------------------------------------------------------------
(* os.CreateTemp                                                           *)

CreateTemp ==
    /\ pc = "create"
    /\ pc' = "copy"
    /\ named' = TRUE
    /\ UNCHANGED <<body, pos, removeFailed, disk, result, copy>>

CreateTempFails ==
    /\ pc = "create"
    /\ pc' = "error"
    /\ UNCHANGED <<body, pos, named, removeFailed, disk, result, copy>>

(* `_ = os.Remove(file.Name())': its failure is ignored.                   *)
RemoveFile ==
    \/ /\ named' = FALSE
       /\ UNCHANGED removeFailed
    \/ /\ removeFailed' = TRUE
       /\ UNCHANGED named

----------------------------------------------------------------------------
(* The copy loop                                                           *)

(* body.Read(buffer): the next n bytes.                                    *)
Chunk(n) == SubSeq(body, pos + 1, pos + n)

Readable == 0 .. Minimum(BufferSize, Len(body) - pos)

(* Mutant: the last chunk is kept whole, past the limit.                   *)
MutantCaptureWholeChunk(chunk) ==
    IF Len(captured) < MaxCapture THEN captured \o chunk ELSE captured

(* The part of a chunk that still fits in result.captured.                 *)
CaptureChunk(chunk) ==
    IF Len(captured) < MaxCapture
      THEN captured \o Prefix(chunk, Minimum(MaxCapture - Len(captured), Len(chunk)))
      ELSE captured

(* A Read that returned n bytes, all of them written to the file.          *)
Spool(n) ==
    /\ pos' = pos + n
    /\ disk' = disk \o Chunk(n)
    /\ size' = size + n
    /\ captured' = CaptureChunk(Chunk(n))

ReadMore(n) ==
    /\ pc = "copy"
    /\ Spool(n)
    /\ UNCHANGED <<pc, body, named, removeFailed, truncated, copy>>

(* Mutant: bytes that come together with io.EOF are not written.           *)
MutantEOFDropsBytes(n) ==
    /\ pc = "copy"
    /\ pos + n = Len(body)
    /\ pos' = pos + n
    /\ size' = size + n
    /\ captured' = CaptureChunk(Chunk(n))
    /\ pc' = "close"
    /\ UNCHANGED <<body, named, removeFailed, disk, truncated, copy>>

(* io.EOF, alone or with the last bytes.                                   *)
ReadEOF(n) ==
    /\ pc = "copy"
    /\ pos + n = Len(body)
    /\ Spool(n)
    /\ pc' = "close"
    /\ UNCHANGED <<body, named, removeFailed, truncated, copy>>

(* Any other read error; the bytes that came with it are written first.    *)
ReadFails(n) ==
    /\ pc = "copy"
    /\ Spool(n)
    /\ pc' = "error"
    /\ RemoveFile
    /\ UNCHANGED <<body, truncated, copy>>

(* file.Write stops after w of the n bytes (a full disk).                  *)
WriteFails(n, w) ==
    /\ pc = "copy"
    /\ w < n
    /\ pos' = pos + n
    /\ disk' = disk \o Prefix(Chunk(n), w)
    /\ pc' = "error"
    /\ RemoveFile
    /\ UNCHANGED <<body, result, copy>>

----------------------------------------------------------------------------
(* file.Close and the return                                               *)

(* Mutant: a body of exactly the limit counts as truncated.                *)
MutantTruncatedAtLimit ==
    /\ pc = "close"
    /\ pc' = "ok"
    /\ truncated' = (size >= MaxCapture)
    /\ UNCHANGED <<body, pos, named, removeFailed, disk, captured, size, copy>>

CloseFile ==
    /\ pc = "close"
    /\ pc' = "ok"
    /\ truncated' = (size > MaxCapture)
    /\ UNCHANGED <<body, pos, named, removeFailed, disk, captured, size, copy>>

(* Mutant: the error path of file.Close forgets the file.                  *)
MutantCloseFailsKeepsFile ==
    /\ pc = "close"
    /\ pc' = "error"
    /\ UNCHANGED <<body, pos, named, removeFailed, disk, result, copy>>

CloseFails ==
    /\ pc = "close"
    /\ pc' = "error"
    /\ RemoveFile
    /\ UNCHANGED <<body, pos, disk, result, copy>>

----------------------------------------------------------------------------
(* The spooledBody in the hands of serveAudited                            *)

Open ==
    /\ pc = "ok"
    /\ reader = "none"
    /\ named
    /\ reader' \in {"open", "failed"}
    /\ UNCHANGED <<pc, body, pos, named, removeFailed, disk, result, delivered>>

(* The consumer reads on, before or after Cleanup took the name away.      *)
Deliver(n) ==
    /\ reader = "open"
    /\ n \in 1 .. Len(disk) - Len(delivered)
    /\ delivered' = delivered \o SubSeq(disk, Len(delivered) + 1, Len(delivered) + n)
    /\ UNCHANGED <<pc, body, pos, named, removeFailed, disk, result, reader>>

(* Deferred, so it follows Open on every path of the handler.              *)
Cleanup ==
    /\ pc = "ok"
    /\ reader # "none"
    /\ pc' = "cleaned"
    /\ RemoveFile
    /\ UNCHANGED <<body, pos, disk, result, copy>>

----------------------------------------------------------------------------
ReadMoreStep == \E n \in Readable : ReadMore(n)

ReadEOFStep == \E n \in Readable : ReadEOF(n)

ReadFailsStep == \E n \in Readable : ReadFails(n)

WriteFailsStep == \E n \in Readable : \E w \in 0 .. n : WriteFails(n, w)

DeliverStep == \E n \in 1 .. Len(disk) : Deliver(n)

(* The call has returned and the consumer of the copy has all of it.       *)
Finished ==
    /\ pc \in {"error", "cleaned"}
    /\ reader = "open" => Len(delivered) = Len(disk)
    /\ UNCHANGED vars

Next ==
    \/ CreateTemp \/ CreateTempFails
    \/ ReadMoreStep \/ ReadEOFStep \/ ReadFailsStep \/ WriteFailsStep
    \/ CloseFile \/ CloseFails
    \/ Open \/ DeliverStep \/ Cleanup
    \/ Finished

(* No fairness: a client or a backend that stalls holds the loop for as    *)
(* long as it likes, for the server sets no ReadTimeout.                   *)
Spec == Init /\ [][Next]_vars

----------------------------------------------------------------------------
(* Properties                                                              *)

TypeOK ==
    /\ pc \in {"create", "copy", "close", "ok", "error", "cleaned"}
    /\ body \in Bodies
    /\ pos \in 0 .. Len(body)
    /\ named \in BOOLEAN
    /\ removeFailed \in BOOLEAN
    /\ disk \in Seq(Byte)
    /\ captured \in Seq(Byte)
    /\ size \in 0 .. Len(body)
    /\ truncated \in BOOLEAN
    /\ reader \in {"none", "open", "failed"}
    /\ delivered \in Seq(Byte)

(* What the audit event is built from: the captured bytes are the first    *)
(* MaxCapture of what was read, however Read cut the body into chunks.     *)
CapturedIsPrefix ==
    pc \in {"copy", "close", "ok", "cleaned"} =>
        captured = Prefix(body, Minimum(pos, MaxCapture))

(* A returned spooledBody tells the whole truth: its size is the body's,   *)
(* and `truncated' is set exactly when the capture is not the whole body.  *)
(* Build trusts the flag to decide whether a body is an object or a stub.  *)
TruncatedIsExact ==
    pc \in {"ok", "cleaned"} =>
        /\ size = Len(body)
        /\ truncated <=> captured # body

(* The bytes sent on are the bytes received, in order and in full number   *)
(* (size is the Content-Length), also once Cleanup has removed the name.   *)
CopyIsFaithful ==
    /\ delivered = Prefix(body, Len(delivered))
    /\ reader = "open" => Len(disk) = Len(body) /\ size = Len(body)

(* No path of spoolBody or of its owner leaves a temporary file behind     *)
(* unless os.Remove itself failed.                                         *)
NoFileLeftBehind ==
    pc \in {"error", "cleaned"} => (named => removeFailed)
=============================================================================
