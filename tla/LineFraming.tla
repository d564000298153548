---------------------------- MODULE LineFraming ----------------------------
(***************************************************************************)
(* How UnixSocketServer::IoLoop cuts what one client sends into lines.     *)
(* The client's byte stream arrives in reads of any size up to the read    *)
(* buffer's; line_buf keeps an unfinished line and discarding says that a  *)
(* line has become too long and is skipped up to its newline.              *)
(*                                                                         *)
(* `stream` and `delivered` are the history the properties speak of: every *)
(* byte read so far and every line given to the observers.                 *)
(***************************************************************************)
EXTENDS SequencesExt

CONSTANTS
  NL, CR,         \* the newline and the carriage return
  Data,           \* all other bytes
  kReadBufSize,   \* one read returns fewer bytes than this
  kMaxLineBytes,
  MaxBytes        \* bound on the length of the stream

ASSUME FramingAssumption ==
  /\ NL # CR /\ {NL, CR} \cap Data = {}
  /\ kReadBufSize \in Nat \ {0, 1} /\ kMaxLineBytes \in Nat /\ MaxBytes \in Nat
  /\ kReadBufSize <= kMaxLineBytes

VARIABLES stream, line_buf, discarding, delivered

framingVars == <<stream, line_buf, discarding, delivered>>

Bytes == {NL, CR} \cup Data

-----------------------------------------------------------------------------
(* Lines of a sequence of bytes.                                           *)

\* The positions of the newlines, where lines end.
Ends(s) == {i \in DOMAIN s : s[i] = NL}

\* Where the line begins that ends in front of e.
Start(s, e) ==
  CHOOSE b \in 1 .. e : /\ b = 1 \/ s[b - 1] = NL
                        /\ \A i \in b .. e - 1 : s[i] # NL

\* The line that ends in front of e, without its newline.
Line(s, e) == SubSeq(s, Start(s, e), e - 1)

\* What follows the last newline: a line still without its end.
Unfinished(s) == Line(s, Len(s) + 1)

\* CRLF counts as LF.
WithoutCR(line) ==
  IF line # <<>> /\ Last(line) = CR THEN Front(line) ELSE line

\* The numbers of S, from the least to the greatest.
InOrder(S) ==
  [k \in 1 .. Cardinality(S) |->
     CHOOSE x \in S : Cardinality({y \in S : y <= x}) = k]

\* The lines of s that end at the positions in S, in order.
LinesAt(s, S) ==
  [k \in 1 .. Cardinality(S) |-> WithoutCR(Line(s, InOrder(S)[k]))]

-----------------------------------------------------------------------------
FramingInit ==
  /\ stream = <<>> /\ line_buf = <<>> /\ discarding = FALSE
  /\ delivered = <<>>

\* The lines of buf that go to the observers: empty ones too.
Deliverable(buf) ==
  LinesAt(buf, {e \in Ends(buf) : Len(WithoutCR(Line(buf, e))) <= kMaxLineBytes})

\* Deliver the complete lines of the buffer, keep the rest, and give the rest
\* up if it is too long.
Frame(buf) ==
  /\ delivered' = delivered \o Deliverable(buf)
  /\ discarding' = (Len(Unfinished(buf)) >= kMaxLineBytes)
  /\ line_buf' = IF discarding' THEN <<>> ELSE Unfinished(buf)

\* A read in normal mode.
Accumulate(chunk) == ~discarding /\ Frame(line_buf \o chunk)

\* A read while a line is skipped, which does not end it.
Discard(chunk) ==
  /\ discarding /\ Ends(chunk) = {}
  /\ UNCHANGED <<line_buf, discarding, delivered>>

\* Mutant of Realign: the newline stays in front of what follows it.
RealignAtNewline(chunk) ==
  /\ discarding /\ Ends(chunk) # {}
  /\ Frame(line_buf \o SubSeq(chunk, Min(Ends(chunk)), Len(chunk)))

\* A read that ends the skipped line: what follows it is framed as usual.
Realign(chunk) ==
  /\ discarding /\ Ends(chunk) # {}
  /\ Frame(line_buf \o SubSeq(chunk, Min(Ends(chunk)) + 1, Len(chunk)))

\* One read of the client's socket, cut anywhere.
Read ==
  \E n \in 1 .. kReadBufSize - 1 : \E chunk \in [1 .. n -> Bytes] :
    /\ Len(stream) + n <= MaxBytes
    /\ stream' = stream \o chunk
    /\ Accumulate(chunk) \/ Discard(chunk) \/ Realign(chunk)

FramingSpec == FramingInit /\ [][Read]_framingVars

-----------------------------------------------------------------------------
(* Properties.                                                             *)

\* A line that every way of cutting the stream delivers.
SurelyDelivered(line) == Len(line) < kMaxLineBytes

\* A line that some way of cutting the stream delivers.
MayBeDelivered(line) == Len(WithoutCR(line)) <= kMaxLineBytes

\* However the stream was cut into reads, and whatever was skipped before, the
\* observers got lines of the stream, whole, in order and once each: every
\* shorter one, no longer one.  Only for a line of kMaxLineBytes does it
\* depend on the reads (IoLoop tests unfinished and complete lines apart).
DeliveredAreLines ==
  LET sure == {e \in Ends(stream) : SurelyDelivered(Line(stream, e))}
      may  == {e \in Ends(stream) : MayBeDelivered(Line(stream, e))}
  IN  \E got \in SUBSET may : sure \subseteq got /\ delivered = LinesAt(stream, got)
=============================================================================
