------------------------------ MODULE HttpReceive ------------------------------
(***************************************************************************)
(* How one handler of application/network_http.c turns what recv()         *)
(* delivers into a request: the loop of client_conn_handler (lines         *)
(* 341-395), the parser callbacks (243-300) and what handle_http_request   *)
(* and handle_led_update then read through the pointers they left.         *)
(*                                                                         *)
(* A byte is known by its place in the client's stream: a buffer cell      *)
(* holds the index of the byte stored there, 0 while it was never          *)
(* written.  So reading a pointer tells which of the bytes sent are seen.  *)
(* The parser is a library; it is modelled by the callbacks it makes: data *)
(* callbacks once for each run of bytes within one call of                 *)
(* http_parser_execute.                                                    *)
(***************************************************************************)
EXTENDS Integers, Sequences, FiniteSetsExt

CONSTANTS
  BufSize,     (* sizeof(buf): 1024 in the code                              *)
  UrlMax,      (* sizeof(url) - 1: 99 in the code                            *)
  Streams,     (* bound: what the client may send, as sequences of Bytes     *)
  NoDigit,     (* the digit of a byte that is none                           *)
  JunkDigits   (* bound: what a byte that was never written may hold         *)

ASSUME ReceiveConstants ==
  /\ BufSize \in Nat \ {0} /\ UrlMax \in Nat \ {0}
  /\ NoDigit \notin 0..9 /\ JunkDigits \subseteq 0..9 \cup {NoDigit}

(* "put" and "get" stand for the method and begin a message; "end" ends the
   headers; "bad" is a byte the parser rejects. *)
Kinds == {"put", "get", "url", "header", "end", "body", "bad"}
Bytes == [kind : Kinds, digit : 0..9 \cup {NoDigit}]

(* What the parser takes for a byte of each kind depends on the one before: a
   request line with its URL, then headers, then perhaps a body, then perhaps
   another request.  "header" is whatever else stands before the end of the
   headers.  Behind a bad byte anything may follow.  Bound: a request whose
   headers are complete is not cut within its body. *)
Follow ==
  [k \in Kinds |-> CASE k \in {"put", "get"}  -> {"url", "bad"}
                     [] k = "url"              -> {"url", "header", "end", "bad"}
                     [] k = "header"           -> {"header", "end", "bad"}
                     [] k \in {"end", "body"}  -> {"body", "put", "get", "bad"}
                     [] k = "bad"              -> Kinds]

Grammatical(s) ==
  /\ s # <<>> => s[1].kind \in {"put", "get", "bad"}
  /\ \A i \in 1..Len(s)-1 : s[i + 1].kind \in Follow[s[i].kind]

ASSUME StreamShape == \A s \in Streams : s \in Seq(Bytes) /\ Grammatical(s)

VARIABLES
  stream, junk,        (* the client's bytes; the stale content of the stack *)
  pos,                 (* how many bytes were received: total_received       *)
  buf, offset,         (* locals of client_conn_handler                      *)
  url, body,           (* request.url and .body with their lengths           *)
  method,              (* request.method: first byte of the message it is of *)
  received_all,
  failed,              (* the parser met an error, and ignores what follows  *)
  outcome,             (* "receiving", "handled" or "closed"                 *)
  urlCalls             (* history: how often on_url was called               *)

env == <<stream, junk>>
request == <<url, body, method, received_all>>
vars == <<env, pos, buf, offset, request, failed, outcome, urlCalls>>

Null == [at |-> 0, len |-> 0]
Ptrs == {p \in [at : 0..BufSize-1, len : 0..BufSize] : p.at + p.len <= BufSize}

TypeOK ==
  /\ stream \in Streams /\ junk \in JunkDigits
  /\ pos \in 0..Len(stream)
  /\ buf \in [0..BufSize-1 -> 0..pos]
  /\ offset \in 0..BufSize-1
  /\ url \in Ptrs /\ body \in Ptrs
  /\ method \in 0..pos
  /\ received_all \in BOOLEAN /\ failed \in BOOLEAN
  /\ outcome \in {"receiving", "handled", "closed"}
  /\ urlCalls \in 0..pos

Init ==
  /\ stream \in Streams /\ junk \in JunkDigits
  /\ pos = 0
  /\ buf = [k \in 0..BufSize-1 |-> 0]
  /\ offset = 0
  /\ url = Null /\ body = Null
  /\ method = 0
  /\ received_all = FALSE /\ failed = FALSE
  /\ outcome = "receiving"
  /\ urlCalls = 0

--------------------------------------------------------------------------------
(* What the stream says. *)

Begins(i) == stream[i].kind \in {"put", "get"}
Completes(i) == /\ stream[i].kind \in {"end", "body"}
                /\ i < Len(stream) => stream[i + 1].kind # "body"
MessageOf(i) == Max({j \in 1..i : Begins(j)})
Part(m, kind) == {i \in m..Len(stream) : stream[i].kind = kind /\ MessageOf(i) = m}

(* The parser: of the n bytes received, those it parses. *)
Parsed(n) ==
  {i \in pos+1..pos+n : ~ failed /\ \A j \in pos+1..i : stream[j].kind # "bad"}

(* The bytes of one kind in P that belong to the last message that has any: the
   argument of the last data callback of that kind. *)
LastRun(kind, P) ==
  LET K == {i \in P : stream[i].kind = kind}
  IN  {i \in K : MessageOf(i) = MessageOf(Max(K))}

(* Mutant of DataCallback: the start of the data is kept from the first call. *)
KeepStart(ptr, kind, P) ==
  LET R == LastRun(kind, P)
  IN  IF R = {} THEN ptr
      ELSE [at |-> IF ptr = Null THEN offset + Min(R) - pos - 1 ELSE ptr.at,
            len |-> Cardinality(R)]

(* Mutant of DataCallback: the parser is given buf, not buf + offset. *)
FromBufStart(ptr, kind, P) ==
  LET R == LastRun(kind, P)
  IN  IF R = {} THEN ptr ELSE [at |-> Min(R) - pos - 1, len |-> Cardinality(R)]

(* on_url, on_body: the pointer and the length are overwritten *)
DataCallback(ptr, kind, P) ==
  LET R == LastRun(kind, P)
  IN  IF R = {} THEN ptr
      ELSE [at |-> offset + Min(R) - pos - 1, len |-> Cardinality(R)]

(* Mutant of ReceivedAll: set when the headers are complete. *)
ReceivedHeaders(P) ==
  received_all \/ \E i \in P : stream[i].kind = "end"

(* Mutant of ReceivedAll: on_message_complete is not registered. *)
ReceivedNever(P) == received_all

(* on_message_begin clears received_all, on_message_complete sets it *)
ReceivedAll(P) ==
  LET events == {i \in P : Begins(i) \/ Completes(i)}
  IN  IF events = {} THEN received_all ELSE Completes(Max(events))

(* on_headers_complete *)
HeadersComplete(P) ==
  LET ends == {i \in P : stream[i].kind = "end"}
  IN  IF ends = {} THEN method ELSE MessageOf(Max(ends))

Parse(P, n) ==
  /\ url' = DataCallback(url, "url", P)
  /\ body' = DataCallback(body, "body", P)
  /\ method' = HeadersComplete(P)
  /\ received_all' = ReceivedAll(P)
  /\ failed' = (failed \/ \E i \in pos+1..pos+n : stream[i].kind = "bad")
  /\ urlCalls' = urlCalls + Cardinality({MessageOf(i) : i \in {j \in P : stream[j].kind = "url"}})

(* Mutant of Wrap: > for >=. *)
WrapLate(o) == IF o > BufSize THEN 0 ELSE o

Wrap(o) == IF o >= BufSize THEN 0 ELSE o

(* recv() returned n bytes; they are parsed, and a complete request is handled *)
Recv(n) ==
  /\ outcome = "receiving"
  /\ n \in 1..(BufSize - offset)
  /\ pos + n <= Len(stream)
  /\ buf' = [k \in 0..BufSize-1 |->
               IF k \in offset..(offset + n - 1) THEN pos + 1 + k - offset ELSE buf[k]]
  /\ Parse(Parsed(n), n)
  /\ pos' = pos + n
  /\ offset' = Wrap(offset + n)
  /\ outcome' = IF received_all' THEN "handled" ELSE "receiving"
  /\ UNCHANGED env

(* recv() returned 0 or an error *)
RecvEnds ==
  /\ outcome = "receiving"
  /\ outcome' = "closed"
  /\ UNCHANGED <<env, pos, buf, offset, request, failed, urlCalls>>

Next == RecvEnds \/ \E n \in 1..BufSize : Recv(n)

Spec == Init /\ [][Next]_vars

--------------------------------------------------------------------------------
(* What handle_http_request reads. *)

(* the bytes that memcpy() takes for the local url *)
UrlRead == [k \in 1..Min({url.len, UrlMax}) |-> buf[url.at + k - 1]]

(* The digit in buffer cell k; past the buffer is other data of the stack. *)
DigitAt(k) == IF k < BufSize /\ buf[k] # 0 THEN stream[buf[k]].digit ELSE junk

(* atoi() reads on to the first byte that is no digit: the body is not
   terminated.  Bound: such a byte is found at the latest after one byte
   past the buffer. *)
AtoiLength(p) ==
  Max({n \in 0..(BufSize + 1 - p.at) :
         \A k \in p.at..(p.at + n - 1) : DigitAt(k) # NoDigit})

Atoi(p) ==
  LET value[n \in 0..AtoiLength(p)] ==
        IF n = 0 THEN 0 ELSE 10 * value[n - 1] + DigitAt(p.at + n - 1)
  IN  value[AtoiLength(p)]

(* uint8_t new_state *)
NewState == Atoi(body) % 256

LedUpdated == /\ outcome = "handled" /\ stream[method].kind = "put"
              /\ body.len >= 1 /\ NewState <= 1

--------------------------------------------------------------------------------
(* Properties. *)

WellFormed == \A i \in 1..Len(stream) : stream[i].kind # "bad"
(* the client sends one request, and all of it *)
Single == /\ WellFormed /\ stream # <<>> /\ Completes(Len(stream))
          /\ \A i \in 1..Len(stream) : Begins(i) => i = 1
Fits == Len(stream) <= BufSize
Ascending(S) == [k \in 1..Cardinality(S) |-> CHOOSE i \in S : Cardinality({j \in S : j <= i}) = k]

(* A handled request is complete: the message whose method is used was received
   to its last byte, and no other message began after it (line 385). *)
HandledIsComplete ==
  outcome = "handled" =>
    /\ method > 0
    /\ \E i \in method..pos : Completes(i) /\ MessageOf(i) = method
    /\ \A i \in method+1..pos : Begins(i) => failed

(* A request that comes alone is handled as soon as its last byte was received,
   however it was cut and whether or not the buffer wrapped round. *)
HandledAtLastByte == Single /\ pos = Len(stream) => outcome = "handled"

(* What is read as the URL of a request that fits the buffer is the end of the
   URL the client sent: bytes may be missing in front, none is foreign. *)
UrlIsSuffix ==
  outcome = "handled" /\ Single /\ Fits /\ url.len <= UrlMax =>
    \E i \in Part(1, "url") : UrlRead = Ascending({j \in Part(1, "url") : j >= i})

(* A URL that one recv() delivered whole is read whole, if the request fits the
   buffer. *)
UrlWholeUnlessCut ==
  outcome = "handled" /\ Single /\ Fits /\ urlCalls = 1 /\ url.len <= UrlMax =>
    UrlRead = Ascending(Part(1, "url"))

(* One digit followed by no stale digit is the value it denotes. *)
DigitIsRead ==
  outcome = "handled" /\ Single /\ Fits /\ junk = NoDigit /\ Cardinality(Part(1, "body")) = 1
    => \A i \in Part(1, "body") :
         NewState = IF stream[i].digit = NoDigit THEN 0 ELSE stream[i].digit

(* "If HTTP request completely received, process the request" (line 384), with
   the URL the client sent: what is read is that URL, unless it is longer than
   the local copy. *)
UrlAsSent ==
  outcome = "handled" /\ Single /\ Cardinality(Part(1, "url")) <= UrlMax => UrlRead = Ascending(Part(1, "url"))

(* "0 = LED OFF, 1 = LED ON" (line 94): a body that is one of these digits is
   always accepted. *)
ZeroOrOneAccepted ==
  outcome = "handled" /\ Single /\ Fits /\ stream[1].kind = "put"
  /\ Cardinality(Part(1, "body")) = 1
  /\ (\A i \in Part(1, "body") : stream[i].digit \in {0, 1}) => LedUpdated
================================================================================
