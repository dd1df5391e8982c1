---------------------------- MODULE MCHttpReceive -----------------------------
(* Small instances of HttpReceive for TLC. *)
EXTENDS HttpReceive

NotADigit == -1

Byte(k) == [kind |-> k, digit |-> NotADigit]
Digit(d) == [kind |-> "body", digit |-> d]
Chars(k, n) == [i \in 1..n |-> Byte(k)]

Get(u, h) == <<Byte("get")>> \o Chars("url", u) \o Chars("header", h) \o <<Byte("end")>>
Put(u, h, b) == <<Byte("put")>> \o Chars("url", u) \o Chars("header", h) \o <<Byte("end")>> \o b

(* One request: short, as long as the buffer, and longer. *)
Singles ==
  {Get(u, h) : u \in 1..3, h \in 0..6} \cup
  {Put(u, h, b) : u \in 1..2, h \in 0..5,
                  b \in {<<>>, <<Digit(1)>>, <<Digit(2)>>, <<Byte("body")>>,
                         <<Digit(2), Digit(5), Digit(6)>>}}

Malformed == {Get(2, 1) \o <<Byte("bad")>>, <<Byte("get"), Byte("url"), Byte("header"), Byte("bad"), Byte("end")>>}

(* A client that stops before the end of its headers, or never begins. *)
Unfinished == {<<>>, <<Byte("put"), Byte("url")>>, <<Byte("get"), Byte("url"), Byte("header")>>,
               Get(1, 0) \o <<Byte("put"), Byte("url"), Byte("header")>>}

Pairs == {a \o b : a \in {Get(1, 0), Put(1, 0, <<Digit(1)>>)}, b \in {Get(2, 0), Put(1, 1, <<Digit(0)>>)}}

MCJunk == {NotADigit, 7}

MCStreams == Singles \cup Malformed \cup Unfinished \cup Pairs
================================================================================
