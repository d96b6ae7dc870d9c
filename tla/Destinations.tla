----------------------------- MODULE Destinations -----------------------------
(***************************************************************************)
(* How the programs render the destination of a connect, without snprintf: *)
(* "a.b.c.d:port" or "[hex groups]:port", as ASCII codes.  The string is   *)
(* the behavior a fingerprint keeps, so what it says must be the address.  *)
(***************************************************************************)
EXTENDS Integers, Sequences

Byte == {v \in Nat : v < 256}
Word == {v \in Nat : v < 65536}

Dot == 46
Colon == 58
OpenBracket == 91
CloseBracket == 93

Digit(d) == 48 + d

\* hexd.
HexDigit(d) == IF d < 10 THEN 48 + d ELSE 87 + d

\* PATH_MAX_LEN, the size of the buffer: a longer string would wrap around.
PathMaxLen == 256

\* put_u8_dec.
PutU8Dec(v) ==
  IF v >= 100 THEN <<Digit(v \div 100), Digit((v \div 10) % 10), Digit(v % 10)>>
  ELSE IF v >= 10 THEN <<Digit(v \div 10), Digit(v % 10)>>
  ELSE <<Digit(v)>>

\* put_u16_dec, whose loop takes the digits from the last one up to where
\* nothing is left of v, and puts them in reverse.
Digits(v) ==
  IF v >= 10000 THEN 5 ELSE IF v >= 1000 THEN 4 ELSE IF v >= 100 THEN 3 ELSE IF v >= 10 THEN 2
  ELSE 1

Power == <<1, 10, 100, 1000, 10000>>

DigitAt(v, power) == (v \div power) % 10

PutU16Dec(v) == [i \in 1..Digits(v) |-> Digit(DigitAt(v, Power[Digits(v) + 1 - i]))]

\* The IPv4 branch of trace_connect and of enforce_socket_connect.
IPv4(a, b, c, d, port) ==
  PutU8Dec(a) \o <<Dot>> \o PutU8Dec(b) \o <<Dot>> \o PutU8Dec(c) \o <<Dot>> \o PutU8Dec(d)
    \o <<Colon>> \o PutU16Dec(port)

\* The IPv6 branch: two hex digits a byte, a colon after every second one.
HexChar(addr, i) ==
  LET byte == addr[2 * ((i - 1) \div 5) + IF i % 5 \in {1, 2} THEN 1 ELSE 2] IN
  IF i % 5 = 0 THEN Colon
  ELSE IF i % 5 \in {1, 3} THEN HexDigit(byte \div 16) ELSE HexDigit(byte % 16)

HexGroups(addr) == [i \in 1..39 |-> HexChar(addr, i)]

IPv6(addr, port) ==
  <<OpenBracket>> \o HexGroups(addr) \o <<CloseBracket, Colon>> \o PutU16Dec(port)

=============================================================================
