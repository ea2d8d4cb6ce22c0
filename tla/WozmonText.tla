---------------------------- MODULE WozmonText ----------------------------
(***************************************************************************)
(* The text a Woz Monitor listing is kept in, as the loader reads it        *)
(* (bus_load_wozmon_txt_buf, bus.c:165-385).  A text is a sequence of       *)
(* characters, of which only the kind matters; a digit is its value.        *)
(***************************************************************************)
EXTENDS Integers, Sequences, FiniteSetsExt

Digits  == 0 .. 15
SPACE   == 16
NEWLINE == 17
COLON   == 18
RUN     == 19     \* R, behind an address
MARKER  == 20     \* X, before an address that does not count
COMMENT == 21     \* # or ; or two slashes, to the end of the line
JUNK    == 22     \* anything else, the T of a turbo load among it

Blank  == {SPACE, NEWLINE}
Wrap   == 65536
NoRunAddress == -1

(* hex_val, and strtol to base 16 *)
Number(digits) ==
  LET upTo[i \in 0 .. Len(digits)] == IF i = 0 THEN 0 ELSE 16 * upTo[i - 1] + digits[i]
  IN  upTo[Len(digits)]

(* Two digits make a byte, an odd one at the end makes none. *)
BytesOf(digits) ==
  [k \in 1 .. Len(digits) \div 2 |-> 16 * digits[2 * k - 1] + digits[2 * k]]

(* A comment's characters are dropped, its line's end is not: as if it were blank. *)
Cleaned(text) ==
  [i \in DOMAIN text |->
     IF \E j \in 1 .. i : text[j] = COMMENT /\ \A k \in j .. i : text[k] # NEWLINE
       THEN SPACE ELSE text[i]]

(* The numbers of a text, its longest runs of digits: where each starts and ends. *)
NumbersIn(t) ==
  LET starts == {i \in DOMAIN t : t[i] \in Digits /\ (i = 1 \/ t[i - 1] \notin Digits)}
      Start(n) == CHOOSE i \in starts : Cardinality({j \in starts : j < i}) = n - 1
      End(i)   == Max({j \in i .. Len(t) : \A k \in i .. j : t[k] \in Digits})
  IN  [n \in 1 .. Cardinality(starts) |-> <<Start(n), End(Start(n))>>]

Follows(t, j, c)       == j < Len(t) /\ t[j + 1] = c
FollowsBlanks(t, j, c) ==
  \E k \in j + 1 .. Len(t) : t[k] = c /\ \A b \in j + 1 .. k - 1 : t[b] \in Blank

-----------------------------------------------------------------------------
(* What has been read: where the next byte goes, the bytes so far, whether
   a byte or an address was found, and the last run address.                 *)
Nothing == [at |-> 0, image |-> [a \in {} |-> 0], found |-> FALSE, run |-> NoRunAddress]

(* Bytes count even where there is no RAM to hold them.  A run of fewer than
   Wrap bytes puts no two of them in one place.                              *)
Put(r, bytes) ==
  LET Place(k) == (r.at + k - 1) % Wrap
      places   == {Place(k) : k \in DOMAIN bytes}
  IN  [r EXCEPT !.at    = Place(Len(bytes) + 1),
                !.image = [a \in places \union DOMAIN r.image |->
                             IF a \in places THEN bytes[CHOOSE k \in DOMAIN bytes : Place(k) = a]
                                             ELSE r.image[a]],
                !.found = r.found \/ bytes # <<>>]

(* Four digits are an address; what is written before them without a blank is data. *)
AddressAt(digits) == IF Len(digits) > 4 THEN Len(digits) - 4 ELSE 0
(* Mutant: what is written before them is lost. *)
BeforeLost(digits) == <<>>
Before(digits)    == BytesOf(SubSeq(digits, 1, AddressAt(digits)))
AddressIn(digits) == Number(SubSeq(digits, AddressAt(digits) + 1, Len(digits)))

(* One number is skipped, runs a program, moves the address, or is data. *)
ReadNumber(t, r, n) ==
  LET digits == SubSeq(t, n[1], n[2])
      marked == n[1] > 1 /\ t[n[1] - 1] = MARKER
      runs   == Follows(t, n[2], RUN)
      moves  == FollowsBlanks(t, n[2], COLON) /\ Len(digits) >= 3
  IN  CASE marked \/ (runs /\ Len(digits) < 4)  -> r
        [] ~marked /\ runs /\ Len(digits) >= 4  -> [Put(r, Before(digits)) EXCEPT !.run = AddressIn(digits)]
        [] ~marked /\ ~runs /\ moves -> [Put(r, Before(digits)) EXCEPT !.at = AddressIn(digits), !.found = TRUE]
        [] ~marked /\ ~runs /\ ~moves -> Put(r, BytesOf(digits))

(* A text in which nothing is found is refused, one that only says where to run too. *)
Reading(text) ==
  LET t       == Cleaned(text)
      numbers == NumbersIn(t)
      upTo[n \in 0 .. Len(numbers)] == IF n = 0 THEN Nothing ELSE ReadNumber(t, upTo[n - 1], numbers[n])
  IN  upTo[Len(numbers)]

-----------------------------------------------------------------------------
(* The reference: what a listing means, and the ways it is printed.  A listing
   has lines of bytes, each from an address of its own or behind the line before
   it, and may end with the address to run.                                   *)
NoListing == [lines |-> <<>>, run |-> NoRunAddress]

Laid(m, x) ==
  LET at == IF x.at = NoRunAddress THEN m.at ELSE x.at
      offset == [a \in {(at + k) % Wrap : k \in 0 .. Len(x.bytes) - 1} |-> (a - at) % Wrap]
  IN  [at    |-> (at + Len(x.bytes)) % Wrap,
       image |-> [a \in DOMAIN m.image \union DOMAIN offset |->
                    IF a \in DOMAIN offset THEN x.bytes[offset[a] + 1] ELSE m.image[a]]]

Meaning(listing) ==
  LET upTo[n \in 0 .. Len(listing.lines)] ==
        IF n = 0 THEN [at |-> 0, image |-> [a \in {} |-> 0]] ELSE Laid(upTo[n - 1], listing.lines[n])
  IN  upTo[Len(listing.lines)].image

Printed2(b) == <<b \div 16, b % 16>>
Printed4(a) == Printed2(a \div 256) \o Printed2(a % 256)

(* How a line is laid out: what stands before it, before the colon, before each
   byte, and behind it.                                                       *)
PrintedLine(x, y) ==
  LET upTo[k \in 0 .. Len(x.bytes)] ==
        IF k = 0 THEN <<>> ELSE upTo[k - 1] \o y.gap \o Printed2(x.bytes[k])
  IN  y.before \o (IF x.at = NoRunAddress THEN <<>> ELSE Printed4(x.at) \o y.colon \o <<COLON>>)
               \o upTo[Len(x.bytes)] \o y.behind

Printed(listing, y) ==
  LET upTo[n \in 0 .. Len(listing.lines)] ==
        IF n = 0 THEN <<>> ELSE upTo[n - 1] \o PrintedLine(listing.lines[n], y)
  IN  upTo[Len(listing.lines)] \o (IF listing.run = NoRunAddress THEN <<>> ELSE Printed4(listing.run) \o <<RUN>>)
=============================================================================
